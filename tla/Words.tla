------------------------------- MODULE Words -------------------------------
(***************************************************************************)
(* Addresses as the code computes with them: two machine words, high and   *)
(* low, with carries and borrows between them.  internal/normalize and     *)
(* internal/parse have a type uint128 each; where the two agree one        *)
(* operator stands for both.  IPv6 addresses use both words, IPv4          *)
(* addresses a part of the low one.                                        *)
(***************************************************************************)
EXTENDS Integers, FiniteSets

CONSTANTS
    WordBits,   \* bits of a machine word, 64 in the code
    ShortBits   \* bits of an IPv4 address, 32 in the code

ASSUME WordsAssumption ==
    /\ WordBits \in Nat \ {0}
    /\ ShortBits \in 1 .. (WordBits - 1)

(* Shifting 1 by k bits. *)
Pow2[k \in Nat] == IF k = 0 THEN 1 ELSE 2 * Pow2[k - 1]

LongBits == 2 * WordBits
Modulus == Pow2[WordBits]
Word == 0 .. (Modulus - 1)
Uint == [hi : Word, lo : Word]

U(hi, lo) == [hi |-> hi, lo |-> lo]
Zero == U(0, 0)
Ones == U(Modulus - 1, Modulus - 1)

(* The number two words stand for; the code never computes it. *)
Num(u) == u.hi * Modulus + u.lo

Bits(long) == IF long THEN LongBits ELSE ShortBits

-----------------------------------------------------------------------------

Below(a, b) == a.hi < b.hi \/ (a.hi = b.hi /\ a.lo < b.lo)

(* For a not below b. *)
Minus(a, b) ==
    LET borrow == IF a.lo < b.lo THEN 1 ELSE 0
    IN  U((a.hi - b.hi - borrow) % Modulus, (a.lo - b.lo) % Modulus)

(* The sum of two numbers, and the carry out of the high word. *)
Plus(a, b) ==
    LET lo == a.lo + b.lo
        hi == a.hi + b.hi + (lo \div Modulus)
    IN  [sum |-> U(hi % Modulus, lo % Modulus), carry |-> hi >= Modulus]

PlusOne(a) == Plus(a, U(0, 1))

(* bits.TrailingZeros64 of a word that is not 0, and bits.Len64. *)
Twos(w) == CHOOSE k \in 0 .. WordBits :
               w % Pow2[k] = 0 /\ w % Pow2[k + 1] # 0
WordLen(w) == CHOOSE k \in 0 .. WordBits :
                  w < Pow2[k] /\ (k = 0 \/ w >= Pow2[k - 1])

TrailingZeros(u) ==
    IF u.lo # 0 THEN Twos(u.lo)
    ELSE IF u.hi # 0 THEN WordBits + Twos(u.hi)
    ELSE LongBits

BitLen(u) == IF u.hi # 0 THEN WordBits + WordLen(u.hi) ELSE WordLen(u.lo)

Lesser(i, j) == IF i < j THEN i ELSE j

-----------------------------------------------------------------------------
(* Ranges of addresses are inclusive.  A prefix is the block of the 2^host *)
(* addresses from its start, which is aligned: the code masks a prefix     *)
(* before it looks at it.                                                  *)

Family(long) == {u \in Uint : long \/ (u.hi = 0 /\ u.lo < Pow2[ShortBits])}

IpRange ==
    {r \in [long : BOOLEAN, start : Uint, end : Uint] :
        {r.start, r.end} \subseteq Family(r.long) /\ ~Below(r.end, r.start)}

Prefix ==
    {p \in [long : BOOLEAN, start : Uint, host : 0 .. LongBits] :
        /\ p.start \in Family(p.long)
        /\ p.host <= Bits(p.long)
        /\ Num(p.start) % Pow2[p.host] = 0}

(* The mask of the host bits, by the word the boundary lies in. *)
HostMask(host) ==
    IF host > WordBits THEN U(Pow2[host - WordBits] - 1, Modulus - 1)
    ELSE U(0, Pow2[host] - 1)

RangeOf(p) ==
    [long  |-> p.long,
     start |-> p.start,
     end   |-> Plus(p.start, HostMask(p.host)).sum]

(* Two prefixes of one family that share an address. *)
Overlaps(p, q) ==
    /\ p.long = q.long
    /\ ~Below(RangeOf(p).end, q.start)
    /\ ~Below(RangeOf(q).end, p.start)
=============================================================================
