----------------------------- MODULE ListProofs -----------------------------
(***************************************************************************)
(* What the address arithmetic promises for every width of words and       *)
(* addresses and for every list: proofs about the operators of Words and   *)
(* Normalize against plain numbers, and the invariants of ListPath that    *)
(* rest on them.                                                           *)
(***************************************************************************)
EXTENDS ListSafety, WellFoundedInduction, FiniteSetTheorems, TLAPS

-----------------------------------------------------------------------------
(* Powers of two. *)

(* A set of naturals that has a member has a least one: what the proofs    *)
(* below use in place of induction.                                        *)
LEMMA LeastMember ==
    ASSUME NEW S \in SUBSET Nat, S # {}
    PROVE  \E x \in S : \A y \in S : x <= y
<1> DEFINE R == {ss \in Nat \X Nat : ss[1] < ss[2]}
<1>1. IsWellFoundedOn(R, Nat)
    BY NatLessThanWellFounded DEF OpToRel
<1>2. \E x \in S : \A y \in S : ~(<<y, x>> \in R)
    <2> HIDE DEF R
    <2> QED
        BY <1>1, WFMin
<1>3. \A x, y \in Nat : y < x => <<y, x>> \in R
    OBVIOUS
<1> HIDE DEF R
<1>4. PICK x \in S : \A y \in S : ~(<<y, x>> \in R)
    BY <1>2
<1>5. \A y \in S : x \in Nat /\ y \in Nat /\ ~(y < x)
    BY <1>3, <1>4
<1> QED
    BY <1>5

(* What 0 has, and every number that follows one that has it, all have.    *)
LEMMA Induction ==
    ASSUME NEW S, 0 \in S, \A n \in Nat : n \in S => n + 1 \in S
    PROVE  Nat \subseteq S
<1> SUFFICES ASSUME Nat \ S # {} PROVE FALSE
    OBVIOUS
<1>1. PICK x \in Nat \ S : \A y \in Nat \ S : x <= y
    BY LeastMember
<1>2. x # 0 /\ x - 1 \in Nat
    BY <1>1
<1>3. x - 1 \in S
    BY <1>1, <1>2
<1> QED
    BY <1>1, <1>2, <1>3

(* A table of the powers up to n. *)
Table(f, n) ==
    f = [k \in 0 .. n |-> IF k = 0 THEN 1 ELSE 2 * f[k - 1]]

(* There is a table of any length. *)
LEMMA TablesExist == \A n \in Nat : \E f : Table(f, n)
<1> DEFINE S == {n \in Nat : \E f : Table(f, n)}
<1>1. 0 \in S
    <2> DEFINE f == [k \in 0 .. 0 |-> 1]
    <2>1. Table(f, 0)
        BY DEF Table
    <2> QED
        BY <2>1
<1>2. \A n \in Nat : n \in S => n + 1 \in S
    <2> SUFFICES ASSUME NEW n \in Nat, NEW f, Table(f, n)
                 PROVE  \E g : Table(g, n + 1)
        OBVIOUS
    <2> DEFINE g == [k \in 0 .. (n + 1) |->
                        IF k = n + 1 THEN 2 * f[n] ELSE f[k]]
    <2>1. \A k \in 0 .. n : f[k] = IF k = 0 THEN 1 ELSE 2 * f[k - 1]
        BY DEF Table
    <2>2. \A k \in 0 .. (n + 1) : g[k] = IF k = 0 THEN 1 ELSE 2 * g[k - 1]
        BY <2>1
    <2>3. Table(g, n + 1)
        <3> HIDE DEF g
        <3> g = [k \in 0 .. (n + 1) |-> g[k]]
            BY DEF g
        <3> QED
            BY <2>2 DEF Table
    <2> QED
        BY <2>3
<1> HIDE DEF S
<1> Nat \subseteq S
    BY <1>1, <1>2, Induction
<1> QED
    BY DEF S

(* Longer tables begin like shorter ones. *)
LEMMA TablesAgree ==
    ASSUME NEW m \in Nat, NEW n \in Nat, NEW f, NEW g,
           Table(f, m), Table(g, n), NEW j \in Nat, j <= m, j <= n
    PROVE  f[j] = g[j]
<1> DEFINE S == {k \in Nat : k <= m /\ k <= n => f[k] = g[k]}
<1>1. \A k \in 0 .. m : f[k] = IF k = 0 THEN 1 ELSE 2 * f[k - 1]
    BY DEF Table
<1>2. \A k \in 0 .. n : g[k] = IF k = 0 THEN 1 ELSE 2 * g[k - 1]
    BY DEF Table
<1>3. 0 \in S
    BY <1>1, <1>2
<1>4. \A k \in Nat : k \in S => k + 1 \in S
    <2> SUFFICES ASSUME NEW k \in Nat, k \in S, k + 1 <= m, k + 1 <= n
                 PROVE  f[k + 1] = g[k + 1]
        OBVIOUS
    <2>1. f[k] = g[k]
        OBVIOUS
    <2>2. f[k + 1] = 2 * f[k]
        BY <1>1
    <2>3. g[k + 1] = 2 * g[k]
        BY <1>2
    <2> QED
        BY <2>1, <2>2, <2>3
<1> HIDE DEF S
<1> Nat \subseteq S
    BY <1>3, <1>4, Induction
<1> QED
    BY DEF S

(* The recursion that defines Pow2 has a solution. *)
LEMMA PowerDef ==
    Pow2 = [k \in Nat |-> IF k = 0 THEN 1 ELSE 2 * Pow2[k - 1]]
<1> DEFINE tab == [n \in Nat |-> CHOOSE f : Table(f, n)]
           g == [n \in Nat |-> tab[n][n]]
<1>1. \A n \in Nat : Table(tab[n], n)
    BY TablesExist
<1>2. ASSUME NEW k \in Nat
      PROVE  g[k] = IF k = 0 THEN 1 ELSE 2 * g[k - 1]
    <2>1. tab[k][k] = IF k = 0 THEN 1 ELSE 2 * tab[k][k - 1]
        <3> HIDE DEF tab
        <3>1. Table(tab[k], k) /\ k \in 0 .. k
            BY <1>1
        <3> QED
            BY <3>1 DEF Table
    <2>2. k # 0 => tab[k][k - 1] = tab[k - 1][k - 1]
        <3> HIDE DEF tab
        <3> SUFFICES ASSUME k # 0
                     PROVE  tab[k][k - 1] = tab[k - 1][k - 1]
            OBVIOUS
        <3>1. k - 1 \in Nat
            OBVIOUS
        <3> QED
            BY <1>1, <3>1, TablesAgree
    <2> HIDE DEF tab
    <2> QED
        BY <2>1, <2>2
<1>3. g = [k \in Nat |-> g[k]]
    OBVIOUS
<1> HIDE DEF g
<1>4. g = [k \in Nat |-> IF k = 0 THEN 1 ELSE 2 * g[k - 1]]
    BY <1>2, <1>3
<1> QED
    BY <1>4 DEF Pow2

(* What the recursion says of 0. *)
LEMMA PowerZero == Pow2[0] = 1
BY PowerDef

(* What the recursion says of every other number. *)
LEMMA PowerNext == \A k \in Nat : Pow2[k + 1] = 2 * Pow2[k]
BY PowerDef

(* Powers are positive numbers. *)
LEMMA PowerType == \A k \in Nat : Pow2[k] \in Nat /\ Pow2[k] > 0
<1> DEFINE S == {k \in Nat : Pow2[k] \in Nat /\ Pow2[k] > 0}
<1>1. 0 \in S
    BY PowerZero
<1>2. \A k \in Nat : k \in S => k + 1 \in S
    BY PowerNext
<1> HIDE DEF S
<1> Nat \subseteq S
    BY <1>1, <1>2, Induction
<1> QED
    BY DEF S

(* The power of a sum is the product of the powers. *)
LEMMA PowerSum == \A j, k \in Nat : Pow2[j + k] = Pow2[j] * Pow2[k]
<1> SUFFICES ASSUME NEW j \in Nat
             PROVE  \A k \in Nat : Pow2[j + k] = Pow2[j] * Pow2[k]
    OBVIOUS
<1> DEFINE S == {k \in Nat : Pow2[j + k] = Pow2[j] * Pow2[k]}
<1>1. 0 \in S
    BY PowerZero, PowerType
<1>2. \A k \in Nat : k \in S => k + 1 \in S
    <2> SUFFICES ASSUME NEW k \in Nat, Pow2[j + k] = Pow2[j] * Pow2[k]
                 PROVE  Pow2[j + (k + 1)] = Pow2[j] * Pow2[k + 1]
        OBVIOUS
    <2>1. Pow2[j + (k + 1)] = 2 * Pow2[j + k]
        <3> (j + k) + 1 = j + (k + 1)
            OBVIOUS
        <3> QED
            BY PowerNext
    <2>2. Pow2[k + 1] = 2 * Pow2[k]
        BY PowerNext
    <2>3. Pow2[j] \in Nat /\ Pow2[k] \in Nat
        BY PowerType
    <2>4. 2 * (Pow2[j] * Pow2[k]) = Pow2[j] * (2 * Pow2[k])
        BY <2>3
    <2> QED
        BY <2>1, <2>2, <2>4
<1> HIDE DEF S
<1> Nat \subseteq S
    BY <1>1, <1>2, Induction
<1> QED
    BY DEF S

(* A greater power is at least twice the smaller one. *)
LEMMA PowerGrows ==
    \A j, k \in Nat : /\ j <= k => Pow2[j] <= Pow2[k]
                      /\ j < k => 2 * Pow2[j] <= Pow2[k]
<1>1. \A j, k \in Nat : Pow2[j] <= Pow2[j + k]
    <2> SUFFICES ASSUME NEW j \in Nat, NEW k \in Nat
                 PROVE  Pow2[j] <= Pow2[j] * Pow2[k]
        BY PowerSum
    <2> QED
        BY PowerType
<1>2. ASSUME NEW j \in Nat, NEW k \in Nat, j <= k
      PROVE  Pow2[j] <= Pow2[k]
    <2> /\ k - j \in Nat
        /\ j + (k - j) = k
        BY <1>2
    <2> QED
        BY <1>1
<1>3. ASSUME NEW j \in Nat, NEW k \in Nat, j < k
      PROVE  2 * Pow2[j] <= Pow2[k]
    BY <1>2, <1>3, PowerNext
<1> QED
    BY <1>2, <1>3

-----------------------------------------------------------------------------
(* Words. *)

(* How the widths of words and addresses, and the numbers of addresses     *)
(* that they allow, compare.                                               *)
LEMMA Widths ==
    /\ WordBits \in Nat /\ WordBits > 0
    /\ ShortBits \in Nat /\ ShortBits > 0 /\ ShortBits < WordBits
    /\ LongBits \in Nat /\ LongBits = WordBits + WordBits
    /\ Modulus \in Nat /\ Modulus >= 2
    /\ Modulus * Modulus \in Nat /\ Modulus * Modulus >= 2 * Modulus
    /\ Pow2[LongBits] = Modulus * Modulus
    /\ Pow2[ShortBits] \in Nat /\ 2 * Pow2[ShortBits] <= Modulus
<1>1. /\ WordBits \in Nat /\ WordBits > 0
      /\ ShortBits \in Nat /\ ShortBits > 0 /\ ShortBits < WordBits
      /\ LongBits \in Nat /\ LongBits = WordBits + WordBits
    BY WordsAssumption DEF LongBits
<1>2. Modulus \in Nat /\ Pow2[LongBits] = Modulus * Modulus
    BY <1>1, PowerType, PowerSum DEF Modulus
<1>3. Pow2[ShortBits] \in Nat /\ 2 * Pow2[ShortBits] <= Modulus
    BY <1>1, PowerType, PowerGrows DEF Modulus
<1>4. Modulus >= 2
    BY <1>1, <1>2, PowerZero, PowerGrows DEF Modulus
<1>5. Modulus * Modulus \in Nat /\ Modulus * Modulus >= 2 * Modulus
    BY <1>2, <1>4
<1> QED
    BY <1>1, <1>2, <1>3, <1>4, <1>5

(* The addresses of either family fit into two words. *)
LEMMA BitsType ==
    ASSUME NEW long \in BOOLEAN
    PROVE  /\ Bits(long) \in Nat /\ Bits(long) > 0 /\ Bits(long) <= LongBits
           /\ Pow2[Bits(long)] \in Nat
           /\ Pow2[Bits(long)] <= Modulus * Modulus
<1>1. /\ Bits(long) \in Nat /\ Bits(long) > 0 /\ Bits(long) <= LongBits
    BY Widths DEF Bits
<1>2. Pow2[Bits(long)] <= Pow2[LongBits]
    BY <1>1, Widths, PowerGrows
<1> QED
    BY <1>1, <1>2, Widths, PowerType

(* Division by m on either side of 0 and up to 2m. *)
LEMMA OneDigit ==
    ASSUME NEW m \in Nat, m > 0, NEW x \in Int
    PROVE  /\ 0 <= x /\ x < m => x % m = x /\ x \div m = 0
           /\ m <= x /\ x < 2 * m => x % m = x - m /\ x \div m = 1
           /\ -m <= x /\ x < 0 => x % m = x + m
OBVIOUS

(* Multiplication, in the forms that the proofs below need. *)
LEMMA Distribute ==
    ASSUME NEW x \in Int, NEW y \in Int, NEW z \in Int
    PROVE  /\ (x + y) * z = x * z + y * z
           /\ (x - y) * z = x * z - y * z
           /\ (x * y) * z = x * (y * z)
           /\ x * z \in Int /\ y * z \in Int
OBVIOUS

(* The sum of two numbers of two digits, by digits and by carries. *)
LEMMA Carrying ==
    ASSUME NEW m \in Int, NEW ah \in Int, NEW al \in Int, NEW bh \in Int,
           NEW bl \in Int, NEW c \in Int, NEW d \in Int
    PROVE  (ah + bh + c - d * m) * m + (al + bl - c * m)
             = (ah * m + al) + (bh * m + bl) - d * (m * m)
OBVIOUS

(* The two words of a number. *)
LEMMA UintFields ==
    ASSUME NEW u \in Uint
    PROVE  /\ u.hi \in Nat /\ u.hi < Modulus
           /\ u.lo \in Nat /\ u.lo < Modulus
BY Widths DEF Uint, Word

(* Two words make a number. *)
LEMMA MakeUint ==
    ASSUME NEW hi \in Nat, NEW lo \in Nat, hi < Modulus, lo < Modulus
    PROVE  /\ U(hi, lo) \in Uint
           /\ U(hi, lo).hi = hi /\ U(hi, lo).lo = lo
           /\ Num(U(hi, lo)) = hi * Modulus + lo
BY Widths DEF U, Uint, Word, Num

(* A number of two words is less than the square of the modulus. *)
LEMMA NumType ==
    ASSUME NEW u \in Uint
    PROVE  Num(u) \in Nat /\ Num(u) < Modulus * Modulus
<1>1. /\ u.hi \in Nat /\ u.hi <= Modulus - 1
      /\ u.lo \in Nat /\ u.lo < Modulus
    BY UintFields, Widths
<1>2. /\ u.hi * Modulus \in Nat
      /\ u.hi * Modulus <= (Modulus - 1) * Modulus
    BY <1>1, Widths
<1>3. (Modulus - 1) * Modulus = Modulus * Modulus - Modulus
    BY Widths
<1> QED
    BY <1>1, <1>2, <1>3, Widths DEF Num

(* The comparison of two words is that of the numbers they stand for. *)
LEMMA BelowIsLess ==
    ASSUME NEW a \in Uint, NEW b \in Uint
    PROVE  Below(a, b) <=> Num(a) < Num(b)
<1>1. /\ a.hi \in Nat /\ a.lo \in Nat /\ a.lo < Modulus
      /\ b.hi \in Nat /\ b.lo \in Nat /\ b.lo < Modulus
    BY UintFields
<1>2. a.hi < b.hi => Num(a) < Num(b)
    <2> SUFFICES ASSUME a.hi + 1 <= b.hi PROVE Num(a) < Num(b)
        BY <1>1
    <2>1. (a.hi + 1) * Modulus <= b.hi * Modulus
        BY <1>1, Widths
    <2>2. (a.hi + 1) * Modulus = a.hi * Modulus + Modulus
        BY <1>1, Widths
    <2>3. a.hi * Modulus \in Nat /\ b.hi * Modulus \in Nat
        BY <1>1, Widths
    <2> QED
        BY <1>1, <2>1, <2>2, <2>3, Widths DEF Num
<1>3. b.hi < a.hi => Num(b) < Num(a)
    <2> SUFFICES ASSUME b.hi + 1 <= a.hi PROVE Num(b) < Num(a)
        BY <1>1
    <2>1. (b.hi + 1) * Modulus <= a.hi * Modulus
        BY <1>1, Widths
    <2>2. (b.hi + 1) * Modulus = b.hi * Modulus + Modulus
        BY <1>1, Widths
    <2>3. a.hi * Modulus \in Nat /\ b.hi * Modulus \in Nat
        BY <1>1, Widths
    <2> QED
        BY <1>1, <2>1, <2>2, <2>3, Widths DEF Num
<1>4. a.hi = b.hi => (a.lo < b.lo <=> Num(a) < Num(b))
    <2> SUFFICES ASSUME a.hi = b.hi
                 PROVE  a.lo < b.lo <=> Num(a) < Num(b)
        OBVIOUS
    <2>1. a.hi * Modulus \in Nat /\ b.hi * Modulus = a.hi * Modulus
        BY <1>1, Widths
    <2> QED
        BY <1>1, <2>1 DEF Num
<1>5. Num(a) \in Nat /\ Num(b) \in Nat
    BY NumType
<1> QED
    BY <1>1, <1>2, <1>3, <1>4, <1>5 DEF Below

(* Words that stand for one number are equal. *)
LEMMA NumDecides ==
    ASSUME NEW a \in Uint, NEW b \in Uint, Num(a) = Num(b)
    PROVE  a = b
<1>1. ~Below(a, b) /\ ~Below(b, a)
    BY BelowIsLess, NumType
<1>2. a.hi = b.hi /\ a.lo = b.lo
    BY <1>1, UintFields DEF Below
<1> QED
    BY <1>2 DEF Uint

(* The sum of two numbers, less the whole space when it is beyond that. *)
LEMMA PlusIsSum ==
    ASSUME NEW a \in Uint, NEW b \in Uint
    PROVE  /\ Plus(a, b).sum \in Uint
           /\ Plus(a, b).carry <=> Num(a) + Num(b) >= Modulus * Modulus
           /\ Num(Plus(a, b).sum) =
                IF Plus(a, b).carry THEN Num(a) + Num(b) - Modulus * Modulus
                ELSE Num(a) + Num(b)
<1> DEFINE lo == a.lo + b.lo
           c == lo \div Modulus
           hi == a.hi + b.hi + c
<1>1. /\ a.hi \in Nat /\ a.lo \in Nat /\ b.hi \in Nat /\ b.lo \in Nat
      /\ a.hi <= Modulus - 1 /\ a.lo <= Modulus - 1
      /\ b.hi <= Modulus - 1 /\ b.lo <= Modulus - 1
    BY UintFields, Widths
<1>2. /\ c \in {0, 1}
      /\ lo % Modulus = lo - c * Modulus
      /\ lo % Modulus \in Nat /\ lo % Modulus < Modulus
    <2>1. lo \in Nat /\ lo < 2 * Modulus
        BY <1>1, Widths
    <2> QED
        BY <2>1, Widths, OneDigit
<1> HIDE DEF lo, c
<1>3. /\ hi \in Nat /\ hi < 2 * Modulus
    BY <1>1, <1>2, Widths
<1>4. /\ Plus(a, b).sum = U(hi % Modulus, lo % Modulus)
      /\ Plus(a, b).carry = (hi >= Modulus)
    BY DEF Plus, lo, c
<1>5. PICK h \in Int, l \in Int, e \in {0, 1} :
        /\ h = hi % Modulus /\ l = lo % Modulus
        /\ e = IF hi < Modulus THEN 0 ELSE 1
        /\ h = a.hi + b.hi + c - e * Modulus
        /\ l = a.lo + b.lo - c * Modulus
        /\ 0 <= h /\ h < Modulus /\ 0 <= l /\ l < Modulus
    <2> DEFINE d == IF hi < Modulus THEN 0 ELSE 1
    <2>1. /\ hi % Modulus = hi - d * Modulus /\ hi % Modulus \in Int
          /\ 0 <= hi % Modulus /\ hi % Modulus < Modulus
        <3> HIDE DEF hi
        <3> QED
            BY <1>3, Widths, OneDigit
    <2>2. /\ lo % Modulus = a.lo + b.lo - c * Modulus /\ lo % Modulus \in Int
          /\ 0 <= lo % Modulus /\ lo % Modulus < Modulus
        BY <1>1, <1>2, Widths DEF lo
    <2>3. hi = a.hi + b.hi + c
        OBVIOUS
    <2>4. d \in {0, 1} /\ d = IF hi < Modulus THEN 0 ELSE 1
        OBVIOUS
    <2> HIDE DEF hi, d
    <2>5. hi % Modulus = a.hi + b.hi + c - d * Modulus
        BY <1>1, <1>2, <1>3, <2>1, <2>3, <2>4, Widths
    <2> QED
        BY <2>1, <2>2, <2>4, <2>5
<1>6. Plus(a, b).sum \in Uint /\ Num(Plus(a, b).sum) = h * Modulus + l
    BY <1>4, <1>5, MakeUint
<1>7. h * Modulus + l = Num(a) + Num(b) - e * (Modulus * Modulus)
    <2>1. h * Modulus + l
            = (a.hi * Modulus + a.lo) + (b.hi * Modulus + b.lo)
                - e * (Modulus * Modulus)
        <3> Modulus \in Int /\ c \in Int /\ e \in Int
            BY <1>2, <1>5, Widths
        <3>1. (a.hi + b.hi + c - e * Modulus) * Modulus
                + (a.lo + b.lo - c * Modulus)
                = (a.hi * Modulus + a.lo) + (b.hi * Modulus + b.lo)
                    - e * (Modulus * Modulus)
            BY <1>1, Carrying
        <3> QED
            BY <1>5, <3>1
    <2> QED
        BY <2>1 DEF Num
<1>8. /\ Num(Plus(a, b).sum) = Num(a) + Num(b) - e * (Modulus * Modulus)
      /\ Num(Plus(a, b).sum) \in Nat
      /\ Num(Plus(a, b).sum) < Modulus * Modulus
    BY <1>6, <1>7, NumType
<1>9. Num(a) \in Nat /\ Num(b) \in Nat
    BY NumType
<1>10. /\ ~Plus(a, b).carry => e = 0
       /\ Plus(a, b).carry => e = 1
    <2>1. Plus(a, b).carry <=> hi >= Modulus
        BY <1>4
    <2> HIDE DEF hi
    <2> QED
        BY <1>3, <1>5, <2>1, Widths
<1>11. Plus(a, b).carry \in BOOLEAN
    BY <1>4
<1> QED
    BY <1>6, <1>8, <1>9, <1>10, <1>11, Widths

(* The difference of two numbers, the greater one first. *)
LEMMA MinusIsDifference ==
    ASSUME NEW a \in Uint, NEW b \in Uint, ~Below(a, b)
    PROVE  Minus(a, b) \in Uint /\ Num(Minus(a, b)) = Num(a) - Num(b)
<1> DEFINE c == IF a.lo < b.lo THEN 1 ELSE 0
<1>1. /\ a.hi \in Nat /\ a.lo \in Nat /\ b.hi \in Nat /\ b.lo \in Nat
      /\ a.hi < Modulus /\ a.lo < Modulus
      /\ b.hi < Modulus /\ b.lo < Modulus
    BY UintFields
<1>2. Minus(a, b) = U((a.hi - b.hi - c) % Modulus, (a.lo - b.lo) % Modulus)
    BY DEF Minus
<1>3. (a.lo - b.lo) % Modulus = a.lo - b.lo + c * Modulus
    <2>1. a.lo - b.lo \in Int
        BY <1>1
    <2> QED
        BY <1>1, <2>1, Widths, OneDigit
<1>4. 0 <= a.lo - b.lo + c * Modulus /\ a.lo - b.lo + c * Modulus < Modulus
    BY <1>1, Widths
<1>5. 0 <= a.hi - b.hi - c /\ a.hi - b.hi - c < Modulus
    BY <1>1, Widths DEF Below
<1>6. (a.hi - b.hi - c) % Modulus = a.hi - b.hi - c
    <2>1. a.hi - b.hi - c \in Int
        BY <1>1
    <2> QED
        BY <1>5, <2>1, Widths, OneDigit
<1>7. c \in {0, 1}
    OBVIOUS
<1> HIDE DEF c
<1> DEFINE h == a.hi - b.hi - c
           l == a.lo - b.lo + c * Modulus
<1>8. h \in Nat /\ l \in Nat /\ h < Modulus /\ l < Modulus
    BY <1>1, <1>4, <1>5, <1>7, Widths
<1>9. Minus(a, b) = U(h, l)
    BY <1>2, <1>3, <1>6
<1>10. h * Modulus + l
         = (a.hi * Modulus + a.lo) - (b.hi * Modulus + b.lo)
    <2>1. /\ h * Modulus = (a.hi - b.hi) * Modulus - c * Modulus
          /\ (a.hi - b.hi) * Modulus = a.hi * Modulus - b.hi * Modulus
          /\ a.hi * Modulus \in Int /\ b.hi * Modulus \in Int
          /\ c * Modulus \in Int
        BY <1>1, <1>7, Widths, Distribute
    <2> QED
        BY <1>1, <2>1
<1> HIDE DEF h, l
<1>11. /\ Minus(a, b) \in Uint
       /\ Num(Minus(a, b)) = h * Modulus + l
    BY <1>8, <1>9, MakeUint
<1> QED
    BY <1>10, <1>11 DEF Num

(* Adding 1 gives the next number, or 0 and a carry after the last one. *)
LEMMA PlusOneIsNext ==
    ASSUME NEW a \in Uint
    PROVE  /\ PlusOne(a).sum \in Uint
           /\ PlusOne(a).carry <=> Num(a) + 1 = Modulus * Modulus
           /\ ~PlusOne(a).carry => Num(PlusOne(a).sum) = Num(a) + 1
           /\ PlusOne(a).carry => Num(PlusOne(a).sum) = 0
<1>1. U(0, 1) \in Uint /\ Num(U(0, 1)) = 1
    BY Widths, MakeUint
<1>2. Num(a) \in Nat /\ Num(a) < Modulus * Modulus
    BY NumType
<1> QED
    BY <1>1, <1>2, PlusIsSum, Widths DEF PlusOne

-----------------------------------------------------------------------------
(* Multiples of powers of two. *)

(* There is one way to write x as a multiple of m and a rest below m. *)
LEMMA Division ==
    ASSUME NEW m \in Nat, m > 0, NEW q \in Int, NEW r \in Int,
           0 <= r, r < m, NEW x \in Int, x = q * m + r
    PROVE  x % m = r /\ x \div m = q
<1> DEFINE p == x \div m
           t == x % m
<1>1. x = p * m + t /\ p \in Int /\ t \in Int /\ 0 <= t /\ t < m
    OBVIOUS
<1> HIDE DEF p, t
<1>2. (q - p) * m = t - r
    BY <1>1, Distribute
<1>3. q - p >= 1 => (q - p) * m >= m
    BY <1>1
<1>4. q - p <= -1 => (q - p) * m <= -m
    BY <1>1
<1>5. q = p
    BY <1>1, <1>2, <1>3, <1>4
<1>6. t = r
    BY <1>1, <1>5
<1> QED
    BY <1>5, <1>6 DEF p, t

(* What leaves no remainder is a multiple. *)
LEMMA Multiple ==
    ASSUME NEW m \in Nat, m > 0, NEW x \in Int
    PROVE  x % m = 0 <=> \E q \in Int : x = q * m
<1>1. x % m = 0 => x = (x \div m) * m /\ x \div m \in Int
    OBVIOUS
<1>2. ASSUME NEW q \in Int, x = q * m
      PROVE  x % m = 0
    <2>1. x = q * m + 0
        BY <1>2
    <2> QED
        BY <2>1, Division
<1> QED
    BY <1>1, <1>2

(* A multiple of a power is one of every smaller power. *)
LEMMA Coarser ==
    ASSUME NEW x \in Int, NEW j \in Nat, NEW k \in Nat, j <= k,
           x % Pow2[k] = 0
    PROVE  x % Pow2[j] = 0
<1>1. PICK q \in Int : x = q * Pow2[k]
    BY PowerType, Multiple
<1>2. Pow2[k] = Pow2[k - j] * Pow2[j] /\ Pow2[k - j] \in Nat /\ Pow2[j] \in Nat
    <2> k - j \in Nat /\ (k - j) + j = k
        OBVIOUS
    <2> QED
        BY PowerSum, PowerType
<1>3. x = (q * Pow2[k - j]) * Pow2[j] /\ q * Pow2[k - j] \in Int
    BY <1>1, <1>2, Distribute
<1> QED
    BY <1>3, PowerType, Multiple

(* Sums and differences of multiples are multiples. *)
LEMMA MultipleSum ==
    ASSUME NEW m \in Nat, m > 0, NEW x \in Int, NEW y \in Int, y % m = 0
    PROVE  /\ (x + y) % m = 0 <=> x % m = 0
           /\ (x - y) % m = 0 <=> x % m = 0
<1>1. PICK q \in Int : y = q * m
    BY Multiple
<1>2. ASSUME NEW z \in Int, NEW p \in Int, z % m = 0
      PROVE  (z + p * m) % m = 0
    <2>1. PICK t \in Int : z = t * m
        BY <1>2, Multiple
    <2>2. z + p * m = (t + p) * m /\ t + p \in Int /\ z + p * m \in Int
        BY <2>1, Distribute
    <2> QED
        BY <2>2, Multiple
<1>3. (-q) * m = -y
    BY <1>1
<1>4. \A z \in Int : z % m = 0 => (z + y) % m = 0 /\ (z + (-y)) % m = 0
    <2> TAKE z \in Int
    <2> HAVE z % m = 0
    <2>1. (z + q * m) % m = 0 /\ (z + (-q) * m) % m = 0
        BY <1>2
    <2> QED
        BY <1>1, <1>3, <2>1
<1>5. /\ (x + y) + (-y) = x /\ (x - y) + y = x
      /\ x + (-y) = x - y
      /\ x + y \in Int /\ x - y \in Int
    OBVIOUS
<1> QED
    BY <1>4, <1>5

(* The powers whose bit lies in the high word. *)
LEMMA HighPower ==
    \A k \in Nat : /\ Pow2[WordBits + k] = Modulus * Pow2[k]
                   /\ WordBits + k \in Nat
                   /\ Pow2[k] \in Nat /\ Pow2[k] > 0
                   /\ Pow2[WordBits + k] \in Nat /\ Pow2[WordBits + k] > 0
<1> SUFFICES ASSUME NEW k \in Nat
             PROVE  /\ Pow2[WordBits + k] = Pow2[WordBits] * Pow2[k]
                    /\ WordBits + k \in Nat
    BY PowerType DEF Modulus
<1> WordBits \in Nat
    BY Widths
<1> QED
    BY PowerSum

(* The number of zeros at the end of a word. *)
LEMMA TwosIs ==
    ASSUME NEW w \in Nat, w < Modulus, w > 0
    PROVE  /\ Twos(w) \in 0 .. (WordBits - 1)
           /\ w % Pow2[Twos(w)] = 0 /\ w % Pow2[Twos(w) + 1] # 0
<1> DEFINE S == {k \in Nat : w % Pow2[k + 1] # 0}
<1>1. WordBits \in S
    <2>1. Pow2[WordBits + 1] \in Nat /\ w < Pow2[WordBits + 1]
        BY Widths, PowerType, PowerNext DEF Modulus
    <2>2. w % Pow2[WordBits + 1] = w
        BY <2>1, OneDigit
    <2> QED
        BY <2>2, Widths
<1>2. PICK k \in S : \A j \in S : k <= j
    <2> S \in SUBSET Nat /\ S # {}
        BY <1>1
    <2> QED
        BY LeastMember
<1>3. k \in 0 .. WordBits /\ w % Pow2[k + 1] # 0
    BY <1>1, <1>2, Widths
<1>4. w % Pow2[k] = 0
    <2>1. CASE k = 0
        BY <2>1, PowerZero
    <2>2. CASE k # 0
        <3>1. k - 1 \in Nat /\ k - 1 \notin S /\ (k - 1) + 1 = k
            BY <1>2, <1>3, <2>2, Widths
        <3> QED
            BY <3>1
    <2> QED
        BY <2>1, <2>2
<1> HIDE DEF S
<1>5. /\ Twos(w) \in 0 .. WordBits
      /\ w % Pow2[Twos(w)] = 0 /\ w % Pow2[Twos(w) + 1] # 0
    BY <1>3, <1>4 DEF Twos
<1>6. Twos(w) # WordBits
    <2>1. w % Modulus = w
        BY Widths, OneDigit
    <2> QED
        BY <1>5, <2>1 DEF Modulus
<1> QED
    BY <1>5, <1>6, Widths

(* The number of bits of a word. *)
LEMMA WordLenIs ==
    ASSUME NEW w \in Nat, w < Modulus
    PROVE  /\ WordLen(w) \in 0 .. WordBits
           /\ w < Pow2[WordLen(w)]
           /\ WordLen(w) = 0 \/ w >= Pow2[WordLen(w) - 1]
<1> DEFINE S == {k \in Nat : w < Pow2[k]}
<1>1. WordBits \in S
    BY Widths DEF Modulus
<1>2. PICK k \in S : \A j \in S : k <= j
    <2> S \in SUBSET Nat /\ S # {}
        BY <1>1
    <2> QED
        BY LeastMember
<1>3. k \in 0 .. WordBits /\ w < Pow2[k]
    BY <1>1, <1>2, Widths
<1>4. k = 0 \/ w >= Pow2[k - 1]
    <2> SUFFICES ASSUME k # 0 PROVE w >= Pow2[k - 1]
        OBVIOUS
    <2>1. k - 1 \in Nat /\ k - 1 \notin S
        BY <1>2, <1>3, Widths
    <2> QED
        BY <2>1, PowerType
<1> HIDE DEF S
<1> QED
    BY <1>3, <1>4 DEF WordLen

(* An address is aligned for its trailing zeros and for nothing more. *)
LEMMA TrailingZerosIs ==
    ASSUME NEW u \in Uint
    PROVE  /\ TrailingZeros(u) \in Nat /\ TrailingZeros(u) <= LongBits
           /\ Num(u) % Pow2[TrailingZeros(u)] = 0
           /\ Num(u) # 0 => Num(u) % Pow2[TrailingZeros(u) + 1] # 0
<1>1. /\ u.hi \in Nat /\ u.hi < Modulus /\ u.lo \in Nat /\ u.lo < Modulus
    BY UintFields
<1>2. CASE u.lo # 0
    <2> DEFINE t == Twos(u.lo)
    <2>1. /\ t \in Nat /\ t + 1 <= WordBits
          /\ u.lo % Pow2[t] = 0 /\ u.lo % Pow2[t + 1] # 0
        BY <1>1, <1>2, TwosIs, Widths
    <2>2. TrailingZeros(u) = t
        BY <1>2 DEF TrailingZeros
    <2> HIDE DEF t
    <2>3. ASSUME NEW k \in Nat, k <= WordBits
          PROVE  Num(u) % Pow2[k] = 0 <=> u.lo % Pow2[k] = 0
        <3>1. Modulus % Pow2[k] = 0
            <4>1. Modulus = 1 * Pow2[WordBits]
                BY Widths DEF Modulus
            <4>2. Modulus % Pow2[WordBits] = 0
                BY <4>1, Widths, PowerType, Multiple
            <4> QED
                BY <2>3, <4>2, Widths, Coarser
        <3> Pow2[k] \in Nat /\ Pow2[k] > 0 /\ Modulus \in Int
            BY <2>3, PowerType, Widths
        <3>2. PICK q \in Int : Modulus = q * Pow2[k]
            BY <3>1, Multiple
        <3>3. u.hi * Modulus = (u.hi * q) * Pow2[k] /\ u.hi * q \in Int
              /\ u.hi * Modulus \in Int
            BY <1>1, <2>3, <3>2, PowerType, Distribute, Widths
        <3>4. (u.hi * Modulus) % Pow2[k] = 0
            BY <3>3, Multiple
        <3> DEFINE h == u.hi * Modulus
        <3>5. Num(u) = u.lo + h /\ h \in Int /\ u.lo \in Int
            BY <1>1, <3>3 DEF Num
        <3>6. h % Pow2[k] = 0
            BY <3>4
        <3> HIDE DEF h
        <3>7. (u.lo + h) % Pow2[k] = 0 <=> u.lo % Pow2[k] = 0
            BY <3>5, <3>6, MultipleSum
        <3> QED
            BY <3>5, <3>7
    <2> QED
        BY <2>1, <2>2, <2>3, Widths
<1>3. CASE u.lo = 0 /\ u.hi # 0
    <2> DEFINE t == Twos(u.hi)
    <2>1. /\ t \in Nat /\ t + 1 <= WordBits
          /\ u.hi % Pow2[t] = 0 /\ u.hi % Pow2[t + 1] # 0
        BY <1>1, <1>3, TwosIs, Widths
    <2>2. TrailingZeros(u) = WordBits + t
        BY <1>3 DEF TrailingZeros
    <2> HIDE DEF t
    <2>3. ASSUME NEW k \in Nat
          PROVE  Num(u) % Pow2[WordBits + k] = 0 <=> u.hi % Pow2[k] = 0
        <3>1. /\ Pow2[WordBits + k] = Modulus * Pow2[k]
              /\ Pow2[k] \in Nat /\ Pow2[k] > 0
              /\ Pow2[WordBits + k] \in Nat /\ Pow2[WordBits + k] > 0
            BY <2>3, HighPower
        <3>2. Num(u) = u.hi * Modulus /\ Num(u) \in Int
            BY <1>1, <1>3, NumType, Widths DEF Num
        <3>3. ASSUME NEW q \in Int
              PROVE  u.hi * Modulus = q * (Modulus * Pow2[k])
                       <=> u.hi = q * Pow2[k]
            <4> DEFINE p == q * Pow2[k]
            <4>1. p \in Int /\ q * (Modulus * Pow2[k]) = p * Modulus
                BY <3>1, <3>3, Widths
            <4> HIDE DEF p
            <4>2. u.hi * Modulus = p * Modulus <=> u.hi = p
                BY <1>1, <4>1, Widths
            <4> QED
                BY <4>1, <4>2 DEF p
        <3>4. Num(u) % Pow2[WordBits + k] = 0
                <=> \E q \in Int : Num(u) = q * Pow2[WordBits + k]
            BY <3>1, <3>2, Multiple
        <3>5. u.hi % Pow2[k] = 0 <=> \E q \in Int : u.hi = q * Pow2[k]
            <4> DEFINE m == Pow2[k]
            <4>1. m \in Nat /\ m > 0 /\ u.hi \in Int
                BY <1>1, <3>1
            <4> HIDE DEF m
            <4>2. u.hi % m = 0 <=> \E q \in Int : u.hi = q * m
                BY <4>1, Multiple
            <4> QED
                BY <4>2 DEF m
        <3> QED
            BY <3>1, <3>2, <3>3, <3>4, <3>5
    <2>4. /\ TrailingZeros(u) \in Nat /\ TrailingZeros(u) <= LongBits
          /\ TrailingZeros(u) + 1 = WordBits + (t + 1)
        BY <2>1, <2>2, Widths
    <2> QED
        BY <2>1, <2>2, <2>3, <2>4
<1>4. CASE u.lo = 0 /\ u.hi = 0
    <2>1. TrailingZeros(u) = LongBits /\ Num(u) = 0
        BY <1>4, Widths DEF TrailingZeros, Num
    <2>2. 0 = 0 * Pow2[LongBits]
        BY Widths, PowerType
    <2> QED
        BY <2>1, <2>2, Widths, PowerType, Multiple
<1> QED
    BY <1>1, <1>2, <1>3, <1>4

(* The number of bits of a number. *)
LEMMA BitLenIs ==
    ASSUME NEW u \in Uint
    PROVE  /\ BitLen(u) \in Nat /\ BitLen(u) <= LongBits
           /\ Num(u) < Pow2[BitLen(u)]
           /\ BitLen(u) = 0 \/ Num(u) >= Pow2[BitLen(u) - 1]
<1>1. /\ u.hi \in Nat /\ u.hi < Modulus /\ u.lo \in Nat /\ u.lo < Modulus
    BY UintFields
<1>2. CASE u.hi # 0
    <2> DEFINE t == WordLen(u.hi)
    <2>1. /\ t \in 0 .. WordBits
          /\ u.hi < Pow2[t] /\ (t = 0 \/ u.hi >= Pow2[t - 1])
        BY <1>1, WordLenIs
    <2>2. BitLen(u) = WordBits + t
        BY <1>2 DEF BitLen
    <2> HIDE DEF t
    <2>3. t # 0
        BY <1>1, <1>2, <2>1, PowerZero
    <2>4. /\ t \in Nat /\ t - 1 \in Nat
          /\ Pow2[WordBits + t] = Modulus * Pow2[t]
          /\ Pow2[WordBits + (t - 1)] = Modulus * Pow2[t - 1]
          /\ Pow2[t] \in Nat /\ Pow2[t - 1] \in Nat
        <3> t \in Nat /\ t - 1 \in Nat
            BY <2>1, <2>3, Widths
        <3> QED
            BY HighPower
    <2>5. Num(u) < Modulus * Pow2[t]
        <3>1. (u.hi + 1) * Modulus <= Pow2[t] * Modulus
            BY <1>1, <2>1, <2>4, Widths
        <3>2. (u.hi + 1) * Modulus = u.hi * Modulus + Modulus
              /\ Pow2[t] * Modulus = Modulus * Pow2[t]
              /\ u.hi * Modulus \in Int /\ Pow2[t] * Modulus \in Int
            BY <1>1, <2>4, Widths
        <3> QED
            BY <1>1, <3>1, <3>2, Widths DEF Num
    <2>6. Num(u) >= Modulus * Pow2[t - 1]
        <3>1. u.hi * Modulus >= Pow2[t - 1] * Modulus
            BY <1>1, <2>1, <2>3, <2>4, Widths
        <3>2. Pow2[t - 1] * Modulus = Modulus * Pow2[t - 1]
              /\ u.hi * Modulus \in Int /\ Pow2[t - 1] * Modulus \in Int
            BY <1>1, <2>4, Widths
        <3> QED
            BY <1>1, <3>1, <3>2, Widths DEF Num
    <2>7. (WordBits + t) - 1 = WordBits + (t - 1)
        BY <2>4, Widths
    <2> QED
        BY <2>1, <2>2, <2>4, <2>5, <2>6, <2>7, Widths
<1>3. CASE u.hi = 0
    <2>1. BitLen(u) = WordLen(u.lo) /\ Num(u) = u.lo
        BY <1>1, <1>3, Widths DEF BitLen, Num
    <2> QED
        BY <1>1, <2>1, WordLenIs, Widths
<1> QED
    BY <1>2, <1>3

-----------------------------------------------------------------------------
(* Blocks. *)

(* An aligned block that begins in a space of 2^n numbers lies in it. *)
LEMMA BlockFits ==
    ASSUME NEW x \in Nat, NEW n \in Nat, NEW k \in Nat, k <= n,
           x % Pow2[k] = 0, x < Pow2[n]
    PROVE  x + Pow2[k] <= Pow2[n]
<1>1. /\ Pow2[k] \in Nat /\ Pow2[k] > 0 /\ Pow2[n - k] \in Nat
      /\ Pow2[n] = Pow2[n - k] * Pow2[k]
    <2> n - k \in Nat /\ (n - k) + k = n
        OBVIOUS
    <2> QED
        BY PowerType, PowerSum
<1>2. PICK q \in Int : x = q * Pow2[k]
    <2>1. x \in Int
        OBVIOUS
    <2>2. x % Pow2[k] = 0 <=> \E q \in Int : x = q * Pow2[k]
        BY <1>1, <2>1, Multiple
    <2> QED
        BY <2>2
<1>3. ~(q >= Pow2[n - k])
    <2> SUFFICES ASSUME q >= Pow2[n - k] PROVE FALSE
        OBVIOUS
    <2> q * Pow2[k] >= Pow2[n - k] * Pow2[k]
        BY <1>1
    <2> QED
        BY <1>1, <1>2
<1>4. (q + 1) * Pow2[k] <= Pow2[n - k] * Pow2[k]
    BY <1>1, <1>3
<1>5. (q + 1) * Pow2[k] = q * Pow2[k] + Pow2[k]
    BY <1>1
<1> QED
    BY <1>1, <1>2, <1>4, <1>5

(* The addresses of a family are the numbers of its width. *)
LEMMA FamilyIs ==
    ASSUME NEW u \in Uint, NEW long \in BOOLEAN
    PROVE  u \in Family(long) <=> Num(u) < Pow2[Bits(long)]
<1>1. CASE long
    BY <1>1, NumType, Widths DEF Family, Bits
<1>2. CASE ~long
    <2>1. u.hi \in Nat /\ u.lo \in Nat /\ u.lo < Modulus
        BY UintFields
    <2>2. Pow2[ShortBits] \in Nat /\ Pow2[ShortBits] <= Modulus
        BY Widths
    <2>3. u.hi = 0 => Num(u) = u.lo
        BY <2>1, Widths DEF Num
    <2>4. u.hi # 0 => Num(u) >= Modulus
        <3> SUFFICES ASSUME u.hi >= 1 PROVE Num(u) >= Modulus
            BY <2>1
        <3> u.hi * Modulus >= Modulus
            BY <2>1, Widths
        <3> QED
            BY <2>1, Widths DEF Num
    <2>5. u \in Family(long) <=> u.hi = 0 /\ u.lo < Pow2[ShortBits]
        BY <1>2 DEF Family
    <2>6. Pow2[Bits(long)] = Pow2[ShortBits]
        BY <1>2 DEF Bits
    <2> QED
        BY <2>1, <2>2, <2>3, <2>4, <2>5, <2>6, NumType, Widths
<1> QED
    BY <1>1, <1>2

(* The mask of the host bits, on either side of the word boundary, is one  *)
(* less than the size of the block.                                        *)
LEMMA HostMaskIs ==
    ASSUME NEW host \in Nat, host <= LongBits
    PROVE  HostMask(host) \in Uint /\ Num(HostMask(host)) = Pow2[host] - 1
<1>1. CASE host > WordBits
    <2> DEFINE k == host - WordBits
               p == Pow2[k]
    <2>1. k \in Nat /\ k <= WordBits /\ host = WordBits + k
        BY <1>1, Widths
    <2>2. p \in Nat /\ p > 0 /\ p <= Modulus /\ Pow2[host] = Modulus * p
        <3> HIDE DEF k
        <3> QED
            BY <2>1, HighPower, PowerGrows, Widths DEF Modulus
    <2>3. HostMask(host) = U(p - 1, Modulus - 1)
        BY <1>1 DEF HostMask
    <2> HIDE DEF p
    <2>4. /\ p - 1 \in Nat /\ p - 1 < Modulus
          /\ Modulus - 1 \in Nat /\ Modulus - 1 < Modulus
        BY <2>2, Widths
    <2>5. /\ HostMask(host) \in Uint
          /\ Num(HostMask(host)) = (p - 1) * Modulus + (Modulus - 1)
        <3> DEFINE h == p - 1
                   l == Modulus - 1
        <3>1. /\ h \in Nat /\ l \in Nat /\ h < Modulus /\ l < Modulus
              /\ HostMask(host) = U(h, l)
            BY <2>3, <2>4
        <3> HIDE DEF h, l
        <3>2. /\ HostMask(host) \in Uint
              /\ Num(HostMask(host)) = h * Modulus + l
            BY <3>1, MakeUint
        <3> QED
            BY <3>2 DEF h, l
    <2>6. (p - 1) * Modulus = Modulus * p - Modulus /\ Modulus * p \in Int
        BY <2>2, Widths
    <2> QED
        BY <2>2, <2>5, <2>6, Widths
<1>2. CASE host <= WordBits
    <2>1. Pow2[host] \in Nat /\ Pow2[host] > 0 /\ Pow2[host] <= Modulus
        BY <1>2, PowerType, PowerGrows, Widths DEF Modulus
    <2>2. HostMask(host) = U(0, Pow2[host] - 1)
        BY <1>2, Widths DEF HostMask
    <2>3. /\ HostMask(host) \in Uint
          /\ Num(HostMask(host)) = 0 * Modulus + (Pow2[host] - 1)
        BY <2>1, <2>2, MakeUint, Widths
    <2> QED
        BY <2>1, <2>3, Widths
<1> QED
    BY <1>1, <1>2, Widths

(* What the definition of a prefix says of its parts: it is aligned, and   *)
(* lies inside the address space of its family.                            *)
LEMMA PrefixFields ==
    ASSUME NEW p \in Prefix
    PROVE  /\ p.long \in BOOLEAN /\ p.start \in Uint
           /\ p.host \in Nat /\ p.host <= Bits(p.long) /\ p.host <= LongBits
           /\ Num(p.start) \in Nat /\ Pow2[p.host] \in Nat
           /\ Pow2[p.host] > 0
           /\ Num(p.start) % Pow2[p.host] = 0
           /\ Num(p.start) + Pow2[p.host] <= Pow2[Bits(p.long)]
<1>1. /\ p.long \in BOOLEAN /\ p.start \in Uint
      /\ p.host \in 0 .. LongBits /\ p.host <= Bits(p.long)
      /\ p.start \in Family(p.long)
      /\ Num(p.start) % Pow2[p.host] = 0
    BY DEF Prefix
<1>2. p.host \in Nat /\ p.host <= LongBits
    BY <1>1, Widths
<1>3. Num(p.start) \in Nat /\ Num(p.start) < Pow2[Bits(p.long)]
    BY <1>1, FamilyIs, NumType
<1>4. Pow2[p.host] \in Nat /\ Pow2[p.host] > 0 /\ Bits(p.long) \in Nat
    BY <1>1, <1>2, PowerType, BitsType
<1> QED
    BY <1>1, <1>2, <1>3, <1>4, BlockFits

(* What the definition of a range says of its parts. *)
LEMMA RangeFields ==
    ASSUME NEW r \in IpRange
    PROVE  /\ r.long \in BOOLEAN /\ r.start \in Uint /\ r.end \in Uint
           /\ Num(r.start) \in Nat /\ Num(r.end) \in Nat
           /\ Num(r.start) <= Num(r.end)
           /\ Num(r.end) < Pow2[Bits(r.long)]
           /\ Pow2[Bits(r.long)] \in Nat
           /\ r = [long |-> r.long, start |-> r.start, end |-> r.end]
<1>1. /\ r.long \in BOOLEAN /\ r.start \in Uint /\ r.end \in Uint
      /\ r.end \in Family(r.long) /\ ~Below(r.end, r.start)
      /\ r = [long |-> r.long, start |-> r.start, end |-> r.end]
    BY DEF IpRange
<1> QED
    BY <1>1, NumType, BelowIsLess, FamilyIs, BitsType

(* Parts that make a range. *)
LEMMA MakeRange ==
    ASSUME NEW long \in BOOLEAN, NEW a \in Uint, NEW b \in Uint,
           Num(a) <= Num(b), Num(b) < Pow2[Bits(long)]
    PROVE  [long |-> long, start |-> a, end |-> b] \in IpRange
<1>1. Num(a) \in Nat /\ Num(b) \in Nat /\ Pow2[Bits(long)] \in Nat
    BY NumType, BitsType
<1>2. a \in Family(long) /\ b \in Family(long) /\ ~Below(b, a)
    BY <1>1, FamilyIs, BelowIsLess
<1> QED
    BY <1>2 DEF IpRange

(* Parts that make a prefix. *)
LEMMA MakePrefix ==
    ASSUME NEW long \in BOOLEAN, NEW a \in Uint, NEW k \in Nat,
           k <= Bits(long), Num(a) < Pow2[Bits(long)], Num(a) % Pow2[k] = 0
    PROVE  [long |-> long, start |-> a, host |-> k] \in Prefix
<1>1. a \in Family(long) /\ k \in 0 .. LongBits
    BY FamilyIs, BitsType, Widths
<1> QED
    BY <1>1 DEF Prefix

(* The range of a prefix is its block. *)
LEMMA RangeOfIs ==
    ASSUME NEW p \in Prefix
    PROVE  /\ RangeOf(p) \in IpRange
           /\ RangeOf(p).long = p.long /\ RangeOf(p).start = p.start
           /\ Num(RangeOf(p).end) = Num(p.start) + Pow2[p.host] - 1
           /\ Span(RangeOf(p)) = Block(p)
<1> DEFINE end == Plus(p.start, HostMask(p.host)).sum
<1>1. /\ p.long \in BOOLEAN /\ p.start \in Uint
      /\ p.host \in Nat /\ p.host <= LongBits
      /\ Num(p.start) \in Nat /\ Pow2[p.host] \in Nat /\ Pow2[p.host] > 0
      /\ Num(p.start) + Pow2[p.host] <= Pow2[Bits(p.long)]
      /\ Pow2[Bits(p.long)] \in Nat
      /\ Pow2[Bits(p.long)] <= Modulus * Modulus
    BY PrefixFields, BitsType
<1>2. HostMask(p.host) \in Uint /\ Num(HostMask(p.host)) = Pow2[p.host] - 1
    BY <1>1, HostMaskIs
<1>3. end \in Uint /\ Num(end) = Num(p.start) + Pow2[p.host] - 1
    BY <1>1, <1>2, PlusIsSum, Widths
<1>4. RangeOf(p) = [long |-> p.long, start |-> p.start, end |-> end]
    BY DEF RangeOf
<1> HIDE DEF end
<1>5. RangeOf(p) \in IpRange
    BY <1>1, <1>3, <1>4, MakeRange
<1> QED
    BY <1>3, <1>4, <1>5 DEF Span, Block

(* Two prefixes overlap when they share an address. *)
LEMMA OverlapIs ==
    ASSUME NEW p \in Prefix, NEW q \in Prefix
    PROVE  Overlaps(p, q) <=>
               p.long = q.long /\ Block(p) \intersect Block(q) # {}
<1>1. /\ RangeOf(p).end \in Uint /\ RangeOf(q).end \in Uint
      /\ Num(RangeOf(p).end) = Num(p.start) + Pow2[p.host] - 1
      /\ Num(RangeOf(q).end) = Num(q.start) + Pow2[q.host] - 1
    BY RangeOfIs, RangeFields
<1>2. /\ p.start \in Uint /\ Num(p.start) \in Nat
      /\ Pow2[p.host] \in Nat /\ Pow2[p.host] > 0
      /\ q.start \in Uint /\ Num(q.start) \in Nat
      /\ Pow2[q.host] \in Nat /\ Pow2[q.host] > 0
    BY PrefixFields
<1>3. Overlaps(p, q) <=>
        /\ p.long = q.long
        /\ Num(p.start) + Pow2[p.host] - 1 >= Num(q.start)
        /\ Num(q.start) + Pow2[q.host] - 1 >= Num(p.start)
    BY <1>1, <1>2, BelowIsLess DEF Overlaps
<1>4. Block(p) \intersect Block(q) # {} <=>
        /\ Num(p.start) + Pow2[p.host] - 1 >= Num(q.start)
        /\ Num(q.start) + Pow2[q.host] - 1 >= Num(p.start)
    <2>1. ASSUME Num(p.start) + Pow2[p.host] - 1 >= Num(q.start),
                 Num(q.start) + Pow2[q.host] - 1 >= Num(p.start)
          PROVE  Block(p) \intersect Block(q) # {}
        <3>1. CASE Num(p.start) >= Num(q.start)
            <4> Num(p.start) \in Block(p) \intersect Block(q)
                BY <1>2, <2>1, <3>1 DEF Block
            <4> QED
                OBVIOUS
        <3>2. CASE Num(q.start) >= Num(p.start)
            <4> Num(q.start) \in Block(p) \intersect Block(q)
                BY <1>2, <2>1, <3>2 DEF Block
            <4> QED
                OBVIOUS
        <3> QED
            BY <1>2, <3>1, <3>2
    <2>2. ASSUME NEW n \in Block(p), n \in Block(q)
          PROVE  /\ Num(p.start) + Pow2[p.host] - 1 >= Num(q.start)
                 /\ Num(q.start) + Pow2[q.host] - 1 >= Num(p.start)
        BY <1>2, <2>2 DEF Block
    <2> QED
        BY <2>1, <2>2
<1> QED
    BY <1>3, <1>4

-----------------------------------------------------------------------------
(* The block at a cursor, and the step behind it. *)

(* The greatest power that is no more than a span of addresses, also when  *)
(* the span is the whole space and its size is not a number of two words.  *)
LEMMA FloorLog2Is ==
    ASSUME NEW u \in Uint
    PROVE  /\ FloorLog2(u) \in Nat /\ FloorLog2(u) <= LongBits
           /\ Pow2[FloorLog2(u)] <= Num(u) + 1
           /\ Num(u) + 1 < Pow2[FloorLog2(u) + 1]
<1> DEFINE n == PlusOne(u)
           b == BitLen(n.sum)
<1>1. /\ n.sum \in Uint
      /\ n.carry <=> Num(u) + 1 = Modulus * Modulus
      /\ ~n.carry => Num(n.sum) = Num(u) + 1
    BY PlusOneIsNext
<1>2. Num(u) \in Nat
    BY NumType
<1>3. CASE n.carry
    <2>1. FloorLog2(u) = LongBits
        BY <1>3 DEF FloorLog2
    <2>2. Pow2[LongBits] = Num(u) + 1
        BY <1>1, <1>3, Widths
    <2>3. Pow2[LongBits + 1] = 2 * Pow2[LongBits]
        BY Widths, PowerNext
    <2> QED
        BY <1>2, <2>1, <2>2, <2>3, Widths
<1>4. CASE ~n.carry
    <2>1. FloorLog2(u) = b - 1
        BY <1>4 DEF FloorLog2
    <2>2. /\ b \in Nat /\ b <= LongBits
          /\ Num(u) + 1 < Pow2[b] /\ (b = 0 \/ Num(u) + 1 >= Pow2[b - 1])
        <3> HIDE DEF n
        <3> QED
            BY <1>1, <1>4, BitLenIs
    <2> HIDE DEF b
    <2>3. b # 0
        BY <1>2, <2>2, PowerZero
    <2>4. b - 1 \in Nat /\ (b - 1) + 1 = b /\ Pow2[b - 1] \in Nat
        BY <2>2, <2>3, PowerType
    <2> QED
        BY <1>2, <2>1, <2>2, <2>3, <2>4, Widths
<1> QED
    BY <1>3, <1>4

(* MaxBlock is FloorLog2 where it is used. *)
LEMMA MaxBlockIs ==
    ASSUME NEW u \in Uint, NEW long \in BOOLEAN, Num(u) < Pow2[Bits(long)]
    PROVE  MaxBlock(u, Bits(long)) = FloorLog2(u)
<1> DEFINE n == Bits(long)
           k == FloorLog2(u)
<1>1. /\ n \in Nat /\ n <= LongBits /\ Pow2[n] \in Nat
      /\ Pow2[n] <= Modulus * Modulus
    BY BitsType
<1>2. /\ k \in Nat /\ k <= LongBits /\ Pow2[k] <= Num(u) + 1
    BY FloorLog2Is
<1>3. Num(u) \in Nat
    BY NumType
<1>4. k <= n
    <2> SUFFICES ASSUME n < k PROVE FALSE
        BY <1>1, <1>2
    <2>1. 2 * Pow2[n] <= Pow2[k] /\ Pow2[n] > 0
        <3> HIDE DEF n, k
        <3> QED
            BY <1>1, <1>2, PowerGrows, PowerType
    <2> HIDE DEF n, k
    <2>2. Num(u) < Pow2[n]
        BY DEF n
    <2> QED
        BY <1>1, <1>2, <1>3, <2>1, <2>2, PowerType
<1>5. /\ Ones \in Uint /\ Num(Ones) + 1 = Modulus * Modulus
    <2> DEFINE m == Modulus - 1
    <2>1. m \in Nat /\ m < Modulus /\ Ones = U(m, m)
        BY Widths DEF Ones
    <2>2. m * Modulus + m + 1 = Modulus * Modulus
        BY Widths, Distribute
    <2> HIDE DEF m
    <2> QED
        BY <2>1, <2>2, MakeUint, Widths
<1>6. u = Ones <=> Num(u) + 1 = Modulus * Modulus
    BY <1>3, <1>5, NumDecides, NumType
<1>7. PlusOne(u).carry <=> u = Ones
    BY <1>6, PlusOneIsNext
<1>8. CASE u = Ones
    <2>1. MaxBlock(u, Bits(long)) = n
        BY <1>8 DEF MaxBlock
    <2>2. k = LongBits
        BY <1>7, <1>8 DEF FloorLog2
    <2> QED
        BY <1>1, <1>4, <2>1, <2>2, Widths
<1>9. CASE u # Ones
    <2>1. k = BitLen(PlusOne(u).sum) - 1
        BY <1>7, <1>9 DEF FloorLog2
    <2>2. MaxBlock(u, Bits(long)) = Lesser(k, n)
        BY <1>9, <2>1 DEF MaxBlock
    <2> HIDE DEF k, n
    <2>3. Lesser(k, n) = k
        BY <1>1, <1>2, <1>4 DEF Lesser
    <2> QED
        BY <2>2, <2>3 DEF k
<1> QED
    BY <1>8, <1>9

(* The largest block that is aligned at the start of a range and fits. *)
Fits(r, k) ==
    /\ k \in Nat /\ k <= Bits(r.long)
    /\ Num(r.start) % Pow2[k] = 0
    /\ Num(r.start) + Pow2[k] <= Num(r.end) + 1
    /\ \/ k = Bits(r.long)
       \/ Num(r.start) % Pow2[k + 1] # 0
       \/ Num(r.start) + Pow2[k + 1] > Num(r.end) + 1

(* The normalizer takes the largest block that is aligned at the start of  *)
(* a range and lies inside it.                                             *)
LEMMA BlockSizeFits ==
    ASSUME NEW r \in IpRange
    PROVE  Fits(r, BlockSize(r))
<1> DEFINE z == TrailingZeros(r.start)
           n == Bits(r.long)
           f == FloorLog2(Minus(r.end, r.start))
           k == BlockSize(r)
           x == Num(r.start)
           y == Num(r.end)
<1>1. /\ r.start \in Uint /\ r.end \in Uint /\ r.long \in BOOLEAN
      /\ x \in Nat /\ y \in Nat /\ x <= y
    BY RangeFields
<1>2. /\ z \in Nat /\ z <= LongBits /\ x % Pow2[z] = 0
      /\ x # 0 => x % Pow2[z + 1] # 0
      /\ x = 0 => z = LongBits
    <2>1. x = 0 => z = LongBits
        <3> SUFFICES ASSUME x = 0 PROVE z = LongBits
            OBVIOUS
        <3>1. /\ r.start.hi \in Nat /\ r.start.lo \in Nat
            BY <1>1, UintFields
        <3>2. r.start.hi = 0 /\ r.start.lo = 0
            <4>1. r.start.hi # 0 => r.start.hi * Modulus > 0
                BY <3>1, Widths
            <4>2. r.start.hi * Modulus \in Nat
                BY <3>1, Widths
            <4> QED
                BY <3>1, <4>1, <4>2 DEF Num
        <3> QED
            BY <3>2 DEF TrailingZeros
    <2> QED
        BY <1>1, <2>1, TrailingZerosIs
<1>3. n \in Nat /\ n <= LongBits
    BY <1>1, BitsType
<1>4. ~Below(r.end, r.start)
    BY <1>1, BelowIsLess
<1>5. /\ f \in Nat /\ Pow2[f] <= y - x + 1 /\ y - x + 1 < Pow2[f + 1]
    BY <1>1, <1>4, MinusIsDifference, FloorLog2Is
<1>6. k = Lesser(Lesser(z, n), f)
    BY DEF BlockSize
<1>7. Fits(r, k) <=>
        /\ k \in Nat /\ k <= n
        /\ x % Pow2[k] = 0
        /\ x + Pow2[k] <= y + 1
        /\ k = n \/ x % Pow2[k + 1] # 0 \/ x + Pow2[k + 1] > y + 1
    BY DEF Fits
<1> HIDE DEF z, n, f, k, x, y
<1>8. k \in Nat /\ k <= n /\ k <= z /\ k <= f /\ k \in {z, n, f}
    BY <1>2, <1>3, <1>5, <1>6 DEF Lesser
<1>9. x % Pow2[k] = 0
    BY <1>1, <1>2, <1>8, Coarser
<1>10. x + Pow2[k] <= y + 1
    <2> Pow2[k] <= Pow2[f] /\ Pow2[k] \in Nat /\ Pow2[f] \in Nat
        BY <1>5, <1>8, PowerGrows, PowerType
    <2> QED
        BY <1>1, <1>5
<1>11. k = n \/ x % Pow2[k + 1] # 0 \/ x + Pow2[k + 1] > y + 1
    <2>1. CASE k = n
        BY <2>1
    <2>2. CASE k = f
        <3> Pow2[f + 1] \in Nat
            BY <1>5, PowerType
        <3> QED
            BY <1>1, <1>5, <2>2
    <2>3. CASE k = z /\ x # 0
        BY <1>2, <2>3
    <2>4. CASE k = z /\ x = 0
        BY <1>2, <1>3, <1>8, <2>4, Widths
    <2> QED
        BY <1>8, <2>1, <2>2, <2>3, <2>4
<1> QED
    BY <1>7, <1>8, <1>9, <1>10, <1>11 DEF k

(* The parser's cursor finds the same block. *)
LEMMA SizeIsBlockSize ==
    ASSUME NEW r \in IpRange
    PROVE  Size(r) = BlockSize(r)
<1>1. /\ r.start \in Uint /\ r.end \in Uint /\ r.long \in BOOLEAN
      /\ Num(r.start) \in Nat /\ Num(r.end) \in Nat
      /\ Num(r.start) <= Num(r.end) /\ Num(r.end) < Pow2[Bits(r.long)]
      /\ Pow2[Bits(r.long)] \in Nat
    BY RangeFields
<1>2. ~Below(r.end, r.start)
    BY <1>1, BelowIsLess
<1>3. /\ Minus(r.end, r.start) \in Uint
      /\ Num(Minus(r.end, r.start)) < Pow2[Bits(r.long)]
    BY <1>1, <1>2, MinusIsDifference
<1> QED
    BY <1>1, <1>3, MaxBlockIs DEF Size, BlockSize

(* Shifting 1 into either word gives a power of two. *)
LEMMA PowerOf2Is ==
    ASSUME NEW k \in Nat, k < LongBits
    PROVE  PowerOf2(k) \in Uint /\ Num(PowerOf2(k)) = Pow2[k]
<1>1. CASE k < WordBits
    <2>1. Pow2[k] \in Nat /\ 2 * Pow2[k] <= Modulus
        BY <1>1, PowerType, PowerGrows, Widths DEF Modulus
    <2>2. PowerOf2(k) = U(0, Pow2[k])
        BY <1>1 DEF PowerOf2
    <2>3. /\ PowerOf2(k) \in Uint
          /\ Num(PowerOf2(k)) = 0 * Modulus + Pow2[k]
        BY <2>1, <2>2, MakeUint, Widths
    <2> QED
        BY <2>1, <2>3, Widths
<1>2. CASE k >= WordBits
    <2> DEFINE j == k - WordBits
               p == Pow2[j]
    <2>1. j \in Nat /\ j < WordBits /\ k = WordBits + j
        BY <1>2, Widths
    <2>2. p \in Nat /\ 2 * p <= Modulus /\ Pow2[k] = Modulus * p
        <3> HIDE DEF j
        <3> QED
            BY <2>1, HighPower, PowerGrows, Widths DEF Modulus
    <2>3. PowerOf2(k) = U(p, 0)
        BY <1>2, Widths DEF PowerOf2
    <2> HIDE DEF p
    <2>4. PowerOf2(k) \in Uint /\ Num(PowerOf2(k)) = p * Modulus + 0
        BY <2>2, <2>3, MakeUint, Widths
    <2> QED
        BY <2>2, <2>4, Widths
<1> QED
    BY <1>1, <1>2, Widths

(* Adding a block's size is exact unless the sum is beyond the space. *)
LEMMA AddPow2Is ==
    ASSUME NEW a \in Uint, NEW k \in Nat, k <= LongBits
    PROVE  /\ AddPow2(a, k).sum \in Uint
           /\ AddPow2(a, k).carry <=> Num(a) + Pow2[k] >= Modulus * Modulus
           /\ ~AddPow2(a, k).carry =>
                Num(AddPow2(a, k).sum) = Num(a) + Pow2[k]
<1>1. CASE k = LongBits
    <2>1. AddPow2(a, k) = [sum |-> Zero, carry |-> TRUE]
        BY <1>1 DEF AddPow2
    <2>2. Zero \in Uint
        BY MakeUint, Widths DEF Zero
    <2>3. Num(a) + Pow2[k] >= Modulus * Modulus
        BY <1>1, NumType, Widths
    <2> QED
        BY <2>1, <2>2, <2>3
<1>2. CASE k < LongBits
    <2>1. AddPow2(a, k) = Plus(a, PowerOf2(k))
        BY <1>2, Widths DEF AddPow2
    <2> QED
        BY <1>2, <2>1, PowerOf2Is, PlusIsSum
<1> QED
    BY <1>1, <1>2, Widths

(* normalize's addition without a carry flag agrees with it, as long as    *)
(* the block is not the whole space.                                       *)
LEMMA AdvanceIs ==
    ASSUME NEW a \in Uint, NEW k \in Nat, k < LongBits
    PROVE  /\ Advance(a, k).next \in Uint
           /\ Advance(a, k).wrapped <=> Num(a) + Pow2[k] >= Modulus * Modulus
           /\ ~Advance(a, k).wrapped =>
                Num(Advance(a, k).next) = Num(a) + Pow2[k]
<1> DEFINE s == StepOf(k)
           low == a.lo + s.lo
           high == a.hi + s.hi
           lo == low % Modulus
           hi == high % Modulus
           next == hi + 1
           up == next % Modulus
<1>1. /\ a.hi \in Nat /\ a.hi < Modulus /\ a.lo \in Nat /\ a.lo < Modulus
      /\ Num(a) = a.hi * Modulus + a.lo /\ a.hi * Modulus \in Nat
      /\ Num(a) \in Nat /\ Num(a) < Modulus * Modulus
    BY UintFields, NumType, Widths DEF Num
<1>2. /\ lo < a.lo =>
            /\ Advance(a, k).next = U(up, lo)
            /\ Advance(a, k).wrapped <=> (up = 0 /\ s.hi = 0)
      /\ ~(lo < a.lo) =>
            /\ Advance(a, k).next = U(hi, lo)
            /\ Advance(a, k).wrapped <=> hi < a.hi
    <2> DEFINE up0 == up = 0 /\ s.hi = 0
               past == hi < a.hi
    <2>1. Advance(a, k) = IF lo < a.lo
                          THEN [next |-> U(up, lo), wrapped |-> up0]
                          ELSE [next |-> U(hi, lo), wrapped |-> past]
        BY DEF Advance
    <2> HIDE DEF up0, past, up, hi, lo
    <2>2. /\ lo < a.lo => /\ Advance(a, k).next = U(up, lo)
                          /\ Advance(a, k).wrapped = up0
          /\ ~(lo < a.lo) => /\ Advance(a, k).next = U(hi, lo)
                             /\ Advance(a, k).wrapped = past
        BY <2>1
    <2> QED
        BY <2>2 DEF up0, past
<1>3. CASE k < WordBits
    <2> DEFINE p == Pow2[k]
    <2>1. p \in Nat /\ p > 0 /\ 2 * p <= Modulus
        BY <1>3, PowerType, PowerGrows, Widths DEF Modulus
    <2>2. s.hi = 0 /\ s.lo = p
        BY <1>3, Widths DEF StepOf, U
    <2> HIDE DEF s, p
    <2>0. low = a.lo + p /\ high = a.hi
        BY <1>1, <2>2
    <2> HIDE DEF low, high
    <2>3. hi = a.hi
        BY <1>1, <2>0, Widths, OneDigit
    <2>4. CASE a.lo + p < Modulus
        <3>1. lo = a.lo + p
            BY <1>1, <2>1, <2>0, <2>4, Widths, OneDigit
        <3> HIDE DEF lo, hi, up
        <3>2. lo \in Nat /\ lo < Modulus /\ ~(lo < a.lo)
            BY <1>1, <2>1, <2>4, <3>1, Widths
        <3>3. /\ Advance(a, k).next = U(a.hi, lo)
              /\ ~Advance(a, k).wrapped
            BY <1>1, <1>2, <2>3, <3>2
        <3>4. /\ Advance(a, k).next \in Uint
              /\ Num(Advance(a, k).next) = a.hi * Modulus + lo
            BY <1>1, <3>2, <3>3, MakeUint
        <3>5. Num(Advance(a, k).next) = Num(a) + p
            BY <1>1, <2>1, <3>1, <3>4
        <3>6. Num(Advance(a, k).next) < Modulus * Modulus
            BY <3>4, NumType
        <3> QED
            BY <1>1, <2>1, <3>3, <3>4, <3>5, <3>6, Widths DEF p
    <2>5. CASE a.lo + p >= Modulus
        <3>1. lo = a.lo + p - Modulus
            BY <1>1, <2>1, <2>0, <2>5, Widths, OneDigit
        <3>2. up = IF a.hi + 1 = Modulus THEN 0 ELSE a.hi + 1
            <4>1. next = a.hi + 1 /\ next \in Int /\ 0 <= next
                BY <1>1, <2>3
            <4> HIDE DEF next
            <4>2. next < 2 * Modulus /\ next <= Modulus
                BY <1>1, <4>1, Widths
            <4>3. next % Modulus =
                      IF next < Modulus THEN next ELSE next - Modulus
                BY <4>1, <4>2, Widths, OneDigit
            <4> QED
                BY <1>1, <4>1, <4>2, <4>3, Widths
        <3> HIDE DEF lo, hi, up
        <3>3. lo \in Nat /\ lo < Modulus /\ lo < a.lo
            BY <1>1, <2>1, <2>5, <3>1, Widths
        <3>4. up \in Nat /\ up < Modulus
            BY <1>1, <3>2, Widths
        <3>5. /\ Advance(a, k).next = U(up, lo)
              /\ Advance(a, k).wrapped <=> up = 0
            BY <1>2, <2>2, <3>3
        <3>6. /\ Advance(a, k).next \in Uint
              /\ Num(Advance(a, k).next) = up * Modulus + lo
            BY <3>3, <3>4, <3>5, MakeUint
        <3>7. CASE a.hi + 1 = Modulus
            <4>1. a.hi * Modulus = Modulus * Modulus - Modulus
                BY <1>1, <3>7, Widths, Distribute
            <4>2. Advance(a, k).wrapped
                BY <3>2, <3>5, <3>7
            <4>3. Num(a) + p >= Modulus * Modulus
                BY <1>1, <2>1, <2>5, <4>1, Widths
            <4> QED
                BY <3>6, <4>2, <4>3 DEF p
        <3>8. CASE a.hi + 1 # Modulus
            <4>1. (a.hi + 1) * Modulus = a.hi * Modulus + Modulus
                BY <1>1, Widths, Distribute
            <4>2. ~Advance(a, k).wrapped
                BY <1>1, <3>2, <3>5, <3>8
            <4>3. Num(Advance(a, k).next) = Num(a) + p
                BY <1>1, <2>1, <3>1, <3>2, <3>6, <3>8, <4>1, Widths
            <4>4. Num(Advance(a, k).next) < Modulus * Modulus
                BY <3>6, NumType
            <4> QED
                BY <1>1, <2>1, <3>6, <4>2, <4>3, <4>4, Widths DEF p
        <3> QED
            BY <3>7, <3>8
    <2> QED
        BY <1>1, <2>1, <2>4, <2>5, Widths
<1>4. CASE k >= WordBits
    <2> DEFINE j == k - WordBits
               p == Pow2[j]
    <2>1. j \in Nat /\ j < WordBits /\ k = WordBits + j
        BY <1>4, Widths
    <2>2. p \in Nat /\ p > 0 /\ 2 * p <= Modulus /\ Pow2[k] = Modulus * p
        <3> HIDE DEF j
        <3> QED
            BY <2>1, HighPower, PowerGrows, Widths DEF Modulus
    <2>3. s.hi = p % Modulus /\ s.lo = 0
        BY <1>4, Widths DEF StepOf, U
    <2> HIDE DEF s, p
    <2>4. s.hi = p
        BY <2>2, <2>3, Widths, OneDigit
    <2>0. low = a.lo /\ high = a.hi + p
        BY <1>1, <2>3, <2>4
    <2> HIDE DEF low, high
    <2>5. lo = a.lo
        BY <1>1, <2>0, Widths, OneDigit
    <2>6. hi = IF a.hi + p < Modulus THEN a.hi + p ELSE a.hi + p - Modulus
        <3>1. high \in Int /\ 0 <= high /\ high < 2 * Modulus
            BY <1>1, <2>2, <2>0, Widths
        <3>2. high % Modulus = IF high < Modulus THEN high ELSE high - Modulus
            BY <3>1, Widths, OneDigit
        <3> QED
            BY <1>1, <2>0, <2>2, <3>1, <3>2, Widths
    <2> HIDE DEF lo, hi, up
    <2>7. hi \in Nat /\ hi < Modulus
        BY <1>1, <2>2, <2>6, Widths
    <2>8. /\ Advance(a, k).next = U(hi, a.lo)
          /\ Advance(a, k).wrapped <=> hi < a.hi
        <3> ~(lo < a.lo)
            BY <1>1, <2>5
        <3> QED
            BY <1>2, <2>5
    <2>9. /\ Advance(a, k).next \in Uint
          /\ Num(Advance(a, k).next) = hi * Modulus + a.lo
        BY <1>1, <2>7, <2>8, MakeUint
    <2>10. Num(a) + Pow2[k] = (a.hi + p) * Modulus + a.lo
        <3> (a.hi + p) * Modulus = a.hi * Modulus + Modulus * p
            BY <1>1, <2>2, Widths
        <3> Modulus * p \in Nat
            BY <2>2, Widths
        <3> QED
            BY <1>1, <2>2
    <2>11. CASE a.hi + p < Modulus
        <3>1. ~Advance(a, k).wrapped /\ hi = a.hi + p
            BY <1>1, <2>2, <2>6, <2>8, <2>11
        <3>2. Num(Advance(a, k).next) = Num(a) + Pow2[k]
            BY <2>9, <2>10, <3>1
        <3>3. /\ Num(Advance(a, k).next) \in Nat
              /\ Num(Advance(a, k).next) < Modulus * Modulus
            BY <2>9, NumType
        <3> QED
            BY <2>9, <3>1, <3>2, <3>3, Widths
    <2>12. CASE a.hi + p >= Modulus
        <3>1. Advance(a, k).wrapped
            BY <1>1, <2>2, <2>6, <2>8, <2>12, Widths
        <3>2. (a.hi + p) * Modulus >= Modulus * Modulus
            BY <1>1, <2>2, <2>12, Widths
        <3>3. (a.hi + p) * Modulus \in Nat
            BY <1>1, <2>2, Widths
        <3> QED
            BY <1>1, <2>9, <2>10, <3>1, <3>2, <3>3, Widths
    <2> QED
        BY <1>1, <2>2, <2>11, <2>12, Widths
<1> QED
    BY <1>3, <1>4, Widths

(* Advancing by the whole space goes nowhere. *)
LEMMA AdvanceByAll ==
    ASSUME NEW a \in Uint
    PROVE  Advance(a, LongBits).next = a /\ ~Advance(a, LongBits).wrapped
<1> DEFINE s == StepOf(LongBits)
<1>1. /\ a.hi \in Nat /\ a.hi < Modulus /\ a.lo \in Nat /\ a.lo < Modulus
    BY UintFields
<1>2. s.hi = 0 /\ s.lo = 0
    <2>1. LongBits - WordBits = WordBits /\ LongBits >= WordBits
        BY Widths
    <2>2. Pow2[WordBits] % Modulus = 0
        BY Widths, OneDigit DEF Modulus
    <2> QED
        BY <2>1, <2>2 DEF StepOf, U
<1> HIDE DEF s
<1>3. (a.lo + s.lo) % Modulus = a.lo /\ (a.hi + s.hi) % Modulus = a.hi
    <2> DEFINE low == a.lo + s.lo
               high == a.hi + s.hi
    <2>1. low = a.lo /\ high = a.hi
        BY <1>1, <1>2
    <2> HIDE DEF low, high
    <2>2. low % Modulus = a.lo /\ high % Modulus = a.hi
        BY <1>1, <2>1, Widths, OneDigit
    <2> QED
        BY <2>2 DEF low, high
<1> DEFINE past == a.hi < a.hi
<1>4. Advance(a, LongBits) = [next |-> U(a.hi, a.lo), wrapped |-> past]
    <2> ~(a.lo < a.lo)
        BY <1>1
    <2> QED
        BY <1>3 DEF Advance, s
<1>5. U(a.hi, a.lo) = a
    BY DEF U, Uint
<1>6. ~past
    BY <1>1
<1> HIDE DEF past
<1> QED
    BY <1>4, <1>5, <1>6

-----------------------------------------------------------------------------
(* Lines. *)

(* What the definition of a line says of its parts. *)
LEMMA LineFields ==
    ASSUME NEW l \in Line
    PROVE  /\ l.kind \in Kind /\ l.long \in BOOLEAN
           /\ l.start \in Uint /\ l.end \in Uint
           /\ Num(l.start) \in Nat /\ Num(l.end) \in Nat
           /\ Num(l.start) < Pow2[Bits(l.long)]
           /\ Num(l.end) < Pow2[Bits(l.long)]
           /\ l.kind # "range" => IsBlock(l)
<1>1. /\ l.kind \in Kind /\ l.long \in BOOLEAN
      /\ l.start \in Uint /\ l.end \in Uint
      /\ l.start \in Family(l.long) /\ l.end \in Family(l.long)
      /\ l.kind # "range" => IsBlock(l)
    BY DEF Line
<1> QED
    BY <1>1, NumType, FamilyIs

(* What the parser cuts a range by is what the merged ranges are cut by.   *)
LEMMA RangeOfLine ==
    ASSUME NEW l \in Line, IsRange(l)
    PROVE  /\ Fits(l, Size(l))
           /\ Num(l.start) <= Num(l.end)
<1> DEFINE r == [long |-> l.long, start |-> l.start, end |-> l.end]
<1>1. Num(l.start) <= Num(l.end)
    BY LineFields, BelowIsLess DEF IsRange
<1>2. r \in IpRange
    BY <1>1, LineFields, MakeRange
<1>3. Fits(r, Size(r))
    <2> HIDE DEF r
    <2> QED
        BY <1>2, BlockSizeFits, SizeIsBlockSize
<1>4. Size(r) = Size(l)
    BY DEF Size
<1>5. Fits(l, Size(l))
    <2> DEFINE k == Size(l)
    <2>1. Fits(r, k)
        BY <1>3, <1>4
    <2> HIDE DEF k
    <2>2. Fits(l, k)
        BY <2>1 DEF Fits
    <2> QED
        BY <2>2 DEF k
<1> QED
    BY <1>1, <1>5

(* Only a number of host bits has all of them set. *)
LEMMA LengthOfMask ==
    ASSUME NEW u \in Uint, NEW h \in Nat, Num(u) = Pow2[h] - 1
    PROVE  BitLen(u) = h
<1> DEFINE b == BitLen(u)
<1>1. /\ b \in Nat /\ Num(u) < Pow2[b]
      /\ b = 0 \/ Num(u) >= Pow2[b - 1]
    BY BitLenIs
<1> HIDE DEF b
<1>2. Pow2[h] \in Nat /\ Pow2[h] > 0 /\ Pow2[b] \in Nat
    BY <1>1, PowerType
<1>3. ~(b < h)
    <2> SUFFICES ASSUME b < h PROVE FALSE
        OBVIOUS
    <2>1. 2 * Pow2[b] <= Pow2[h] /\ Pow2[b] > 0
        BY <1>1, PowerGrows, PowerType
    <2> QED
        BY <1>1, <1>2, <2>1
<1>4. ~(b > h)
    <2> SUFFICES ASSUME b > h PROVE FALSE
        OBVIOUS
    <2>1. b - 1 \in Nat /\ h <= b - 1
        BY <1>1
    <2>2. Pow2[h] <= Pow2[b - 1] /\ Pow2[b - 1] \in Nat
        BY <2>1, PowerGrows, PowerType
    <2> QED
        BY <1>1, <1>2, <2>2
<1> QED
    BY <1>1, <1>3, <1>4 DEF b

(* An entry becomes the prefix that is its addresses. *)
LEMMA PrefixOfLine ==
    ASSUME NEW l \in Line, l.kind # "range"
    PROVE  PrefixOf(l) \in Prefix /\ Block(PrefixOf(l)) = Span(l)
<1>1. PICK h \in 0 .. Bits(l.long) :
          /\ Num(l.start) % Pow2[h] = 0
          /\ Num(l.end) = Num(l.start) + Pow2[h] - 1
    BY LineFields DEF IsBlock
<1>2. h \in Nat /\ h <= Bits(l.long) /\ Pow2[h] \in Nat /\ Pow2[h] > 0
    BY <1>1, LineFields, BitsType, PowerType
<1>3. /\ Minus(l.end, l.start) \in Uint
      /\ Num(Minus(l.end, l.start)) = Pow2[h] - 1
    <2>1. /\ l.start \in Uint /\ l.end \in Uint
          /\ Num(l.start) \in Nat /\ Num(l.end) \in Nat
        BY LineFields
    <2>2. ~Below(l.end, l.start)
        BY <1>1, <1>2, <2>1, BelowIsLess
    <2>3. /\ Minus(l.end, l.start) \in Uint
          /\ Num(Minus(l.end, l.start)) = Num(l.end) - Num(l.start)
        BY <2>1, <2>2, MinusIsDifference
    <2> QED
        BY <1>1, <1>2, <2>1, <2>3
<1>4. BitLen(Minus(l.end, l.start)) = h
    BY <1>2, <1>3, LengthOfMask
<1>5. PrefixOf(l) = [long |-> l.long, start |-> l.start, host |-> h]
    BY <1>4 DEF PrefixOf
<1>6. PrefixOf(l) \in Prefix
    BY <1>1, <1>2, <1>5, LineFields, MakePrefix
<1>7. Block(PrefixOf(l)) = Span(l)
    <2> Num(l.start) + Pow2[h] - 1 = Num(l.end)
        BY <1>1
    <2> QED
        BY <1>5 DEF Block, Span
<1> QED
    BY <1>6, <1>7

-----------------------------------------------------------------------------
(* The choice of a parser. *)

(* Every order is of one or two columns. *)
LEMMA OrderIs ==
    ASSUME NEW ls, NEW order \in Orders(ls)
    PROVE  /\ order[1] \in {0, 1} /\ order[Len(order)] \in {0, 1}
           /\ {order[1], order[Len(order)]}
                = {c \in {0, 1} : ColumnVotes(ls, c) > 0}
<1>1. CASE order = <<0>>
    <2> order[1] = 0 /\ Len(order) = 1 /\ DOMAIN order = {1}
        BY <1>1
    <2> QED
        BY DEF Orders
<1>2. CASE order = <<1>>
    <2> order[1] = 1 /\ Len(order) = 1 /\ DOMAIN order = {1}
        BY <1>2
    <2> QED
        BY DEF Orders
<1>3. CASE order = <<0, 1>>
    <2> /\ order[1] = 0 /\ order[2] = 1 /\ Len(order) = 2
        /\ DOMAIN order = {1, 2}
        BY <1>3
    <2> QED
        BY DEF Orders
<1>4. CASE order = <<1, 0>>
    <2> /\ order[1] = 1 /\ order[2] = 0 /\ Len(order) = 2
        /\ DOMAIN order = {1, 2}
        BY <1>4
    <2> QED
        BY DEF Orders
<1> QED
    BY <1>1, <1>2, <1>3, <1>4 DEF Orders

(* Whatever the vote chooses is a parser. *)
LEMMA ChoosableType ==
    ASSUME NEW ls
    PROVE  Choosable(ls) \subseteq Parser
<1>1. LineParser(ls) \in Parser
    BY DEF LineParser, Named, Parser
<1>2. \A order \in Orders(ls) : BestColumn(ls, order) \in {0, 1}
    BY OrderIs DEF BestColumn
<1>3. \A order \in Orders(ls) :
          [name |-> "csv", column |-> BestColumn(ls, order)] \in Parser
    BY <1>2 DEF Parser
<1> QED
    BY <1>1, <1>3 DEF Choosable

(* The lines that vote are the first ones. *)
LEMMA WindowIs ==
    ASSUME NEW ls \in Seq(Line)
    PROVE  /\ DOMAIN Window(ls) = 1 .. Lesser(SniffLines, Len(ls))
           /\ DOMAIN Window(ls) \subseteq DOMAIN ls
           /\ IsFiniteSet(DOMAIN Window(ls))
<1> DEFINE n == Lesser(SniffLines, Len(ls))
<1>1. n \in Nat /\ n <= Len(ls)
    BY DetectAssumption DEF Lesser
<1>2. DOMAIN Window(ls) = 1 .. n
    <2> HIDE DEF n
    <2> DOMAIN SubSeq(ls, 1, n) = 1 .. n
        BY <1>1
    <2> QED
        BY DEF Window, n
<1> HIDE DEF n
<1>3. IsFiniteSet(1 .. n)
    BY <1>1, FS_Interval
<1> QED
    BY <1>1, <1>2, <1>3 DEF n

(* A label has a vote when a line of the window bears it. *)
LEMMA VotesAre ==
    ASSUME NEW ls \in Seq(Line), NEW label
    PROVE  /\ Votes(ls, label) \in Nat
           /\ Votes(ls, label) > 0 <=>
                \E i \in DOMAIN Window(ls) : Label(ls[i]) = label
<1> DEFINE S == {i \in DOMAIN Window(ls) : Label(ls[i]) = label}
<1>1. IsFiniteSet(S)
    BY WindowIs, FS_Subset
<1>2. Cardinality(S) \in Nat /\ (Cardinality(S) = 0 <=> S = {})
    <2> HIDE DEF S
    <2> QED
        BY <1>1, FS_CardinalityType, FS_EmptySet
<1>3. Votes(ls, label) = Cardinality(S)
    BY DEF Votes
<1> QED
    BY <1>2, <1>3

(* The votes for a column are a number. *)
LEMMA ColumnVotesType ==
    ASSUME NEW ls \in Seq(Line), NEW c
    PROVE  ColumnVotes(ls, c) \in Nat
<1> DEFINE S == {i \in DOMAIN Window(ls) :
                    ls[i].kind \in Record /\ FirstColumn(ls[i]) = c}
<1>1. IsFiniteSet(S)
    BY WindowIs, FS_Subset
<1>2. Cardinality(S) \in Nat
    <2> HIDE DEF S
    <2> QED
        BY <1>1, FS_CardinalityType
<1> QED
    BY <1>2 DEF ColumnVotes

(* The column that is chosen does not depend on the order in which the     *)
(* votes are met.                                                          *)
LEMMA ChosenColumn ==
    ASSUME NEW ls \in Seq(Line), NEW p \in Choosable(ls), p.name = "csv",
           NEW c \in {0, 1} \ {p.column}
    PROVE  \/ ColumnVotes(ls, c) < ColumnVotes(ls, p.column)
           \/ /\ ColumnVotes(ls, c) = ColumnVotes(ls, p.column)
              /\ c > p.column
<1>1. LineParser(ls).name # "csv"
    BY DEF LineParser, Named
<1>2. PICK order \in Orders(ls) :
          p = [name |-> "csv", column |-> BestColumn(ls, order)]
    BY <1>1 DEF Choosable
<1> DEFINE a == order[1]
           b == order[Len(order)]
           d == p.column
<1>3. /\ a \in {0, 1} /\ b \in {0, 1}
      /\ {a, b} = {x \in {0, 1} : ColumnVotes(ls, x) > 0}
    BY OrderIs
<1>4. d = IF \/ ColumnVotes(ls, b) > ColumnVotes(ls, a)
             \/ ColumnVotes(ls, b) = ColumnVotes(ls, a) /\ b < a
          THEN b ELSE a
    BY <1>2 DEF BestColumn
<1>5. \A x \in {0, 1} : ColumnVotes(ls, x) \in Nat
    BY ColumnVotesType
<1> HIDE DEF a, b, d
<1>6. \/ ColumnVotes(ls, c) < ColumnVotes(ls, d)
      \/ ColumnVotes(ls, c) = ColumnVotes(ls, d) /\ c > d
    <2>1. c \in {0, 1} /\ c # d
        BY DEF d
    <2>2. CASE c \in {a, b}
        <3>1. (d = a /\ c = b) \/ (d = b /\ c = a)
            BY <1>4, <2>1, <2>2
        <3> QED
            BY <1>3, <1>4, <1>5, <2>1, <3>1
    <2>3. CASE c \notin {a, b}
        <3>1. d \in {a, b}
            BY <1>4
        <3>2. ~(ColumnVotes(ls, c) > 0) /\ ColumnVotes(ls, d) > 0
            BY <1>3, <2>1, <2>3, <3>1
        <3> QED
            BY <1>3, <1>5, <2>1, <3>1, <3>2
    <2> QED
        BY <2>2, <2>3
<1> QED
    BY <1>6 DEF d

(* The kinds that the parsers which read line by line make sense of.       *)
LEMMA SenseIs ==
    ASSUME NEW l \in Line, NEW name \in {"plain", "range", "spamhaus"},
           NEW p, p.name = name
    PROVE  Result(p, l) # "rejected" <=>
              \/ l.kind \in {"entry", "sbl"}
              \/ name = "range" /\ IsRange(l)
              \/ name = "spamhaus" /\ l.kind \in {"json", "meta"}
<1>1. p.name # "csv"
    OBVIOUS
<1>2. CASE l.kind \in {"entry", "sbl"}
    <2>1. Result(p, l) = "parsed"
        BY <1>1, <1>2 DEF Result
    <2> QED
        BY <1>2, <2>1
<1>3. CASE l.kind \notin {"entry", "sbl"} /\ name = "plain"
    BY <1>1, <1>3 DEF Result
<1>4. CASE l.kind \notin {"entry", "sbl"} /\ name = "range"
    BY <1>1, <1>4 DEF Result
<1>5. CASE l.kind \notin {"entry", "sbl"} /\ name = "spamhaus"
    BY <1>1, <1>5 DEF Result
<1> QED
    BY <1>2, <1>3, <1>4, <1>5

(* The kinds of lines that get each label: which of the overlapping cases  *)
(* comes first makes no difference.                                        *)
LEMMA LabelIs ==
    ASSUME NEW l \in Line
    PROVE  /\ Label(l) = "spamhaus" <=> l.kind \in {"sbl", "json", "meta"}
           /\ Label(l) = "plain" <=> l.kind = "entry"
           /\ Label(l) = "range" <=> IsRange(l)
           /\ Label(l) = "csv" <=> l.kind \in Record
<1>1. IsRange(l) => l.kind = "range"
    BY DEF IsRange
<1>2. "range" \notin Record /\ "entry" \notin Record /\ "sbl" \notin Record
      /\ "json" \notin Record /\ "meta" \notin Record
    BY DEF Record
<1>3. CASE l.kind \in {"sbl", "json", "meta"}
    <2> Label(l) = "spamhaus"
        BY <1>1, <1>2, <1>3 DEF Label
    <2> QED
        BY <1>1, <1>2, <1>3
<1>4. CASE l.kind = "entry"
    <2> Label(l) = "plain"
        BY <1>1, <1>2, <1>4 DEF Label
    <2> QED
        BY <1>1, <1>2, <1>4
<1>5. CASE IsRange(l)
    <2> Label(l) = "range"
        BY <1>1, <1>2, <1>5 DEF Label
    <2> QED
        BY <1>1, <1>2, <1>5
<1>6. CASE l.kind \in Record
    <2> Label(l) = "csv"
        BY <1>1, <1>2, <1>6 DEF Label
    <2> QED
        BY <1>1, <1>2, <1>6
<1>7. CASE /\ l.kind \notin {"sbl", "json", "meta"} /\ l.kind # "entry"
           /\ ~IsRange(l) /\ l.kind \notin Record
    <2> Label(l) = "none"
        BY <1>7 DEF Label
    <2> QED
        BY <1>7
<1> QED
    BY <1>3, <1>4, <1>5, <1>6, <1>7

(* When one of these parsers makes sense of every line, so does the chosen *)
(* one of every line of a kind that was voted on.                          *)
LEMMA ChosenReads ==
    ASSUME NEW ls \in Seq(Line), NEW p \in Choosable(ls),
           NEW name \in {"plain", "range", "spamhaus"},
           \A i \in DOMAIN ls : Result(Named(name), ls[i]) # "rejected"
    PROVE  /\ p.name # "csv"
           /\ \A i \in DOMAIN ls :
                 (\E j \in DOMAIN Window(ls) : ls[j].kind = ls[i].kind)
                    => Result(p, ls[i]) # "rejected"
<1>1. \A i \in DOMAIN ls : ls[i] \in Line
    OBVIOUS
<1>2. \A i \in DOMAIN ls :
          \/ ls[i].kind \in {"entry", "sbl"}
          \/ name = "range" /\ IsRange(ls[i])
          \/ name = "spamhaus" /\ ls[i].kind \in {"json", "meta"}
    <2> Named(name).name = name
        BY DEF Named
    <2> QED
        BY <1>1, SenseIs
<1>3. \A i \in DOMAIN ls : Label(ls[i]) # "csv"
    <2> TAKE i \in DOMAIN ls
    <2>1. ls[i].kind \notin Record
        BY <1>2 DEF Record, IsRange
    <2> QED
        BY <1>1, <2>1, LabelIs
<1>4. Votes(ls, "csv") = 0
    BY <1>3, WindowIs, VotesAre
<1>5. p = LineParser(ls)
    <2>1. Votes(ls, "plain") + Votes(ls, "range") + Votes(ls, "spamhaus")
              >= Votes(ls, "csv")
        BY <1>4, VotesAre
    <2> QED
        BY <2>1 DEF Choosable
<1>6. p.name \in {"plain", "range", "spamhaus"}
    BY <1>5 DEF LineParser, Named
<1>7. ASSUME NEW i \in DOMAIN ls,
             NEW j \in DOMAIN Window(ls), ls[j].kind = ls[i].kind
      PROVE  Result(p, ls[i]) # "rejected"
    <2>1. j \in DOMAIN ls
        BY WindowIs
    <2>2. CASE ls[i].kind \in {"entry", "sbl"}
        BY <1>1, <1>6, <2>2, SenseIs
    <2>3. CASE name = "range" /\ IsRange(ls[i])
        <3>1. IsRange(ls[j])
            BY <1>2, <1>7, <2>1, <2>3 DEF IsRange
        <3>2. Votes(ls, "range") > 0
            BY <1>1, <2>1, <3>1, LabelIs, VotesAre
        <3>3. p.name = "range"
            BY <1>5, <3>2 DEF LineParser, Named
        <3> QED
            BY <1>1, <2>3, <3>3, SenseIs
    <2>4. CASE name = "spamhaus" /\ ls[i].kind \in {"json", "meta"}
        <3>1. Votes(ls, "spamhaus") > 0
            BY <1>1, <1>7, <2>1, <2>4, LabelIs, VotesAre
        <3>2. ~(Votes(ls, "range") > 0)
            <4>1. \A k \in DOMAIN Window(ls) : ~IsRange(ls[k])
                BY <1>2, <2>4, WindowIs DEF IsRange
            <4> QED
                BY <1>1, <4>1, LabelIs, VotesAre, WindowIs
        <3>3. p.name = "spamhaus"
            BY <1>5, <3>1, <3>2 DEF LineParser, Named
        <3> QED
            BY <1>1, <2>4, <3>3, SenseIs
    <2> QED
        BY <1>2, <2>2, <2>3, <2>4
<1> QED
    BY <1>6, <1>7

-----------------------------------------------------------------------------
(* Sequences. *)

(* A list that is not empty, and what is left when its first member is     *)
(* taken.                                                                  *)
LEMMA TailIs ==
    ASSUME NEW S, NEW s \in Seq(S), s # << >>
    PROVE  /\ Len(s) \in Nat /\ Len(s) > 0 /\ DOMAIN s = 1 .. Len(s)
           /\ Head(s) = s[1] /\ s[1] \in S
           /\ Tail(s) \in Seq(S) /\ Len(Tail(s)) = Len(s) - 1
           /\ DOMAIN Tail(s) = 1 .. (Len(s) - 1)
           /\ \A i \in 1 .. (Len(s) - 1) : Tail(s)[i] = s[i + 1]
<1>1. Len(s) \in Nat /\ Len(s) > 0 /\ DOMAIN s = 1 .. Len(s)
    OBVIOUS
<1>2. Head(s) = s[1] /\ s[1] \in S
    OBVIOUS
<1>3. Tail(s) \in Seq(S) /\ Len(Tail(s)) = Len(s) - 1
    OBVIOUS
<1>4. DOMAIN Tail(s) = 1 .. (Len(s) - 1)
    BY <1>3
<1>5. \A i \in 1 .. (Len(s) - 1) : Tail(s)[i] = s[i + 1]
    OBVIOUS
<1> QED
    BY <1>1, <1>2, <1>3, <1>4, <1>5

(* A list and one more member. *)
LEMMA AppendIs ==
    ASSUME NEW S, NEW s \in Seq(S), NEW x \in S
    PROVE  /\ Append(s, x) \in Seq(S) /\ Len(Append(s, x)) = Len(s) + 1
           /\ Len(s) \in Nat /\ DOMAIN s = 1 .. Len(s)
           /\ DOMAIN Append(s, x) = 1 .. (Len(s) + 1)
           /\ \A i \in 1 .. Len(s) : Append(s, x)[i] = s[i]
           /\ Append(s, x)[Len(s) + 1] = x
<1>1. Len(s) \in Nat /\ DOMAIN s = 1 .. Len(s)
    OBVIOUS
<1>2. Append(s, x) \in Seq(S) /\ Len(Append(s, x)) = Len(s) + 1
    OBVIOUS
<1>3. DOMAIN Append(s, x) = 1 .. (Len(s) + 1)
    BY <1>2
<1> QED
    BY <1>1, <1>2, <1>3

(* A sequence whose first element is another one. *)
LEMMA PutFirst ==
    ASSUME NEW S, NEW s \in Seq(S), s # << >>, NEW x \in S
    PROVE  LET t == <<x>> \o Tail(s)
           IN  /\ t \in Seq(S) /\ Len(t) = Len(s)
               /\ DOMAIN t = 1 .. Len(s)
               /\ t[1] = x /\ \A i \in 2 .. Len(s) : t[i] = s[i]
               /\ t # << >> /\ Tail(t) = Tail(s)
<1> DEFINE t == <<x>> \o Tail(s)
<1>1. /\ Tail(s) \in Seq(S) /\ Len(Tail(s)) = Len(s) - 1
      /\ Len(s) \in Nat /\ Len(s) > 0
    BY TailIs
<1>2. <<x>> \in Seq(S) /\ Len(<<x>>) = 1 /\ <<x>>[1] = x
    OBVIOUS
<1>3. t \in Seq(S) /\ Len(t) = Len(s)
    BY <1>1, <1>2
<1>4. \A i \in 1 .. Len(s) : t[i] = IF i <= 1 THEN <<x>>[i] ELSE Tail(s)[i - 1]
    BY <1>1, <1>2
<1>5. t[1] = x
    BY <1>1, <1>2, <1>4
<1>6. \A i \in 2 .. Len(s) : t[i] = s[i]
    <2> TAKE i \in 2 .. Len(s)
    <2>1. i - 1 \in 1 .. (Len(s) - 1) /\ (i - 1) + 1 = i /\ ~(i <= 1)
        BY <1>1
    <2>2. Tail(s)[i - 1] = s[(i - 1) + 1]
        BY <2>1, TailIs
    <2> QED
        BY <1>1, <1>4, <2>1, <2>2
<1>7. t # << >> /\ DOMAIN t = 1 .. Len(s)
    BY <1>1, <1>3
<1>8. Tail(t) = Tail(s)
    <2> HIDE DEF t
    <2>1. /\ Tail(t) \in Seq(S) /\ Len(Tail(t)) = Len(Tail(s))
          /\ \A i \in 1 .. (Len(s) - 1) : Tail(t)[i] = t[i + 1]
        BY <1>1, <1>3, <1>7, TailIs
    <2>2. \A i \in 1 .. (Len(s) - 1) : Tail(s)[i] = s[i + 1]
        BY TailIs
    <2>3. \A i \in 1 .. Len(Tail(s)) : Tail(t)[i] = Tail(s)[i]
        <3> TAKE i \in 1 .. Len(Tail(s))
        <3>1. i \in 1 .. (Len(s) - 1) /\ i + 1 \in 2 .. Len(s)
            BY <1>1
        <3> QED
            BY <1>6, <2>1, <2>2, <3>1
    <2> QED
        BY <1>1, <2>1, <2>3
<1> QED
    BY <1>3, <1>5, <1>6, <1>7, <1>8

(* A sequence whose last element is another one. *)
LEMMA PutLast ==
    ASSUME NEW S, NEW s \in Seq(S), s # << >>, NEW x \in S
    PROVE  LET t == Append(Front(s), x)
           IN  /\ Last(s) = s[Len(s)] /\ s[Len(s)] \in S
               /\ t \in Seq(S) /\ Len(t) = Len(s)
               /\ DOMAIN t = 1 .. Len(s)
               /\ t[Len(s)] = x
               /\ \A i \in 1 .. (Len(s) - 1) : t[i] = s[i]
<1>1. Len(s) \in Nat /\ Len(s) > 0 /\ s[Len(s)] \in S
    OBVIOUS
<1>2. /\ Front(s) \in Seq(S) /\ Len(Front(s)) = Len(s) - 1
      /\ \A i \in 1 .. (Len(s) - 1) : Front(s)[i] = s[i]
    <2> DEFINE n == Len(s) - 1
    <2>1. n \in Nat /\ n <= Len(s)
        BY <1>1
    <2>2. Front(s) = SubSeq(s, 1, n)
        BY DEF Front
    <2> HIDE DEF n
    <2>3. \A i \in 1 .. n : s[i] \in S
        BY <1>1, <2>1
    <2>4. SubSeq(s, 1, n) = [i \in 1 .. n |-> s[i]]
        BY <1>1, <2>1
    <2>5. SubSeq(s, 1, n) \in Seq(S) /\ Len(SubSeq(s, 1, n)) = n
        BY <2>1, <2>3, <2>4
    <2>6. \A i \in 1 .. n : SubSeq(s, 1, n)[i] = s[i]
        BY <2>4
    <2> QED
        BY <2>2, <2>5, <2>6 DEF n
<1>3. Last(s) = s[Len(s)]
    BY DEF Last
<1> HIDE DEF Front, Last
<1>4. (Len(s) - 1) + 1 = Len(s)
    BY <1>1
<1> QED
    BY <1>1, <1>2, <1>3, <1>4, AppendIs

-----------------------------------------------------------------------------
(* One block of a range. *)

(* The block that is cut off is one of the family, and the range begins    *)
(* with it.                                                                *)
LEMMA CutIs ==
    ASSUME NEW r \in IpRange, NEW k, Fits(r, k)
    PROVE  LET p == [long |-> r.long, start |-> r.start, host |-> k]
               n == Num(r.start) + Pow2[k]
           IN  /\ p \in Prefix /\ p.long = r.long
               /\ k \in Nat /\ k <= LongBits
               /\ n \in Nat /\ n > Num(r.start) /\ n <= Num(r.end) + 1
               /\ Block(p) = Num(r.start) .. (n - 1)
               /\ Span(r) = Block(p) \union (n .. Num(r.end))
<1> DEFINE p == [long |-> r.long, start |-> r.start, host |-> k]
           n == Num(r.start) + Pow2[k]
<1>1. /\ r.long \in BOOLEAN /\ r.start \in Uint /\ r.end \in Uint
      /\ Num(r.start) \in Nat /\ Num(r.end) \in Nat
      /\ Num(r.start) <= Num(r.end) /\ Num(r.end) < Pow2[Bits(r.long)]
      /\ Pow2[Bits(r.long)] \in Nat
      /\ Bits(r.long) \in Nat /\ Bits(r.long) <= LongBits
    BY RangeFields, BitsType
<1>2. /\ k \in Nat /\ k <= Bits(r.long) /\ Num(r.start) % Pow2[k] = 0
      /\ n <= Num(r.end) + 1
    BY DEF Fits
<1>3. Pow2[k] \in Nat /\ Pow2[k] > 0
    BY <1>2, PowerType
<1>4. p \in Prefix
    <2> Num(r.start) < Pow2[Bits(r.long)]
        BY <1>1
    <2> QED
        BY <1>1, <1>2, MakePrefix
<1>5. n \in Nat /\ n > Num(r.start) /\ k <= LongBits
    <2>1. n \in Nat /\ n > Num(r.start)
        BY <1>1, <1>3
    <2>2. LongBits \in Nat /\ k \in Nat /\ k <= Bits(r.long)
        BY <1>2, Widths
    <2>3. k <= LongBits
        BY <1>1, <2>2
    <2> QED
        BY <2>1, <2>3
<1>6. Block(p) = Num(r.start) .. (n - 1)
    <2>1. p.start = r.start /\ p.host = k
        OBVIOUS
    <2> HIDE DEF p
    <2>2. Num(r.start) + Pow2[k] - 1 = n - 1
        BY <1>1, <1>3
    <2>3. Block(p) = Num(r.start) .. (Num(r.start) + Pow2[k] - 1)
        BY <2>1 DEF Block
    <2> QED
        BY <2>2, <2>3
<1> HIDE DEF n, p
<1>7. Span(r) = Block(p) \union (n .. Num(r.end))
    BY <1>1, <1>2, <1>5, <1>6 DEF Span
<1>8. p.long = r.long
    BY DEF p
<1> QED
    BY <1>2, <1>4, <1>5, <1>6, <1>7, <1>8 DEF n, p

(* The parser's step: the block goes out, and what is left of the line is  *)
(* a range of the same kind.                                               *)
LEMMA EmitIs ==
    ASSUME NEW l \in Line, IsRange(l)
    PROVE  LET k    == Size(l)
               p    == [long |-> l.long, start |-> l.start, host |-> k]
               next == AddPow2(l.start, k)
               rest == [l EXCEPT !.start = next.sum]
           IN  /\ p \in Prefix
               /\ next.carry \/ Below(l.end, next.sum) => Span(l) = Block(p)
               /\ ~(next.carry \/ Below(l.end, next.sum)) =>
                     /\ rest \in Line /\ IsRange(rest)
                     /\ rest.kind = l.kind /\ rest.long = l.long
                     /\ Span(l) = Block(p) \union Span(rest)
<1> DEFINE r == [long |-> l.long, start |-> l.start, end |-> l.end]
           k == Size(l)
           p == [long |-> l.long, start |-> l.start, host |-> k]
           next == AddPow2(l.start, k)
           rest == [l EXCEPT !.start = next.sum]
           n == Num(l.start) + Pow2[k]
<1>1. /\ l.kind \in Kind /\ l.long \in BOOLEAN
      /\ l.start \in Uint /\ l.end \in Uint
      /\ Num(l.start) \in Nat /\ Num(l.end) \in Nat
      /\ Num(l.end) < Pow2[Bits(l.long)]
      /\ Pow2[Bits(l.long)] \in Nat
      /\ Pow2[Bits(l.long)] <= Modulus * Modulus
      /\ Modulus * Modulus \in Nat
      /\ l.kind = "range" /\ Fits(l, k) /\ Num(l.start) <= Num(l.end)
    BY LineFields, RangeOfLine, BitsType, Widths DEF IsRange
<1>2. r \in IpRange
    BY <1>1, MakeRange
<1> HIDE DEF k
<1>3. Fits(r, k)
    BY <1>1 DEF Fits
<1>4. r.long = l.long /\ r.start = l.start /\ r.end = l.end
    OBVIOUS
<1> HIDE DEF r
<1>5. /\ p \in Prefix /\ k \in Nat /\ k <= LongBits
      /\ n \in Nat /\ n > Num(l.start) /\ n <= Num(l.end) + 1
      /\ Block(p) = Num(l.start) .. (n - 1)
      /\ Span(r) = Block(p) \union (n .. Num(l.end))
    BY <1>2, <1>3, <1>4, CutIs
<1>6. Span(r) = Span(l)
    BY <1>4 DEF Span
<1>7. /\ next.sum \in Uint
      /\ next.carry <=> n >= Modulus * Modulus
      /\ ~next.carry => Num(next.sum) = n
    BY <1>1, <1>5, AddPow2Is
<1> HIDE DEF p, n, next
<1>8. ASSUME next.carry \/ Below(l.end, next.sum)
      PROVE  Span(l) = Block(p)
    <2>1. n > Num(l.end)
        BY <1>1, <1>5, <1>7, <1>8, BelowIsLess
    <2>2. n .. Num(l.end) = {}
        BY <1>1, <1>5, <2>1
    <2> QED
        BY <1>5, <1>6, <2>2
<1>9. ASSUME ~(next.carry \/ Below(l.end, next.sum))
      PROVE  /\ rest \in Line /\ IsRange(rest)
             /\ rest.kind = l.kind /\ rest.long = l.long
             /\ Span(l) = Block(p) \union Span(rest)
    <2>1. Num(next.sum) = n /\ n <= Num(l.end)
        BY <1>1, <1>5, <1>7, <1>9, BelowIsLess
    <2>2. /\ rest.kind = l.kind /\ rest.long = l.long
          /\ rest.start = next.sum /\ rest.end = l.end
          /\ rest \in [kind : Kind, long : BOOLEAN, start : Uint, end : Uint]
        BY <1>1, <1>7 DEF Line
    <2> HIDE DEF rest
    <2>3. rest.start \in Family(rest.long) /\ rest.end \in Family(rest.long)
        BY <1>1, <1>5, <1>7, <2>1, <2>2, FamilyIs
    <2>4. rest \in Line
        BY <1>1, <2>2, <2>3 DEF Line
    <2>5. IsRange(rest)
        BY <1>1, <1>7, <1>9, <2>2 DEF IsRange
    <2>6. Span(rest) = n .. Num(l.end)
        BY <2>1, <2>2 DEF Span
    <2> QED
        BY <1>5, <1>6, <2>2, <2>4, <2>5, <2>6
<1> QED
    BY <1>5, <1>8, <1>9 DEF p, next, k

-----------------------------------------------------------------------------
(* Maximal blocks. *)

(* Multiples are in the order of their factors. *)
LEMMA MultipleOrder ==
    ASSUME NEW m \in Nat, m > 0, NEW x \in Int, NEW y \in Int
    PROVE  x * m < y * m <=> x < y
<1>1. ASSUME x < y PROVE x * m < y * m
    <2>1. (y - x) * m >= 1 * m
        BY <1>1
    <2>2. (y - x) * m = y * m - x * m
        OBVIOUS
    <2> QED
        BY <2>1, <2>2
<1>2. ASSUME ~(x < y) PROVE ~(x * m < y * m)
    <2>1. (x - y) * m >= 0
        BY <1>2
    <2>2. (x - y) * m = x * m - y * m
        OBVIOUS
    <2> QED
        BY <2>1, <2>2
<1> QED
    BY <1>1, <1>2

(* Of two aligned blocks that share an address the smaller lies in the     *)
(* larger one.                                                             *)
LEMMA Nested ==
    ASSUME NEW n \in Nat, NEW j \in Nat, NEW m \in Nat, NEW k \in Nat,
           j <= k, n % Pow2[j] = 0, m % Pow2[k] = 0,
           NEW x \in Nat, n <= x, x < n + Pow2[j], m <= x, x < m + Pow2[k]
    PROVE  m <= n /\ n + Pow2[j] <= m + Pow2[k]
<1> DEFINE p == Pow2[j]
           c == Pow2[k - j]
<1>1. p \in Nat /\ p > 0 /\ c \in Nat /\ Pow2[k] = c * p /\ Pow2[k] \in Nat
      /\ Pow2[k] > 0
    <2> k - j \in Nat /\ (k - j) + j = k
        OBVIOUS
    <2> QED
        BY PowerType, PowerSum
<1>2. PICK a \in Int : n = a * p
    <2>1. n \in Int
        OBVIOUS
    <2> QED
        BY <1>1, <2>1, Multiple
<1>3. PICK b \in Int : m = b * Pow2[k]
    <2>1. m \in Int
        OBVIOUS
    <2> QED
        BY <1>1, <2>1, Multiple
<1> HIDE DEF p, c
<1>4. m = (b * c) * p /\ b * c \in Int
    BY <1>1, <1>3, Distribute
<1> DEFINE bc == b * c
<1>5. bc \in Int /\ m = bc * p
    BY <1>4
<1> HIDE DEF bc
<1>6. /\ (a + 1) * p = a * p + p /\ (bc + c) * p = bc * p + c * p
      /\ a * p \in Int /\ bc * p \in Int /\ c * p \in Int
    BY <1>1, <1>5, Distribute
<1>7. bc * p < (a + 1) * p /\ a * p < (bc + c) * p
    BY <1>1, <1>2, <1>5, <1>6 DEF p
<1>8. bc < a + 1 /\ a < bc + c
    <2>1. a + 1 \in Int /\ bc + c \in Int
        BY <1>1, <1>5
    <2> QED
        BY <1>1, <1>5, <1>7, <2>1, MultipleOrder
<1>9. ~(a < bc) /\ ~(bc + c < a + 1)
    BY <1>1, <1>5, <1>8
<1>10. ~(a * p < bc * p) /\ ~((bc + c) * p < (a + 1) * p)
    <2>1. a + 1 \in Int /\ bc + c \in Int
        BY <1>1, <1>5
    <2> QED
        BY <1>1, <1>5, <1>9, <2>1, MultipleOrder
<1> QED
    BY <1>1, <1>2, <1>5, <1>6, <1>10 DEF p

(* The aligned block around a number, as an interval. *)
LEMMA AlignedIs ==
    ASSUME NEW n \in Nat, NEW k \in Nat
    PROVE  \E f \in Nat :
               /\ Aligned(n, k) = f .. (f + Pow2[k] - 1)
               /\ f <= n /\ n < f + Pow2[k] /\ f % Pow2[k] = 0
               /\ n % Pow2[k] = 0 <=> f = n
<1> DEFINE p == Pow2[k]
           q == n % p
           f == n - q
<1>1. p \in Nat /\ p > 0
    BY PowerType
<1>2. Aligned(n, k) = f .. (f + p - 1)
    BY DEF Aligned
<1> HIDE DEF p
<1>3. q \in Nat /\ q < p /\ q <= n
    BY <1>1
<1>4. f % p = 0
    <2>1. n = p * (n \div p) + q /\ n \div p \in Int
        BY <1>1
    <2> DEFINE d == n \div p
    <2> HIDE DEF d, q
    <2>2. d \in Int /\ n = p * d + q
        BY <2>1 DEF d
    <2>3. f = d * p /\ f \in Int
        BY <1>1, <1>3, <2>2
    <2> HIDE DEF f
    <2> QED
        BY <1>1, <2>2, <2>3, Multiple
<1>5. n % p = 0 <=> q = 0
    OBVIOUS
<1> HIDE DEF q
<1>6. f \in Nat /\ f <= n /\ n < f + p /\ (f = n <=> q = 0)
    BY <1>1, <1>3
<1> HIDE DEF f
<1> QED
    BY <1>2, <1>4, <1>5, <1>6 DEF p

(* What it takes for the aligned block of an address to lie in a range.    *)
LEMMA AlignedInside ==
    ASSUME NEW n \in Nat, NEW k \in Nat, NEW a \in Nat, NEW b \in Int
    PROVE  /\ n % Pow2[k] = 0 =>
                (Aligned(n, k) \subseteq a .. b
                    <=> a <= n /\ n + Pow2[k] <= b + 1)
           /\ n \in Aligned(n, k)
<1>1. PICK f \in Nat :
          /\ Aligned(n, k) = f .. (f + Pow2[k] - 1)
          /\ f <= n /\ n < f + Pow2[k]
          /\ n % Pow2[k] = 0 => f = n
    BY AlignedIs
<1> DEFINE p == Pow2[k]
<1>2. p \in Nat /\ p > 0
    BY PowerType
<1> DEFINE A == f .. (f + p - 1)
<1>3. A \subseteq a .. b <=> a <= f /\ f + p <= b + 1
    <2> HIDE DEF p
    <2>1. ASSUME A \subseteq a .. b PROVE a <= f /\ f + p <= b + 1
        <3> f \in A /\ f + p - 1 \in A
            BY <1>2
        <3> HIDE DEF A
        <3> f \in a .. b /\ f + p - 1 \in a .. b
            BY <2>1
        <3> QED
            BY <1>2
    <2>2. ASSUME a <= f, f + p <= b + 1 PROVE A \subseteq a .. b
        BY <1>2, <2>2
    <2> QED
        BY <2>1, <2>2
<1>4. n \in A
    <2> HIDE DEF p
    <2> f <= n /\ n < f + p
        BY <1>1 DEF p
    <2> QED
        BY <1>2
<1> HIDE DEF A
<1>5. A = Aligned(n, k)
    BY <1>1 DEF A
<1> HIDE DEF p
<1> QED
    BY <1>1, <1>3, <1>4, <1>5 DEF p

(* The block that fits is a maximal one of the range, and the others are   *)
(* those of the rest: nothing aligned reaches across the cut.              *)
LEMMA MaximalCut ==
    ASSUME NEW r \in IpRange, NEW k, Fits(r, k)
    PROVE  LET s == Num(r.start)
               n == Num(r.start) + Pow2[k]
           IN  /\ Maximal(Span(r), r.long) =
                     {<<s, k>>} \union Maximal(n .. Num(r.end), r.long)
               /\ <<s, k>> \notin Maximal(n .. Num(r.end), r.long)
<1> DEFINE s == Num(r.start)
           e == Num(r.end)
           n == s + Pow2[k]
           w == Bits(r.long)
<1>1. /\ s \in Nat /\ e \in Nat /\ s <= e /\ w \in Nat
      /\ Span(r) = s .. e /\ r.long \in BOOLEAN
    BY RangeFields, BitsType DEF Span
<1>2. /\ k \in Nat /\ k <= w /\ s % Pow2[k] = 0 /\ n <= e + 1
      /\ k = w \/ s % Pow2[k + 1] # 0 \/ s + Pow2[k + 1] > e + 1
    BY DEF Fits
<1>3. n \in Nat /\ s < n
    <2> Pow2[k] \in Nat /\ Pow2[k] > 0
        BY <1>2, PowerType
    <2> QED
        BY <1>1
<1>4. w = Bits(r.long) /\ n = s + Pow2[k]
    OBVIOUS
<1> HIDE DEF s, e, w, n
<1> DEFINE All == Maximal(s .. e, r.long)
           Rest == Maximal(n .. e, r.long)
(* No aligned block that is larger than the one that fits begins with it.  *)
<1>5. ASSUME NEW j \in Nat, k < j, j <= w, s % Pow2[j] = 0,
             s + Pow2[j] <= e + 1
      PROVE  FALSE
    <2>1. k + 1 \in Nat /\ k + 1 <= j /\ s \in Int
        BY <1>1, <1>2, <1>5
    <2>2. s % Pow2[k + 1] = 0
        BY <1>5, <2>1, Coarser
    <2>3. Pow2[k + 1] <= Pow2[j] /\ Pow2[k + 1] \in Nat /\ Pow2[j] \in Nat
        BY <2>1, PowerGrows, PowerType
    <2>4. s + Pow2[k + 1] <= e + 1
        BY <1>1, <1>5, <2>3
    <2> DEFINE P == Pow2[k + 1]
    <2>5. k # w
        BY <1>2, <1>5
    <2> QED
        BY <1>1, <1>2, <2>2, <2>3, <2>4, <2>5
<1>6. <<s, k>> \in All
    <2>1. s \in s .. e /\ k \in 0 .. w
        BY <1>1, <1>2
    <2>2. Aligned(s, k) \subseteq s .. e
        BY <1>1, <1>2, <1>4, AlignedInside
    <2>3. ASSUME k # w, Aligned(s, k + 1) \subseteq s .. e PROVE FALSE
        <3>1. PICK f \in Nat :
                  /\ Aligned(s, k + 1) = f .. (f + Pow2[k + 1] - 1)
                  /\ f <= s /\ s < f + Pow2[k + 1] /\ f % Pow2[k + 1] = 0
                  /\ s % Pow2[k + 1] = 0 <=> f = s
            <4> s \in Nat /\ k + 1 \in Nat
                BY <1>1, <1>2
            <4> QED
                BY AlignedIs
        <3>2. Pow2[k + 1] \in Nat /\ Pow2[k + 1] > 0
            BY <1>2, PowerType
        <3>3. f \in Aligned(s, k + 1)
            BY <3>1, <3>2
        <3>4. f = s
            BY <1>1, <2>3, <3>1, <3>3
        <3>5. s + Pow2[k + 1] <= e + 1
            BY <1>1, <1>2, <2>3, <3>1, <3>4, AlignedInside
        <3>6. k + 1 \in Nat /\ k < k + 1 /\ k + 1 <= w
            <4> k \in Nat /\ k <= w /\ k # w /\ w \in Nat
                BY <1>1, <1>2, <2>3
            <4> QED
                OBVIOUS
        <3> QED
            BY <1>5, <3>1, <3>4, <3>5, <3>6
    <2>4. IsMaximal(s, k, s .. e, r.long)
        BY <1>2, <1>4, <2>2, <2>3 DEF IsMaximal
    <2>5. <<s, k>> \in (s .. e) \X (0 .. w)
        BY <2>1
    <2> QED
        BY <1>4, <2>4, <2>5 DEF Maximal
<1>7. <<s, k>> \notin Rest
    <2> s \notin n .. e
        BY <1>1, <1>3
    <2> QED
        BY DEF Maximal
<1>8. ASSUME NEW m \in n .. e, NEW j \in 0 .. w,
             IsMaximal(m, j, n .. e, r.long)
      PROVE  IsMaximal(m, j, s .. e, r.long)
    <2>1. /\ m \in Nat /\ j \in Nat /\ m % Pow2[j] = 0
          /\ Aligned(m, j) \subseteq n .. e
          /\ j = w \/ ~(Aligned(m, j + 1) \subseteq n .. e)
        BY <1>1, <1>3, <1>4, <1>8 DEF IsMaximal
    <2>2. n .. e \subseteq s .. e
        BY <1>1, <1>3
    <2>3. ASSUME j # w, Aligned(m, j + 1) \subseteq s .. e PROVE FALSE
        <3> DEFINE P == Pow2[j + 1]
        <3>1. PICK f \in Nat :
                  /\ Aligned(m, j + 1) = f .. (f + P - 1)
                  /\ f <= m /\ m < f + P /\ f % P = 0
            <4> m \in Nat /\ j + 1 \in Nat
                BY <2>1
            <4> QED
                BY AlignedIs
        <3>2. P \in Nat /\ P > 0 /\ j + 1 \in Nat /\ j + 1 <= w
            BY <1>1, <2>1, <2>3, PowerType
        <3> HIDE DEF P
        <3>3. f \in s .. e /\ f + P - 1 \in s .. e
            <4> f \in f .. (f + P - 1) /\ f + P - 1 \in f .. (f + P - 1)
                BY <3>2
            <4> QED
                BY <2>3, <3>1
        <3>4. f < n
            <4> SUFFICES ASSUME f >= n PROVE FALSE
                BY <1>3
            <4> f .. (f + P - 1) \subseteq n .. e
                BY <1>1, <1>3, <3>3
            <4> QED
                BY <2>1, <2>3, <3>1
        <3>5. n <= m /\ s <= n - 1 /\ n - 1 \in Nat
            BY <1>1, <1>3
        <3>6. /\ f <= n - 1 /\ n - 1 < f + P /\ n - 1 < s + Pow2[k]
            BY <1>3, <1>4, <3>1, <3>2, <3>4, <3>5
        <3>7. CASE j + 1 <= k
            <4>1. f + P <= s + Pow2[k]
                BY <1>1, <1>2, <3>1, <3>2, <3>5, <3>6, <3>7, Nested DEF P
            <4> QED
                BY <1>3, <1>4, <3>1, <3>2, <3>5, <4>1
        <3>8. CASE k < j + 1
            <4>1. f <= s
                <5> DEFINE j1 == j + 1
                <5>1. /\ k <= j1 /\ k \in Nat /\ j1 \in Nat /\ s \in Nat
                      /\ f \in Nat /\ n - 1 \in Nat
                    BY <1>1, <1>2, <3>1, <3>2, <3>5, <3>8
                <5>2. s % Pow2[k] = 0 /\ f % Pow2[j1] = 0
                    BY <1>2, <3>1 DEF P
                <5>3. /\ s <= n - 1 /\ n - 1 < s + Pow2[k]
                      /\ f <= n - 1 /\ n - 1 < f + Pow2[j1]
                    BY <3>5, <3>6 DEF P
                <5> HIDE DEF j1
                <5> QED
                    BY <5>1, <5>2, <5>3, Nested
            <4>2. f = s
                BY <1>1, <3>3, <4>1
            <4>3. s + P <= e + 1
                BY <1>1, <3>2, <3>3, <4>2
            <4> QED
                BY <1>5, <3>1, <3>2, <3>8, <4>2, <4>3 DEF P
        <3> QED
            BY <1>2, <3>2, <3>7, <3>8
    <2> QED
        BY <1>4, <2>1, <2>2, <2>3 DEF IsMaximal
<1>9. ASSUME NEW m \in s .. e, NEW j \in 0 .. w,
             IsMaximal(m, j, s .. e, r.long), ~(m = s /\ j = k)
      PROVE  m \in n .. e /\ IsMaximal(m, j, n .. e, r.long)
    <2>1. /\ m \in Nat /\ j \in Nat /\ m % Pow2[j] = 0
          /\ Aligned(m, j) \subseteq s .. e
          /\ j = w \/ ~(Aligned(m, j + 1) \subseteq s .. e)
        BY <1>1, <1>4, <1>9 DEF IsMaximal
    <2>2. /\ s <= m /\ m + Pow2[j] <= e + 1 /\ m <= e
          /\ Pow2[j] \in Nat /\ Pow2[j] > 0 /\ Pow2[k] \in Nat /\ Pow2[k] > 0
        <3>1. s <= m /\ m + Pow2[j] <= e + 1
            BY <1>1, <2>1, AlignedInside
        <3>2. s <= m /\ m <= e
            BY <1>1
        <3> QED
            BY <1>2, <2>1, <3>1, <3>2, PowerType
    <2>3. ~(m < n)
        <3> SUFFICES ASSUME m < n PROVE FALSE
            OBVIOUS
        <3>1. m < m + Pow2[j] /\ m < s + Pow2[k] /\ s < s + Pow2[k]
            BY <1>1, <1>4, <2>1, <2>2
        <3>2. CASE j < k
            <4> DEFINE P == Pow2[j + 1]
            <4>1. PICK f \in Nat :
                      /\ Aligned(m, j + 1) = f .. (f + P - 1)
                      /\ f <= m /\ m < f + P /\ f % P = 0
                <5> m \in Nat /\ j + 1 \in Nat
                    BY <2>1
                <5> QED
                    BY AlignedIs
            <4>2. /\ j + 1 \in Nat /\ j + 1 <= k /\ j # w
                  /\ P \in Nat /\ P > 0
                BY <1>1, <1>2, <2>1, <3>2, PowerType
            <4>3. s <= f /\ f + P <= s + Pow2[k]
                BY <1>1, <1>2, <2>1, <2>2, <3>1, <4>1, <4>2, Nested DEF P
            <4> HIDE DEF P
            <4>4. f .. (f + P - 1) \subseteq s .. e
                BY <1>1, <1>2, <1>3, <1>4, <4>2, <4>3
            <4> QED
                BY <2>1, <4>1, <4>2, <4>4
        <3>3. CASE j = k
            <4>1. m + Pow2[j] <= s + Pow2[k]
                BY <1>1, <1>2, <2>1, <2>2, <3>1, <3>3, Nested
            <4>2. m = s
                BY <1>1, <2>1, <2>2, <3>3, <4>1
            <4> QED
                BY <1>9, <3>3, <4>2
        <3>4. CASE k < j
            <4>1. m <= s
                <5> k <= j
                    BY <1>2, <2>1, <3>4
                <5> QED
                    BY <1>1, <1>2, <2>1, <2>2, <3>1, Nested
            <4>2. m = s
                BY <1>1, <2>1, <2>2, <4>1
            <4>3. j <= w
                BY <1>1
            <4> QED
                BY <1>5, <2>1, <2>2, <3>4, <4>2, <4>3
        <3> QED
            BY <1>2, <2>1, <3>2, <3>3, <3>4
    <2>4. m \in n .. e
        BY <1>1, <1>3, <2>1, <2>2, <2>3
    <2>5. Aligned(m, j) \subseteq n .. e
        BY <1>1, <1>3, <2>1, <2>2, <2>3, AlignedInside
    <2>6. n .. e \subseteq s .. e
        BY <1>1, <1>3
    <2> QED
        BY <1>4, <2>1, <2>4, <2>5, <2>6 DEF IsMaximal
<1>10. \A b : b \in All => b \in {<<s, k>>} \union Rest
    <2> SUFFICES ASSUME NEW b \in All, b # <<s, k>> PROVE b \in Rest
        OBVIOUS
    <2>1. /\ b \in (s .. e) \X (0 .. w)
          /\ IsMaximal(b[1], b[2], s .. e, r.long)
        BY <1>4 DEF Maximal
    <2>2. /\ b[1] \in s .. e /\ b[2] \in 0 .. w /\ b = <<b[1], b[2]>>
        BY <2>1
    <2>3. ~(b[1] = s /\ b[2] = k)
        BY <2>2
    <2>4. /\ b[1] \in n .. e /\ IsMaximal(b[1], b[2], n .. e, r.long)
        BY <1>9, <2>1, <2>2, <2>3
    <2>5. b \in (n .. e) \X (0 .. w)
        BY <2>2, <2>4
    <2> QED
        BY <1>4, <2>4, <2>5 DEF Maximal
<1>11. \A b : b \in Rest => b \in All
    <2> SUFFICES ASSUME NEW b \in Rest PROVE b \in All
        OBVIOUS
    <2>1. /\ b \in (n .. e) \X (0 .. w)
          /\ IsMaximal(b[1], b[2], n .. e, r.long)
        BY <1>4 DEF Maximal
    <2>2. /\ b[1] \in n .. e /\ b[2] \in 0 .. w /\ b = <<b[1], b[2]>>
        BY <2>1
    <2>3. IsMaximal(b[1], b[2], s .. e, r.long)
        BY <1>8, <2>1, <2>2
    <2>4. b[1] \in s .. e
        BY <1>1, <1>3, <2>2
    <2>5. b \in (s .. e) \X (0 .. w)
        BY <2>2, <2>4
    <2> QED
        BY <1>4, <2>3, <2>5 DEF Maximal
<1>12. All = {<<s, k>>} \union Rest
    <2> HIDE DEF All, Rest
    <2> QED
        BY <1>6, <1>10, <1>11
<1> QED
    BY <1>1, <1>7, <1>12 DEF n, s, e

(* No addresses have no blocks. *)
LEMMA MaximalOfNone ==
    ASSUME NEW long PROVE Maximal({}, long) = {}
BY DEF Maximal

(* An interval of addresses has finitely many maximal blocks. *)
LEMMA MaximalFinite ==
    ASSUME NEW a \in Int, NEW b \in Int, NEW long \in BOOLEAN
    PROVE  IsFiniteSet(Maximal(a .. b, long))
<1> DEFINE A == a .. b
           H == 0 .. Bits(long)
<1>1. IsFiniteSet(A) /\ IsFiniteSet(H)
    BY BitsType, FS_Interval
<1> HIDE DEF A, H
<1>2. IsFiniteSet(A \X H)
    BY <1>1, FS_Product
<1>3. Maximal(A, long) \subseteq A \X H
    BY DEF Maximal, H
<1>4. IsFiniteSet(Maximal(A, long))
    BY <1>2, <1>3, FS_Subset
<1> QED
    BY <1>4 DEF A

(* The only maximal block of an aligned block is itself. *)
LEMMA MaximalOfBlock ==
    ASSUME NEW p \in Prefix
    PROVE  Maximal(Block(p), p.long) = {<<Num(p.start), p.host>>}
<1> DEFINE r == RangeOf(p)
           k == p.host
           n == Num(p.start) + Pow2[k]
<1>1. /\ r \in IpRange /\ r.long = p.long /\ r.start = p.start
      /\ Num(r.end) = n - 1 /\ Span(r) = Block(p)
    <2>1. Num(r.end) = Num(p.start) + Pow2[k] - 1
        BY RangeOfIs
    <2>2. Num(p.start) \in Nat /\ Pow2[k] \in Nat
        BY PrefixFields
    <2>3. Num(r.end) = n - 1
        <3> HIDE DEF r, k
        <3> QED
            BY <2>1, <2>2
    <2> QED
        BY <2>3, RangeOfIs
<1>2. /\ k \in Nat /\ k <= Bits(p.long) /\ Num(p.start) \in Nat
      /\ Pow2[k] \in Nat /\ Num(p.start) % Pow2[k] = 0
    BY PrefixFields
<1> HIDE DEF r
<1>3. Num(p.start) + Pow2[k] <= Num(r.end) + 1
    BY <1>1, <1>2
<1>4. Num(p.start) + Pow2[k + 1] > Num(r.end) + 1
    <2> Pow2[k + 1] = 2 * Pow2[k] /\ Pow2[k] > 0
        BY <1>2, PowerNext, PowerType
    <2> QED
        BY <1>1, <1>2
<1>5. Fits(r, k)
    BY <1>1, <1>2, <1>3, <1>4 DEF Fits
<1>6. n .. Num(r.end) = {}
    BY <1>1, <1>2
<1> HIDE DEF k
<1>7. Maximal(Span(r), r.long) =
          {<<Num(r.start), k>>} \union Maximal(n .. Num(r.end), r.long)
    BY <1>1, <1>5, MaximalCut
<1> QED
    BY <1>1, <1>6, <1>7, MaximalOfNone DEF k

-----------------------------------------------------------------------------
(* Ranges with gaps between them. *)

(* In order, and between every two of them an address that is in neither.  *)
Apart(seq) ==
    \A i, j \in DOMAIN seq :
        i < j => Num(seq[i].end) + 1 < Num(seq[j].start)

(* The addresses of a list of ranges of one family. *)
LEMMA SpansAre ==
    ASSUME NEW seq \in Seq(IpRange), NEW long \in BOOLEAN,
           \A i \in DOMAIN seq : seq[i].long = long, NEW n
    PROVE  n \in SpansOf(seq, long)
              <=> \E i \in DOMAIN seq : n \in Span(seq[i])
BY DEF SpansOf

(* An aligned block does not reach across a gap. *)
LEMMA BlockInOne ==
    ASSUME NEW seq \in Seq(IpRange), NEW long \in BOOLEAN, Apart(seq),
           \A j \in DOMAIN seq : seq[j].long = long,
           NEW i \in DOMAIN seq, NEW n \in Span(seq[i]), NEW k \in Nat
    PROVE  Aligned(n, k) \subseteq SpansOf(seq, long)
               <=> Aligned(n, k) \subseteq Span(seq[i])
<1>1. \A j \in DOMAIN seq :
          /\ j \in Nat /\ Num(seq[j].start) \in Nat /\ Num(seq[j].end) \in Nat
          /\ Num(seq[j].start) <= Num(seq[j].end)
          /\ Span(seq[j]) = Num(seq[j].start) .. Num(seq[j].end)
    <2> TAKE j \in DOMAIN seq
    <2> seq[j] \in IpRange /\ j \in Nat
        OBVIOUS
    <2> QED
        BY RangeFields DEF Span
<1> DEFINE a == Num(seq[i].start)
           b == Num(seq[i].end)
<1>2. a \in Nat /\ b \in Nat /\ n \in Nat /\ a <= n /\ n <= b
    BY <1>1
<1>3. PICK f \in Nat :
          /\ Aligned(n, k) = f .. (f + Pow2[k] - 1)
          /\ f <= n /\ n < f + Pow2[k]
    BY <1>2, AlignedIs
<1> DEFINE g == f + Pow2[k] - 1
<1>4. g \in Int /\ n <= g
    BY <1>2, <1>3, PowerType
<1> HIDE DEF g
<1>5. Aligned(n, k) = f .. g
    BY <1>3 DEF g
<1>6. \A j \in DOMAIN seq : j < i \/ j = i \/ i < j
    BY <1>1
<1>7. b + 1 \notin SpansOf(seq, long)
    <2> SUFFICES ASSUME NEW j \in DOMAIN seq, b + 1 \in Span(seq[j])
                 PROVE  FALSE
        BY SpansAre
    <2>1. Num(seq[j].start) <= b + 1 /\ b + 1 <= Num(seq[j].end)
        BY <1>1, <1>2
    <2>2. CASE j < i
        <3> Num(seq[j].end) + 1 < a
            BY <2>2 DEF Apart
        <3> QED
            BY <1>1, <1>2, <2>1
    <2>3. CASE i < j
        <3> b + 1 < Num(seq[j].start)
            BY <2>3 DEF Apart
        <3> QED
            BY <1>1, <1>2, <2>1
    <2>4. CASE j = i
        BY <1>2, <2>1, <2>4
    <2> QED
        BY <1>6, <2>2, <2>3, <2>4
<1>8. a - 1 \notin SpansOf(seq, long)
    <2> SUFFICES ASSUME NEW j \in DOMAIN seq, a - 1 \in Span(seq[j])
                 PROVE  FALSE
        BY SpansAre
    <2>1. Num(seq[j].start) <= a - 1 /\ a - 1 <= Num(seq[j].end)
        BY <1>1, <1>2
    <2>2. CASE j < i
        <3> Num(seq[j].end) + 1 < a
            BY <2>2 DEF Apart
        <3> QED
            BY <1>1, <1>2, <2>1
    <2>3. CASE i < j
        <3> b + 1 < Num(seq[j].start)
            BY <2>3 DEF Apart
        <3> QED
            BY <1>1, <1>2, <2>1
    <2>4. CASE j = i
        BY <1>2, <2>1, <2>4
    <2> QED
        BY <1>6, <2>2, <2>3, <2>4
<1>9. ASSUME Aligned(n, k) \subseteq SpansOf(seq, long)
      PROVE  Aligned(n, k) \subseteq Span(seq[i])
    <2>1. ~(g > b)
        <3> SUFFICES ASSUME g > b PROVE FALSE
            OBVIOUS
        <3> b + 1 \in f .. g
            BY <1>2, <1>3, <1>4
        <3> QED
            BY <1>5, <1>7, <1>9
    <2>2. ~(f < a)
        <3> SUFFICES ASSUME f < a PROVE FALSE
            OBVIOUS
        <3> a - 1 \in f .. g
            BY <1>2, <1>3, <1>4
        <3> QED
            BY <1>5, <1>8, <1>9
    <2>3. f .. g \subseteq a .. b
        BY <1>2, <1>4, <2>1, <2>2
    <2> QED
        BY <1>1, <1>5, <2>3
<1>10. Span(seq[i]) \subseteq SpansOf(seq, long)
    BY SpansAre
<1> QED
    BY <1>9, <1>10

(* So the maximal blocks of them all are those of each.                    *)
LEMMA MaximalOfAll ==
    ASSUME NEW seq \in Seq(IpRange), NEW long \in BOOLEAN, Apart(seq),
           \A j \in DOMAIN seq : seq[j].long = long
    PROVE  Maximal(SpansOf(seq, long), long) =
               UNION {Maximal(Span(seq[i]), long) : i \in DOMAIN seq}
<1> DEFINE K == SpansOf(seq, long)
           w == Bits(long)
<1>1. w \in Nat /\ w = Bits(long)
    BY BitsType
<1> HIDE DEF w
<1>2. ASSUME NEW i \in DOMAIN seq, NEW n \in Span(seq[i]), NEW k \in 0 .. w
      PROVE  IsMaximal(n, k, K, long) <=> IsMaximal(n, k, Span(seq[i]), long)
    <2>1. k \in Nat /\ k + 1 \in Nat
        BY <1>1
    <2>2. Aligned(n, k) \subseteq K <=> Aligned(n, k) \subseteq Span(seq[i])
        BY <2>1, BlockInOne
    <2>3. Aligned(n, k + 1) \subseteq K
              <=> Aligned(n, k + 1) \subseteq Span(seq[i])
        BY <2>1, BlockInOne
    <2> HIDE DEF K
    <2> QED
        BY <2>2, <2>3 DEF IsMaximal
<1>3. \A n : n \in K <=> \E i \in DOMAIN seq : n \in Span(seq[i])
    BY SpansAre
<1> HIDE DEF K
<1>4. ASSUME NEW x \in Maximal(K, long)
      PROVE  \E i \in DOMAIN seq : x \in Maximal(Span(seq[i]), long)
    <2>1. x \in K \X (0 .. w) /\ IsMaximal(x[1], x[2], K, long)
        BY <1>1 DEF Maximal
    <2>2. x[1] \in K /\ x[2] \in 0 .. w /\ x = <<x[1], x[2]>>
        BY <2>1
    <2>3. PICK i \in DOMAIN seq : x[1] \in Span(seq[i])
        BY <1>3, <2>2
    <2>4. IsMaximal(x[1], x[2], Span(seq[i]), long)
        BY <1>2, <2>1, <2>2, <2>3
    <2>5. x \in Span(seq[i]) \X (0 .. w)
        BY <2>2, <2>3
    <2> QED
        BY <1>1, <2>4, <2>5 DEF Maximal
<1>5. ASSUME NEW i \in DOMAIN seq, NEW x \in Maximal(Span(seq[i]), long)
      PROVE  x \in Maximal(K, long)
    <2>1. /\ x \in Span(seq[i]) \X (0 .. w)
          /\ IsMaximal(x[1], x[2], Span(seq[i]), long)
        BY <1>1 DEF Maximal
    <2>2. x[1] \in Span(seq[i]) /\ x[2] \in 0 .. w /\ x = <<x[1], x[2]>>
        BY <2>1
    <2>3. IsMaximal(x[1], x[2], K, long)
        BY <1>2, <2>1, <2>2
    <2>4. x \in K \X (0 .. w)
        BY <1>3, <2>2
    <2> QED
        BY <1>1, <2>3, <2>4 DEF Maximal
<1> QED
    BY <1>4, <1>5 DEF K

-----------------------------------------------------------------------------
(* What is left of a feed when its first line is done. *)

(* The addresses that a parser can read, by line. *)
LEMMA AddressesAre ==
    ASSUME NEW reader, NEW seq, NEW long, NEW n
    PROVE  n \in Addresses(reader, seq, long) <=>
              \E i \in DOMAIN seq :
                  /\ Result(reader, seq[i]) = "parsed" /\ seq[i].long = long
                  /\ n \in Span(seq[i])
BY DEF Addresses, Turned

(* The addresses of the first line and those of the others. *)
LEMMA AddressesStep ==
    ASSUME NEW reader, NEW seq \in Seq(Line), seq # << >>, NEW long
    PROVE  Addresses(reader, seq, long) =
              (IF Result(reader, Head(seq)) = "parsed" /\ Head(seq).long = long
               THEN Span(Head(seq)) ELSE {})
              \union Addresses(reader, Tail(seq), long)
<1> DEFINE t == Tail(seq)
<1>1. /\ Len(seq) \in Nat /\ Len(seq) > 0 /\ DOMAIN seq = 1 .. Len(seq)
      /\ Head(seq) = seq[1]
      /\ DOMAIN t = 1 .. (Len(seq) - 1)
      /\ \A i \in 1 .. (Len(seq) - 1) : t[i] = seq[i + 1]
    BY TailIs
<1> HIDE DEF t
<1>2. \A i \in DOMAIN t : i + 1 \in DOMAIN seq /\ t[i] = seq[i + 1]
    BY <1>1
<1>3. \A i \in DOMAIN seq :
          i = 1 \/ (i - 1 \in DOMAIN t /\ seq[i] = t[i - 1])
    <2> SUFFICES ASSUME NEW i \in DOMAIN seq, i # 1
                 PROVE  i - 1 \in DOMAIN t /\ seq[i] = t[i - 1]
        OBVIOUS
    <2>1. i - 1 \in 1 .. (Len(seq) - 1) /\ (i - 1) + 1 = i
        BY <1>1
    <2> QED
        BY <1>1, <2>1
<1>4. 1 \in DOMAIN seq
    BY <1>1
<1> DEFINE Has(i, s, n) == /\ Result(reader, s[i]) = "parsed"
                           /\ s[i].long = long /\ n \in Span(s[i])
<1>5. \A n : (\E i \in DOMAIN seq : Has(i, seq, n))
               <=> Has(1, seq, n) \/ \E i \in DOMAIN t : Has(i, t, n)
    <2> TAKE n
    <2>1. ASSUME NEW i \in DOMAIN seq, Has(i, seq, n), i # 1
          PROVE  \E j \in DOMAIN t : Has(j, t, n)
        <3> i - 1 \in DOMAIN t /\ seq[i] = t[i - 1]
            BY <1>3, <2>1
        <3> Has(i - 1, t, n)
            BY <2>1
        <3> QED
            OBVIOUS
    <2>2. ASSUME NEW i \in DOMAIN t, Has(i, t, n)
          PROVE  \E j \in DOMAIN seq : Has(j, seq, n)
        <3> i + 1 \in DOMAIN seq /\ t[i] = seq[i + 1]
            BY <1>2
        <3> Has(i + 1, seq, n)
            BY <2>2
        <3> QED
            OBVIOUS
    <2> HIDE DEF Has
    <2> QED
        BY <1>4, <2>1, <2>2
<1>6. \A n : n \in Addresses(reader, seq, long) <=>
                 Has(1, seq, n) \/ n \in Addresses(reader, t, long)
    <2> TAKE n
    <2>1. n \in Addresses(reader, seq, long)
              <=> \E i \in DOMAIN seq : Has(i, seq, n)
        BY AddressesAre
    <2>2. n \in Addresses(reader, t, long)
              <=> \E i \in DOMAIN t : Has(i, t, n)
        BY AddressesAre
    <2> HIDE DEF Has
    <2> QED
        BY <1>5, <2>1, <2>2
<1> QED
    BY <1>1, <1>6 DEF t

(* Places move up by one. *)
LEMMA TurnedStep ==
    ASSUME NEW reader, NEW seq \in Seq(Line), seq # << >>, NEW result
    PROVE  /\ Cardinality(Turned(reader, seq, result)) =
                (IF Result(reader, Head(seq)) = result THEN 1 ELSE 0)
                  + Cardinality(Turned(reader, Tail(seq), result))
           /\ Cardinality(Turned(reader, Tail(seq), result)) \in Nat
<1> DEFINE t == Tail(seq)
           S == Turned(reader, seq, result) \ {1}
           T == Turned(reader, t, result)
<1>1. /\ Len(seq) \in Nat /\ Len(seq) > 0 /\ DOMAIN seq = 1 .. Len(seq)
      /\ Head(seq) = seq[1]
      /\ DOMAIN t = 1 .. (Len(seq) - 1)
      /\ \A i \in 1 .. (Len(seq) - 1) : t[i] = seq[i + 1]
    BY TailIs
<1> HIDE DEF t
<1>2. IsFiniteSet(T) /\ IsFiniteSet(S)
    <2>1. IsFiniteSet(DOMAIN t) /\ IsFiniteSet(DOMAIN seq)
        BY <1>1, FS_Interval
    <2>2. T \subseteq DOMAIN t /\ S \subseteq DOMAIN seq
        BY DEF Turned
    <2> QED
        BY <2>1, <2>2, FS_Subset
<1> DEFINE f == [i \in S |-> i - 1]
<1>3. \A i : i \in S <=> i \in 2 .. Len(seq) /\ Result(reader, seq[i]) = result
    BY <1>1 DEF Turned
<1>4. \A i : i \in T <=> /\ i \in 1 .. (Len(seq) - 1)
                         /\ Result(reader, seq[i + 1]) = result
    BY <1>1 DEF Turned
<1>5. f \in Bijection(S, T)
    <2>1. \A i \in S : i - 1 \in T
        <3> TAKE i \in S
        <3> i - 1 \in 1 .. (Len(seq) - 1) /\ (i - 1) + 1 = i
            BY <1>1, <1>3
        <3> QED
            BY <1>3, <1>4
    <2>2. \A j \in T : j + 1 \in S /\ (j + 1) - 1 = j
        BY <1>1, <1>3, <1>4
    <2>3. \A i, j \in S : i - 1 = j - 1 => i = j
        BY <1>1, <1>3
    <2> HIDE DEF S, T
    <2>4. f \in [S -> T]
        BY <2>1
    <2>5. \A i, j \in S : f[i] = f[j] => i = j
        BY <2>3
    <2>6. \A j \in T : \E i \in S : f[i] = j
        BY <2>2
    <2> HIDE DEF f
    <2>7. f \in Injection(S, T)
        BY <2>4, <2>5 DEF Injection, IsInjective
    <2>8. f \in Surjection(S, T)
        BY <2>4, <2>6 DEF Surjection
    <2> QED
        BY <2>7, <2>8 DEF Bijection
<1> HIDE DEF f
<1>6. Cardinality(S) = Cardinality(T) /\ Cardinality(T) \in Nat
    <2> HIDE DEF S, T
    <2>1. ExistsBijection(S, T)
        BY <1>5 DEF ExistsBijection
    <2> QED
        BY <1>2, <2>1, FS_Bijection, FS_CardinalityType
<1>7. CASE Result(reader, Head(seq)) = result
    <2>1. Turned(reader, seq, result) = S \union {1} /\ 1 \notin S
        BY <1>1, <1>7 DEF Turned
    <2> HIDE DEF S, T
    <2>2. Cardinality(S \union {1}) = Cardinality(S) + 1
        BY <1>2, <2>1, FS_AddElement
    <2> QED
        BY <1>6, <1>7, <2>1, <2>2 DEF T, t
<1>8. CASE Result(reader, Head(seq)) # result
    <2>1. Turned(reader, seq, result) = S
        BY <1>1, <1>8 DEF Turned
    <2> HIDE DEF S, T
    <2> QED
        BY <1>6, <1>8, <2>1 DEF T, t
<1> QED
    BY <1>6, <1>7, <1>8 DEF T, t

(* The blocks that a parser can read, by line. *)
LEMMA PiecesAre ==
    ASSUME NEW reader, NEW seq, NEW x
    PROVE  x \in Pieces(reader, seq) <=>
              \E i \in DOMAIN seq :
                  /\ Result(reader, seq[i]) = "parsed"
                  /\ x \in {i} \X Maximal(Span(seq[i]), seq[i].long)
BY DEF Pieces, Turned

(* There are finitely many of them. *)
LEMMA PiecesFinite ==
    ASSUME NEW reader, NEW seq \in Seq(Line)
    PROVE  IsFiniteSet(Pieces(reader, seq))
<1> DEFINE A == 0 .. (Modulus * Modulus)
           H == 0 .. LongBits
           D == DOMAIN seq
<1>1. IsFiniteSet(A) /\ IsFiniteSet(H) /\ IsFiniteSet(D)
    <2> D = 1 .. Len(seq) /\ Len(seq) \in Nat
        OBVIOUS
    <2> QED
        BY Widths, FS_Interval
<1>2. ASSUME NEW i \in D
      PROVE  Maximal(Span(seq[i]), seq[i].long) \subseteq A \X H
    <2>1. seq[i] \in Line
        BY <1>2
    <2>2. /\ Num(seq[i].start) \in Nat /\ Num(seq[i].end) \in Nat
          /\ Num(seq[i].end) < Modulus * Modulus
          /\ seq[i].long \in BOOLEAN
        BY <2>1, LineFields, NumType
    <2>3. Span(seq[i]) \subseteq A
        BY <2>2, Widths DEF Span
    <2>4. 0 .. Bits(seq[i].long) \subseteq H
        BY <2>2, BitsType, Widths
    <2> HIDE DEF A, H
    <2> QED
        BY <2>3, <2>4 DEF Maximal
<1> HIDE DEF A, H, D
<1>3. IsFiniteSet(D \X (A \X H))
    BY <1>1, FS_Product
<1>4. Pieces(reader, seq) \subseteq D \X (A \X H)
    <2> SUFFICES ASSUME NEW x \in Pieces(reader, seq)
                 PROVE  x \in D \X (A \X H)
        OBVIOUS
    <2>1. PICK i \in D : x \in {i} \X Maximal(Span(seq[i]), seq[i].long)
        BY PiecesAre DEF D
    <2> QED
        BY <1>2, <2>1
<1> QED
    BY <1>3, <1>4, FS_Subset

(* The pieces of the first line, and as many as those of the others.       *)
LEMMA PiecesStep ==
    ASSUME NEW reader, NEW seq \in Seq(Line), seq # << >>
    PROVE  /\ Cardinality(Pieces(reader, seq)) =
                (IF Result(reader, Head(seq)) = "parsed"
                 THEN Cardinality(Maximal(Span(Head(seq)), Head(seq).long))
                 ELSE 0)
                  + Cardinality(Pieces(reader, Tail(seq)))
           /\ Cardinality(Pieces(reader, Tail(seq))) \in Nat
           /\ Cardinality(Maximal(Span(Head(seq)), Head(seq).long)) \in Nat
<1> DEFINE t == Tail(seq)
           h == Head(seq)
           P == Pieces(reader, seq)
           T == Pieces(reader, t)
           M == Maximal(Span(h), h.long)
           First == IF Result(reader, h) = "parsed" THEN {1} \X M ELSE {}
           Up == P \ First
<1>1. /\ Len(seq) \in Nat /\ Len(seq) > 0 /\ DOMAIN seq = 1 .. Len(seq)
      /\ h = seq[1] /\ h \in Line /\ t \in Seq(Line)
      /\ DOMAIN t = 1 .. (Len(seq) - 1)
      /\ \A i \in 1 .. (Len(seq) - 1) : t[i] = seq[i + 1]
    BY TailIs
<1> HIDE DEF t, h
<1>2. /\ IsFiniteSet(M) /\ Cardinality(M) \in Nat
      /\ IsFiniteSet(P) /\ IsFiniteSet(T)
    <2>1. h.long \in BOOLEAN /\ Num(h.start) \in Int /\ Num(h.end) \in Int
        BY <1>1, LineFields
    <2>2. IsFiniteSet(M)
        BY <2>1, MaximalFinite DEF Span
    <2> HIDE DEF M
    <2> QED
        BY <1>1, <2>2, PiecesFinite, FS_CardinalityType
<1> HIDE DEF M
<1>3. \A x : x \in P <=>
          \E i \in 1 .. Len(seq) :
              /\ Result(reader, seq[i]) = "parsed"
              /\ x \in {i} \X Maximal(Span(seq[i]), seq[i].long)
    BY <1>1, PiecesAre
<1>4. \A x : x \in T <=>
          \E i \in 1 .. (Len(seq) - 1) :
              /\ Result(reader, seq[i + 1]) = "parsed"
              /\ x \in {i} \X Maximal(Span(seq[i + 1]), seq[i + 1].long)
    <2>1. \A x : x \in T <=>
              \E i \in DOMAIN t :
                  /\ Result(reader, t[i]) = "parsed"
                  /\ x \in {i} \X Maximal(Span(t[i]), t[i].long)
        BY PiecesAre
    <2> HIDE DEF T
    <2> QED
        BY <1>1, <2>1
<1> HIDE DEF P, T
<1>5. First \subseteq P
    BY <1>1, <1>3 DEF M
<1>6. \A x : x \in Up <=>
          \E i \in 2 .. Len(seq) :
              /\ Result(reader, seq[i]) = "parsed"
              /\ x \in {i} \X Maximal(Span(seq[i]), seq[i].long)
    <2>1. ASSUME NEW x \in Up
          PROVE  \E i \in 2 .. Len(seq) :
                    /\ Result(reader, seq[i]) = "parsed"
                    /\ x \in {i} \X Maximal(Span(seq[i]), seq[i].long)
        <3>1. PICK i \in 1 .. Len(seq) :
                  /\ Result(reader, seq[i]) = "parsed"
                  /\ x \in {i} \X Maximal(Span(seq[i]), seq[i].long)
            BY <1>3
        <3>2. i # 1
            BY <1>1, <3>1 DEF M
        <3>3. i \in 2 .. Len(seq)
            BY <3>2
        <3> QED
            BY <3>1, <3>3
    <2>2. ASSUME NEW x, NEW i \in 2 .. Len(seq),
                 Result(reader, seq[i]) = "parsed",
                 x \in {i} \X Maximal(Span(seq[i]), seq[i].long)
          PROVE  x \in Up
        <3>1. i \in 1 .. Len(seq)
            BY <1>1
        <3>2. x \in P
            BY <1>3, <2>2, <3>1
        <3>3. x[1] = i /\ i # 1
            BY <2>2
        <3>4. x \notin First
            BY <3>3
        <3> QED
            BY <3>2, <3>4
    <2> QED
        BY <2>1, <2>2
<1>7. IsFiniteSet(Up)
    BY <1>2, FS_Subset
<1>8. P = First \union Up /\ First \intersect Up = {}
    BY <1>5
<1>9. IsFiniteSet(First)
    BY <1>2, <1>5, FS_Subset
<1>10. Cardinality(First)
          = IF Result(reader, h) = "parsed" THEN Cardinality(M) ELSE 0
    <2>1. Cardinality({1} \X M) = Cardinality(M)
        <3>1. IsFiniteSet({1}) /\ Cardinality({1}) = 1
            BY FS_Singleton
        <3>2. Cardinality({1} \X M) = 1 * Cardinality(M)
            BY <1>2, <3>1, FS_Product
        <3> QED
            BY <1>2, <3>2
    <2> QED
        BY <2>1, FS_EmptySet
<1> HIDE DEF First, Up
<1>11. Cardinality(Up) = Cardinality(T) /\ Cardinality(T) \in Nat
    <2> DEFINE f == [x \in T |-> <<x[1] + 1, x[2]>>]
    <2>1. \A x \in T : f[x] \in Up
        <3> TAKE x \in T
        <3>1. PICK i \in 1 .. (Len(seq) - 1) :
                  /\ Result(reader, seq[i + 1]) = "parsed"
                  /\ x \in {i} \X Maximal(Span(seq[i + 1]), seq[i + 1].long)
            BY <1>4
        <3>2. i + 1 \in 2 .. Len(seq) /\ x[1] = i
            BY <1>1, <3>1
        <3>3. x[2] \in Maximal(Span(seq[i + 1]), seq[i + 1].long)
            BY <3>1
        <3>4. <<x[1] + 1, x[2]>> \in
                  {i + 1} \X Maximal(Span(seq[i + 1]), seq[i + 1].long)
            BY <3>2, <3>3
        <3> QED
            BY <1>6, <3>1, <3>2, <3>4
    <2>2. \A x \in T : x = <<x[1], x[2]>> /\ x[1] \in Int
        BY <1>4
    <2>3. \A x, y \in T : f[x] = f[y] => x = y
        <3> SUFFICES ASSUME NEW x \in T, NEW y \in T, f[x] = f[y]
                     PROVE  x = y
            OBVIOUS
        <3>1. <<x[1] + 1, x[2]>> = <<y[1] + 1, y[2]>>
            OBVIOUS
        <3>2. x[1] + 1 = y[1] + 1 /\ x[2] = y[2]
            BY <3>1
        <3>3. x[1] = y[1]
            BY <2>2, <3>2
        <3> QED
            BY <2>2, <3>2, <3>3
    <2>4. \A y \in Up : \E x \in T : f[x] = y
        <3> TAKE y \in Up
        <3>1. PICK i \in 2 .. Len(seq) :
                  /\ Result(reader, seq[i]) = "parsed"
                  /\ y \in {i} \X Maximal(Span(seq[i]), seq[i].long)
            BY <1>6
        <3> DEFINE j == i - 1
        <3>2. j \in 1 .. (Len(seq) - 1) /\ j + 1 = i
            BY <1>1
        <3> HIDE DEF j
        <3>3. y = <<i, y[2]>>
            BY <3>1
        <3>4. y[2] \in Maximal(Span(seq[j + 1]), seq[j + 1].long)
            BY <3>1, <3>2
        <3>5. <<j, y[2]>> \in
                  {j} \X Maximal(Span(seq[j + 1]), seq[j + 1].long)
            BY <3>4
        <3>6. <<j, y[2]>> \in T
            <4> Result(reader, seq[j + 1]) = "parsed"
                BY <3>1, <3>2
            <4> QED
                BY <1>4, <3>2, <3>5
        <3>7. f[<<j, y[2]>>] = <<j + 1, y[2]>>
            BY <3>6
        <3> QED
            BY <3>2, <3>3, <3>6, <3>7
    <2>5. f \in [T -> Up]
        <3>1. f = [x \in T |-> f[x]]
            OBVIOUS
        <3> HIDE DEF f
        <3> QED
            BY <2>1, <3>1
    <2> HIDE DEF f
    <2>6. f \in Injection(T, Up)
        BY <2>3, <2>5 DEF Injection, IsInjective
    <2>7. f \in Surjection(T, Up)
        BY <2>4, <2>5 DEF Surjection
    <2>8. ExistsBijection(T, Up)
        BY <2>6, <2>7 DEF ExistsBijection, Bijection
    <2> QED
        BY <1>2, <2>8, FS_Bijection, FS_CardinalityType
<1>12. Cardinality(P) = Cardinality(First) + Cardinality(Up)
    <2>1. /\ Cardinality(First \union Up) =
                Cardinality(First) + Cardinality(Up)
                  - Cardinality(First \intersect Up)
          /\ Cardinality(First) \in Nat /\ Cardinality(Up) \in Nat
        BY <1>7, <1>9, FS_Union, FS_CardinalityType
    <2>2. Cardinality(First \intersect Up) = 0
        BY <1>8, FS_EmptySet
    <2> QED
        BY <1>8, <2>1, <2>2
<1> QED
    BY <1>2, <1>10, <1>11, <1>12 DEF P, T, M, t, h

-----------------------------------------------------------------------------
(* The parser. *)

(* The addresses of a list of prefixes and one more. *)
LEMMA BlocksAppend ==
    ASSUME NEW seq \in Seq(Prefix), NEW p \in Prefix, NEW long
    PROVE  BlocksOf(Append(seq, p), long) =
              BlocksOf(seq, long)
                \union (IF p.long = long THEN Block(p) ELSE {})
<1> DEFINE t == Append(seq, p)
<1>1. /\ Len(seq) \in Nat /\ DOMAIN seq = 1 .. Len(seq)
      /\ DOMAIN t = 1 .. (Len(seq) + 1)
      /\ \A i \in 1 .. Len(seq) : t[i] = seq[i]
      /\ t[Len(seq) + 1] = p
    BY AppendIs
<1> HIDE DEF t
<1>2. \A i \in DOMAIN t : i = Len(seq) + 1 \/ i \in DOMAIN seq
    BY <1>1
<1>3. \A i \in DOMAIN seq : i \in DOMAIN t /\ t[i] = seq[i]
    BY <1>1
<1>4. Len(seq) + 1 \in DOMAIN t
    BY <1>1
<1>5. \A n : n \in BlocksOf(t, long) <=>
                 n \in BlocksOf(seq, long)
                     \/ (p.long = long /\ n \in Block(p))
    <2> TAKE n
    <2>1. n \in BlocksOf(t, long) <=>
              \E i \in DOMAIN t : t[i].long = long /\ n \in Block(t[i])
        BY DEF BlocksOf
    <2>2. n \in BlocksOf(seq, long) <=>
              \E i \in DOMAIN seq : seq[i].long = long /\ n \in Block(seq[i])
        BY DEF BlocksOf
    <2> QED
        BY <1>1, <1>2, <1>3, <1>4, <2>1, <2>2
<1> QED
    BY <1>5 DEF t

(* What becomes of a range does not depend on where its cursor is. *)
LEMMA SameResult ==
    ASSUME NEW reader, NEW l, NEW m, l.kind = m.kind, IsRange(l), IsRange(m)
    PROVE  Result(reader, l) = Result(reader, m)
BY DEF Result, Columns

(* A block that goes out is one piece less. *)
LEMMA EmitCounts ==
    ASSUME NEW l \in Line, IsRange(l)
    PROVE  LET next == AddPow2(l.start, Size(l))
               rest == [l EXCEPT !.start = next.sum]
           IN  /\ next.carry \/ Below(l.end, next.sum) =>
                     Cardinality(Maximal(Span(l), l.long)) = 1
               /\ ~(next.carry \/ Below(l.end, next.sum)) =>
                     /\ Cardinality(Maximal(Span(l), l.long)) =
                           1 + Cardinality(Maximal(Span(rest), l.long))
                     /\ Cardinality(Maximal(Span(rest), l.long)) \in Nat
<1> DEFINE r == [long |-> l.long, start |-> l.start, end |-> l.end]
           k == Size(l)
           next == AddPow2(l.start, k)
           rest == [l EXCEPT !.start = next.sum]
           s == Num(l.start)
           e == Num(l.end)
           n == s + Pow2[k]
<1>1. /\ l.long \in BOOLEAN /\ l.start \in Uint /\ l.end \in Uint
      /\ s \in Nat /\ e \in Nat /\ e < Pow2[Bits(l.long)]
      /\ Pow2[Bits(l.long)] \in Nat
      /\ Pow2[Bits(l.long)] <= Modulus * Modulus
      /\ Modulus * Modulus \in Nat
      /\ Fits(l, k) /\ s <= e
    BY LineFields, RangeOfLine, BitsType, Widths
<1>2. r \in IpRange
    BY <1>1, MakeRange
<1> HIDE DEF k
<1>3. Fits(r, k)
    BY <1>1 DEF Fits
<1>4. r.long = l.long /\ r.start = l.start /\ r.end = l.end
    OBVIOUS
<1> HIDE DEF r
<1>5. k \in Nat /\ k <= LongBits /\ n \in Nat /\ n <= e + 1
    BY <1>2, <1>3, <1>4, CutIs
<1>6. /\ Maximal(Span(r), l.long) = {<<s, k>>} \union Maximal(n .. e, l.long)
      /\ <<s, k>> \notin Maximal(n .. e, l.long)
    BY <1>2, <1>3, <1>4, MaximalCut
<1>7. Span(r) = Span(l)
    BY <1>4 DEF Span
<1>8. /\ next.sum \in Uint
      /\ next.carry <=> n >= Modulus * Modulus
      /\ ~next.carry => Num(next.sum) = n
    BY <1>1, <1>5, AddPow2Is
<1>9. rest.start = next.sum /\ rest.end = l.end
    BY DEF Line
<1> DEFINE M == Maximal(n .. e, l.long)
<1>10. IsFiniteSet(M)
    BY <1>1, <1>5, MaximalFinite
<1> HIDE DEF n, next, rest, M, s, e
<1>11. Cardinality(Maximal(Span(l), l.long)) = Cardinality(M) + 1
    <2> <<s, k>> \notin M /\ Maximal(Span(l), l.long) = M \union {<<s, k>>}
        BY <1>6, <1>7 DEF M
    <2> QED
        BY <1>10, FS_AddElement
<1>12. Cardinality(M) \in Nat
    BY <1>10, FS_CardinalityType
<1>13. ASSUME next.carry \/ Below(l.end, next.sum)
       PROVE  Cardinality(Maximal(Span(l), l.long)) = 1
    <2>1. n > e
        BY <1>1, <1>5, <1>8, <1>13, BelowIsLess DEF e
    <2>2. n .. e = {}
        BY <1>1, <1>5, <2>1
    <2>3. M = {}
        BY <2>2, MaximalOfNone DEF M
    <2> QED
        BY <1>11, <1>12, <2>3, FS_EmptySet
<1>14. ASSUME ~(next.carry \/ Below(l.end, next.sum))
       PROVE  M = Maximal(Span(rest), l.long)
    <2> Num(next.sum) = n
        BY <1>8, <1>14
    <2> QED
        BY <1>9 DEF M, Span, e
<1> QED
    BY <1>11, <1>12, <1>13, <1>14 DEF rest, next, k

(* What was read and what is left make up what was offered. *)
Balance ==
    LET offered == Offered(parser, lines)
    IN  /\ \A long \in BOOLEAN :
              BlocksOf(parsed, long) \union Addresses(parser, entries, long)
                 = Addresses(parser, offered, long)
        /\ Len(parsed) + Cardinality(Pieces(parser, entries))
              = Cardinality(Pieces(parser, offered))
        /\ rejected + Cardinality(Turned(parser, entries, "rejected"))
              = Cardinality(Turned(parser, offered, "rejected"))

(* The invariant of the parsers: the books balance from the moment that    *)
(* reading begins.                                                         *)
Reading ==
    /\ ParserTypeOK
    /\ lines \in Seq(Line)
    /\ parser = NoParser => ~header
    /\ parser = NoParser \/ header =>
          entries = lines /\ parsed = << >> /\ rejected = 0
    /\ parser # NoParser => parser \in Choosable(lines)
    /\ header => parser.name = "csv"
    /\ parser # NoParser /\ ~header => Balance

(* How many lines have a result is a number. *)
LEMMA TurnedType ==
    ASSUME NEW reader, NEW seq \in Seq(Line), NEW result
    PROVE  Cardinality(Turned(reader, seq, result)) \in Nat
<1> DEFINE D == DOMAIN seq
           T == Turned(reader, seq, result)
<1>1. IsFiniteSet(D)
    <2> D = 1 .. Len(seq) /\ Len(seq) \in Nat
        OBVIOUS
    <2> QED
        BY FS_Interval
<1>2. T \subseteq D
    BY DEF Turned
<1> HIDE DEF D, T
<1>3. Cardinality(T) \in Nat
    BY <1>1, <1>2, FS_Subset, FS_CardinalityType
<1> QED
    BY <1>3 DEF T

(* A csv parser is chosen for a feed with lines. *)
LEMMA CsvHasLines ==
    ASSUME NEW ls \in Seq(Line), NEW p \in Choosable(ls), p.name = "csv"
    PROVE  ls # << >>
<1>1. LineParser(ls).name # "csv"
    BY DEF LineParser, Named
<1>2. ~(Votes(ls, "plain") + Votes(ls, "range") + Votes(ls, "spamhaus")
            >= Votes(ls, "csv"))
    BY <1>1 DEF Choosable
<1>3. Votes(ls, "csv") > 0
    BY <1>2, VotesAre
<1>4. \E i \in DOMAIN Window(ls) : Label(ls[i]) = "csv"
    BY <1>3, VotesAre
<1>5. \E i : i \in DOMAIN ls
    BY <1>4, WindowIs
<1> QED
    BY <1>5

(* After the choice nothing is read yet; a csv parser skips the heading    *)
(* first.                                                                  *)
LEMMA BalanceAtStart ==
    ASSUME NEW reader, NEW seq \in Seq(Line)
    PROVE  /\ \A long : BlocksOf(<< >>, long) = {}
           /\ Len(<< >>) + Cardinality(Pieces(reader, seq))
                 = Cardinality(Pieces(reader, seq))
           /\ 0 + Cardinality(Turned(reader, seq, "rejected"))
                 = Cardinality(Turned(reader, seq, "rejected"))
<1>1. \A long : BlocksOf(<< >>, long) = {}
    BY DEF BlocksOf
<1>2. Cardinality(Pieces(reader, seq)) \in Nat
    BY PiecesFinite, FS_CardinalityType
<1>3. Cardinality(Turned(reader, seq, "rejected")) \in Nat
    BY TurnedType
<1>4. Len(<< >>) = 0
    OBVIOUS
<1> QED
    BY <1>1, <1>2, <1>3, <1>4

(* Nothing is read at the start. *)
LEMMA ReadingInit == Init => Reading
<1> SUFFICES ASSUME Init PROVE Reading
    OBVIOUS
<1>1. lines \in Seq(Line)
    BY ListAssumption DEF Init
<1>2. /\ parser = NoParser /\ header = FALSE /\ entries = lines
      /\ parsed = << >> /\ rejected = 0
    BY DEF Init, ParserInit
<1>3. ParserTypeOK
    <2> << >> \in Seq(Prefix)
        OBVIOUS
    <2> QED
        BY <1>1, <1>2 DEF ParserTypeOK
<1> QED
    BY <1>1, <1>2, <1>3 DEF Reading

(* The vote leaves the lines as they are. *)
LEMMA ReadingChoose ==
    ASSUME Reading, Choose, UNCHANGED lines
    PROVE  Reading'
<1>1. /\ entries = lines /\ parsed = << >> /\ rejected = 0
      /\ lines \in Seq(Line) /\ ParserTypeOK
    BY DEF Reading, Choose
<1>2. /\ parser' \in Choosable(lines) /\ header' = (parser'.name = "csv")
      /\ entries' = lines /\ parsed' = << >> /\ rejected' = 0
      /\ lines' = lines
    BY <1>1 DEF Choose
<1>3. parser' \in Parser /\ NoParser \notin Parser
    <2> NoParser \notin Parser
        BY DEF NoParser, Parser
    <2> QED
        BY <1>2, ChoosableType
<1>4. header' \in BOOLEAN
    BY <1>2
<1>5. ParserTypeOK'
    BY <1>1, <1>2, <1>3, <1>4 DEF ParserTypeOK
<1>6. ASSUME ~header' PROVE Balance'
    <2>1. Offered(parser', lines') = lines
        BY <1>2, <1>6 DEF Offered
    <2>2. /\ \A long : BlocksOf(parsed', long) = {}
          /\ Len(parsed') + Cardinality(Pieces(parser', lines))
                = Cardinality(Pieces(parser', lines))
          /\ rejected' + Cardinality(Turned(parser', lines, "rejected"))
                = Cardinality(Turned(parser', lines, "rejected"))
        BY <1>1, <1>2, BalanceAtStart
    <2> QED
        BY <1>2, <2>1, <2>2 DEF Balance
<1> QED
    BY <1>1, <1>2, <1>3, <1>5, <1>6 DEF Reading

(* The heading is dropped; from here on the books balance. *)
LEMMA ReadingSkipHeading ==
    ASSUME Reading, SkipHeading, UNCHANGED lines
    PROVE  Reading'
<1>1. /\ header /\ entries = lines /\ parsed = << >> /\ rejected = 0
      /\ parser # NoParser /\ parser \in Choosable(lines)
      /\ parser.name = "csv" /\ entries # << >>
      /\ lines \in Seq(Line) /\ ParserTypeOK
    BY DEF Reading, SkipHeading
<1>2. /\ parser' = parser /\ ~header' /\ header' \in BOOLEAN
      /\ entries' = Tail(lines)
      /\ parsed' = << >> /\ rejected' = 0 /\ lines' = lines
    BY <1>1 DEF SkipHeading
<1>3. Tail(lines) \in Seq(Line)
    BY <1>1, TailIs
<1>4. ParserTypeOK'
    BY <1>1, <1>2, <1>3 DEF ParserTypeOK
<1>5. Balance'
    <2>1. Offered(parser', lines') = Tail(lines)
        BY <1>1, <1>2 DEF Offered
    <2>2. /\ \A long : BlocksOf(parsed', long) = {}
          /\ Len(parsed') + Cardinality(Pieces(parser', Tail(lines)))
                = Cardinality(Pieces(parser', Tail(lines)))
          /\ rejected' + Cardinality(Turned(parser', Tail(lines), "rejected"))
                = Cardinality(Turned(parser', Tail(lines), "rejected"))
        BY <1>2, <1>3, BalanceAtStart
    <2> QED
        BY <1>2, <2>1, <2>2 DEF Balance
<1> QED
    BY <1>1, <1>2, <1>4, <1>5 DEF Reading

(* What every step of a chosen parser finds. *)
LEMMA ReadingNow ==
    ASSUME Reading, NEW result, NextLine(result)
    PROVE  /\ parser # NoParser /\ parser \in Choosable(lines) /\ ~header
           /\ ParserTypeOK /\ lines \in Seq(Line) /\ Balance
           /\ entries \in Seq(Line) /\ entries # << >>
           /\ Head(entries) \in Line /\ Tail(entries) \in Seq(Line)
           /\ Result(parser, Head(entries)) = result
           /\ parsed \in Seq(Prefix) /\ Len(parsed) \in Nat
           /\ rejected \in Nat
<1>1. /\ parser # NoParser /\ parser \in Choosable(lines) /\ ~header
      /\ ParserTypeOK /\ lines \in Seq(Line) /\ Balance
      /\ entries # << >> /\ Result(parser, Head(entries)) = result
    BY DEF Reading, NextLine
<1>2. /\ entries \in Seq(Line) /\ parsed \in Seq(Prefix) /\ rejected \in Nat
    BY <1>1 DEF ParserTypeOK
<1>3. Len(parsed) \in Nat
    BY <1>2
<1> QED
    BY <1>1, <1>2, <1>3, TailIs

(* A line that is skipped has no addresses and is not counted. *)
LEMMA ReadingSkip ==
    ASSUME Reading, Skip, UNCHANGED lines
    PROVE  Reading'
<1>1. NextLine("skipped")
    BY DEF Skip
<1>2. /\ parser' = parser /\ header' = header /\ entries' = Tail(entries)
      /\ parsed' = parsed /\ rejected' = rejected /\ lines' = lines
    BY DEF Skip
<1>3. ParserTypeOK'
    BY <1>1, <1>2, ReadingNow DEF ParserTypeOK
<1>4. Balance'
    <2>1. \A long : Addresses(parser, entries, long)
                        = Addresses(parser, Tail(entries), long)
        <3> TAKE long
        <3>1. /\ entries \in Seq(Line) /\ entries # << >>
              /\ Result(parser, Head(entries)) # "parsed"
            BY <1>1, ReadingNow
        <3>2. Addresses(parser, entries, long) =
                  (IF /\ Result(parser, Head(entries)) = "parsed"
                      /\ Head(entries).long = long
                   THEN Span(Head(entries)) ELSE {})
                     \union Addresses(parser, Tail(entries), long)
            BY <3>1, AddressesStep
        <3>3. (IF /\ Result(parser, Head(entries)) = "parsed"
                  /\ Head(entries).long = long
               THEN Span(Head(entries)) ELSE {}) = {}
            BY <3>1
        <3> QED
            BY <3>2, <3>3
    <2>2. Cardinality(Pieces(parser, entries))
              = Cardinality(Pieces(parser, Tail(entries)))
        BY <1>1, ReadingNow, PiecesStep
    <2>3. Cardinality(Turned(parser, entries, "rejected"))
              = Cardinality(Turned(parser, Tail(entries), "rejected"))
        BY <1>1, ReadingNow, TurnedStep
    <2> QED
        BY <1>1, <1>2, <2>1, <2>2, <2>3, ReadingNow DEF Balance
<1> QED
    BY <1>1, <1>2, <1>3, <1>4, ReadingNow DEF Reading

(* A line that is rejected has no addresses and is counted. *)
LEMMA ReadingReject ==
    ASSUME Reading, Reject, UNCHANGED lines
    PROVE  Reading'
<1>1. NextLine("rejected")
    BY DEF Reject
<1>2. /\ parser' = parser /\ header' = header /\ entries' = Tail(entries)
      /\ parsed' = parsed /\ rejected' = rejected + 1 /\ lines' = lines
    BY DEF Reject
<1>3. ParserTypeOK'
    <2> rejected' \in Nat
        BY <1>1, <1>2, ReadingNow
    <2> QED
        BY <1>1, <1>2, ReadingNow DEF ParserTypeOK
<1>4. Balance'
    <2>1. \A long : Addresses(parser, entries, long)
                        = Addresses(parser, Tail(entries), long)
        <3> TAKE long
        <3>1. /\ entries \in Seq(Line) /\ entries # << >>
              /\ Result(parser, Head(entries)) # "parsed"
            BY <1>1, ReadingNow
        <3>2. Addresses(parser, entries, long) =
                  (IF /\ Result(parser, Head(entries)) = "parsed"
                      /\ Head(entries).long = long
                   THEN Span(Head(entries)) ELSE {})
                     \union Addresses(parser, Tail(entries), long)
            BY <3>1, AddressesStep
        <3>3. (IF /\ Result(parser, Head(entries)) = "parsed"
                  /\ Head(entries).long = long
               THEN Span(Head(entries)) ELSE {}) = {}
            BY <3>1
        <3> QED
            BY <3>2, <3>3
    <2>2. Cardinality(Pieces(parser, entries))
              = Cardinality(Pieces(parser, Tail(entries)))
        BY <1>1, ReadingNow, PiecesStep
    <2>3. /\ Cardinality(Turned(parser, entries, "rejected"))
                = 1 + Cardinality(Turned(parser, Tail(entries), "rejected"))
          /\ Cardinality(Turned(parser, Tail(entries), "rejected")) \in Nat
        BY <1>1, ReadingNow, TurnedStep
    <2>4. rejected' + Cardinality(Turned(parser, Tail(entries), "rejected"))
              = rejected + Cardinality(Turned(parser, entries, "rejected"))
        BY <1>1, <1>2, <2>3, ReadingNow
    <2> QED
        BY <1>1, <1>2, <2>1, <2>2, <2>4, ReadingNow DEF Balance
<1> QED
    BY <1>1, <1>2, <1>3, <1>4, ReadingNow DEF Reading

(* An entry gives one block, the only maximal one it has. *)
LEMMA ReadingRead ==
    ASSUME Reading, Read, UNCHANGED lines
    PROVE  Reading'
<1> DEFINE l == Head(entries)
           p == PrefixOf(l)
<1>1. NextLine("parsed") /\ ~IsRange(l)
    BY DEF Read
<1>2. /\ parser' = parser /\ header' = header /\ entries' = Tail(entries)
      /\ parsed' = Append(parsed, p) /\ rejected' = rejected
      /\ lines' = lines
    BY DEF Read
<1>3. l \in Line /\ l.kind # "range"
    <2> Result(parser, l) = "parsed" /\ l \in Line
        BY <1>1, ReadingNow
    <2> QED
        BY <1>1 DEF Result, Columns
<1>4. p \in Prefix /\ Block(p) = Span(l) /\ p.long = l.long
    <2> p.long = l.long
        BY DEF PrefixOf
    <2> QED
        BY <1>3, PrefixOfLine
<1> HIDE DEF p
<1>5. parsed' \in Seq(Prefix) /\ Len(parsed') = Len(parsed) + 1
    BY <1>1, <1>2, <1>4, AppendIs, ReadingNow
<1>6. ParserTypeOK'
    BY <1>1, <1>2, <1>5, ReadingNow DEF ParserTypeOK
<1>7. Balance'
    <2>1. \A long \in BOOLEAN :
              Addresses(parser, entries, long)
                 = (IF l.long = long THEN Span(l) ELSE {})
                      \union Addresses(parser, Tail(entries), long)
        BY <1>1, ReadingNow, AddressesStep
    <2>2. \A long \in BOOLEAN :
              BlocksOf(parsed', long) = BlocksOf(parsed, long)
                 \union (IF l.long = long THEN Span(l) ELSE {})
        BY <1>1, <1>2, <1>4, BlocksAppend, ReadingNow
    <2>3. /\ Cardinality(Pieces(parser, entries))
                = 1 + Cardinality(Pieces(parser, Tail(entries)))
          /\ Cardinality(Pieces(parser, Tail(entries))) \in Nat
        <3>1. Maximal(Span(l), l.long) = {<<Num(p.start), p.host>>}
            BY <1>4, MaximalOfBlock
        <3>2. Cardinality(Maximal(Span(l), l.long)) = 1
            BY <3>1, FS_Singleton
        <3> QED
            BY <1>1, <3>2, ReadingNow, PiecesStep
    <2>4. Len(parsed') + Cardinality(Pieces(parser, Tail(entries)))
              = Len(parsed) + Cardinality(Pieces(parser, entries))
        BY <1>1, <1>5, <2>3, ReadingNow
    <2>5. Cardinality(Turned(parser, entries, "rejected"))
              = Cardinality(Turned(parser, Tail(entries), "rejected"))
        BY <1>1, ReadingNow, TurnedStep
    <2>6. \A long \in BOOLEAN :
              BlocksOf(parsed', long)
                 \union Addresses(parser, Tail(entries), long)
              = BlocksOf(parsed, long) \union Addresses(parser, entries, long)
        BY <2>1, <2>2
    <2> QED
        BY <1>1, <1>2, <2>4, <2>5, <2>6, ReadingNow DEF Balance
<1> QED
    BY <1>1, <1>2, <1>6, <1>7, ReadingNow DEF Reading

(* A range gives its first maximal block and keeps the others: the cursor  *)
(* moves to the next one, or the range is used up.                         *)
LEMMA ReadingEmit ==
    ASSUME Reading, Emit, UNCHANGED lines
    PROVE  Reading'
<1> DEFINE l == Head(entries)
           k == Size(l)
           p == [long |-> l.long, start |-> l.start, host |-> k]
           next == AddPow2(l.start, k)
           rest == [l EXCEPT !.start = next.sum]
           last == next.carry \/ Below(l.end, next.sum)
<1>1. NextLine("parsed") /\ IsRange(l)
    BY DEF Emit
<1>2. /\ parser' = parser /\ header' = header
      /\ parsed' = Append(parsed, p) /\ rejected' = rejected
      /\ lines' = lines
      /\ last => entries' = Tail(entries)
      /\ ~last => entries' = <<rest>> \o Tail(entries)
    BY DEF Emit
<1>3. l \in Line
    BY <1>1, ReadingNow
<1>4. /\ p \in Prefix /\ p.long = l.long
      /\ last => Span(l) = Block(p)
      /\ ~last => /\ rest \in Line /\ IsRange(rest)
                  /\ rest.kind = l.kind /\ rest.long = l.long
                  /\ Span(l) = Block(p) \union Span(rest)
    <2> HIDE DEF l
    <2> QED
        BY <1>1, <1>3, EmitIs
<1>5. /\ last => Cardinality(Maximal(Span(l), l.long)) = 1
      /\ ~last => /\ Cardinality(Maximal(Span(l), l.long)) =
                        1 + Cardinality(Maximal(Span(rest), l.long))
                  /\ Cardinality(Maximal(Span(rest), l.long)) \in Nat
    <2> HIDE DEF l
    <2> QED
        BY <1>1, <1>3, EmitCounts
<1> HIDE DEF last, rest, next, p, k
<1>6. parsed' \in Seq(Prefix) /\ Len(parsed') = Len(parsed) + 1
    BY <1>1, <1>2, <1>4, AppendIs, ReadingNow
<1>7. \A long \in BOOLEAN :
          BlocksOf(parsed', long) = BlocksOf(parsed, long)
             \union (IF l.long = long THEN Block(p) ELSE {})
    BY <1>1, <1>2, <1>4, BlocksAppend, ReadingNow
<1>8. \A long \in BOOLEAN :
          Addresses(parser, entries, long)
             = (IF l.long = long THEN Span(l) ELSE {})
                  \union Addresses(parser, Tail(entries), long)
    BY <1>1, ReadingNow, AddressesStep
<1>9. /\ Cardinality(Pieces(parser, entries))
            = Cardinality(Maximal(Span(l), l.long))
                + Cardinality(Pieces(parser, Tail(entries)))
      /\ Cardinality(Pieces(parser, Tail(entries))) \in Nat
    BY <1>1, ReadingNow, PiecesStep
<1>10. /\ Cardinality(Turned(parser, entries, "rejected"))
             = Cardinality(Turned(parser, Tail(entries), "rejected"))
    BY <1>1, ReadingNow, TurnedStep
<1>11. CASE last
    <2>1. entries' = Tail(entries) /\ entries' \in Seq(Line)
        BY <1>1, <1>2, <1>11, ReadingNow
    <2>2. ParserTypeOK'
        BY <1>1, <1>2, <1>6, <2>1, ReadingNow DEF ParserTypeOK
    <2>3. \A long \in BOOLEAN :
              BlocksOf(parsed', long) \union Addresses(parser, entries', long)
              = BlocksOf(parsed, long) \union Addresses(parser, entries, long)
        BY <1>4, <1>7, <1>8, <1>11, <2>1
    <2>4. Len(parsed') + Cardinality(Pieces(parser, entries'))
              = Len(parsed) + Cardinality(Pieces(parser, entries))
        BY <1>1, <1>5, <1>6, <1>9, <1>11, <2>1, ReadingNow
    <2>5. Balance'
        BY <1>1, <1>2, <1>10, <2>1, <2>3, <2>4, ReadingNow DEF Balance
    <2> QED
        BY <1>1, <1>2, <2>2, <2>5, ReadingNow DEF Reading
<1>12. CASE ~last
    <2>1. /\ entries' \in Seq(Line) /\ entries' # << >>
          /\ Head(entries') = rest /\ Tail(entries') = Tail(entries)
        <3>1. entries \in Seq(Line) /\ entries # << >> /\ rest \in Line
            BY <1>1, <1>4, <1>12, ReadingNow
        <3>2. entries' = <<rest>> \o Tail(entries)
            BY <1>2, <1>12
        <3>3. /\ entries' \in Seq(Line) /\ entries' # << >>
              /\ entries'[1] = rest /\ Tail(entries') = Tail(entries)
            BY <3>1, <3>2, PutFirst
        <3> QED
            BY <3>3
    <2>2. ParserTypeOK'
        BY <1>1, <1>2, <1>6, <2>1, ReadingNow DEF ParserTypeOK
    <2>3. Result(parser, rest) = "parsed" /\ rest.long = l.long
        <3> Result(parser, rest) = Result(parser, l)
            BY <1>1, <1>4, <1>12, SameResult
        <3> QED
            BY <1>1, <1>4, <1>12, ReadingNow
    <2>4. \A long \in BOOLEAN :
              Addresses(parser, entries', long)
                 = (IF l.long = long THEN Span(rest) ELSE {})
                      \union Addresses(parser, Tail(entries), long)
        <3> DEFINE e == entries'
        <3>1. /\ e \in Seq(Line) /\ e # << >>
              /\ Head(e) = rest /\ Tail(e) = Tail(entries)
            BY <2>1
        <3> HIDE DEF e
        <3>2. \A long \in BOOLEAN :
                  Addresses(parser, e, long)
                     = (IF Result(parser, rest) = "parsed" /\ rest.long = long
                        THEN Span(rest) ELSE {})
                          \union Addresses(parser, Tail(entries), long)
            <4>1. \A long \in BOOLEAN :
                      Addresses(parser, e, long)
                         = (IF /\ Result(parser, Head(e)) = "parsed"
                               /\ Head(e).long = long
                            THEN Span(Head(e)) ELSE {})
                              \union Addresses(parser, Tail(e), long)
                BY <3>1, AddressesStep
            <4> QED
                BY <3>1, <4>1
        <3> QED
            BY <2>3, <3>2 DEF e
    <2>5. \A long \in BOOLEAN :
              BlocksOf(parsed', long) \union Addresses(parser, entries', long)
              = BlocksOf(parsed, long) \union Addresses(parser, entries, long)
        BY <1>4, <1>7, <1>8, <1>12, <2>4
    <2>6. Cardinality(Pieces(parser, entries'))
              = Cardinality(Maximal(Span(rest), l.long))
                  + Cardinality(Pieces(parser, Tail(entries)))
        BY <2>1, <2>3, PiecesStep
    <2>7. Len(parsed') + Cardinality(Pieces(parser, entries'))
              = Len(parsed) + Cardinality(Pieces(parser, entries))
        BY <1>1, <1>5, <1>6, <1>9, <1>12, <2>6, ReadingNow
    <2>8. Cardinality(Turned(parser, entries', "rejected"))
              = Cardinality(Turned(parser, Tail(entries), "rejected"))
        <3>1. Cardinality(Turned(parser, entries', "rejected"))
                  = 0 + Cardinality(Turned(parser, Tail(entries), "rejected"))
            <4> DEFINE e == entries'
            <4>1. /\ e \in Seq(Line) /\ e # << >>
                  /\ Head(e) = rest /\ Tail(e) = Tail(entries)
                BY <2>1
            <4>2. Result(parser, rest) # "rejected"
                BY <2>3
            <4> HIDE DEF e
            <4>3. Cardinality(Turned(parser, e, "rejected")) =
                      (IF Result(parser, rest) = "rejected" THEN 1 ELSE 0)
                        + Cardinality(Turned(parser, Tail(entries), "rejected"))
                <5>1. Cardinality(Turned(parser, e, "rejected")) =
                          (IF Result(parser, Head(e)) = "rejected"
                           THEN 1 ELSE 0)
                            + Cardinality(Turned(parser, Tail(e), "rejected"))
                    BY <4>1, TurnedStep
                <5> QED
                    BY <4>1, <5>1
            <4> QED
                BY <4>2, <4>3 DEF e
        <3>2. Cardinality(Turned(parser, Tail(entries), "rejected")) \in Nat
            BY <1>1, ReadingNow, TurnedType
        <3> QED
            BY <3>1, <3>2
    <2>9. Balance'
        BY <1>1, <1>2, <1>10, <2>5, <2>7, <2>8, ReadingNow DEF Balance
    <2> QED
        BY <1>1, <1>2, <2>2, <2>9, ReadingNow DEF Reading
<1> QED
    BY <1>11, <1>12

(* Nothing else touches what has been read. *)
LEMMA ReadingStays ==
    ASSUME Reading, UNCHANGED <<lines, parserVars>>
    PROVE  Reading'
BY DEF Reading, ParserTypeOK, Balance, parserVars

(* Every step of the list path keeps the books of the parser. *)
LEMMA ReadingStep == Reading /\ [Next]_vars => Reading'
<1> SUFFICES ASSUME Reading, [Next]_vars PROVE Reading'
    OBVIOUS
<1>1. CASE Parse
    <2>1. ParserNext /\ UNCHANGED lines
        BY <1>1 DEF Parse
    <2>2. CASE Choose
        BY <2>1, <2>2, ReadingChoose
    <2>3. CASE SkipHeading
        BY <2>1, <2>3, ReadingSkipHeading
    <2>4. CASE Skip
        BY <2>1, <2>4, ReadingSkip
    <2>5. CASE Reject
        BY <2>1, <2>5, ReadingReject
    <2>6. CASE Read
        BY <2>1, <2>6, ReadingRead
    <2>7. CASE Emit
        BY <2>1, <2>7, ReadingEmit
    <2> QED
        BY <2>1, <2>2, <2>3, <2>4, <2>5, <2>6, <2>7 DEF ParserNext
<1>2. CASE Pass
    BY <1>2, ReadingStays DEF Pass
<1>3. CASE Process
    BY <1>3, ReadingStays DEF Process
<1>4. CASE UNCHANGED vars
    BY <1>4, ReadingStays DEF vars
<1> QED
    BY <1>1, <1>2, <1>3, <1>4 DEF Next

-----------------------------------------------------------------------------
(* The normalizer. *)

(* The family in work, and the addresses that are still to be merged.      *)
Working == phase \in {"short", "long"}
Now == phase = "long"
Left == UNION {Block(kept[i]) : i \in todo}

(* What was kept of the parsed prefixes: no default route and nothing that *)
(* overlaps an own network.                                                *)
KeptIs ==
    /\ kept = [i \in DOMAIN kept |-> parsed[i]]
    /\ DOMAIN kept = {i \in DOMAIN parsed :
                         /\ parsed[i].host # Bits(parsed[i].long)
                         /\ ~\E o \in own : Overlaps(parsed[i], o)}

(* The invariant of the filters. *)
Passing ==
    /\ NormTypeOK
    /\ own \subseteq Prefix /\ ownThen \in {{}, own}
    /\ phase = "idle" => kept = << >> /\ out = << >>
    /\ phase # "idle" => KeptIs
    /\ ~Working => todo = {} /\ merged = << >>

(* Nothing of another family is in work; what is merged has gaps; what is  *)
(* to be merged follows what is; and nothing is lost.                      *)
Merging ==
    /\ \A i \in todo : kept[i].long = Now
    /\ \A i \in DOMAIN merged : merged[i].long = Now
    /\ Apart(merged)
    /\ todo # {} =>
          /\ \A i \in DOMAIN out : out[i].long # Now
          /\ \A i \in todo, j \in DOMAIN merged :
                Num(merged[j].start) <= Num(kept[i].start)
    /\ BlocksOf(out, Now) \union SpansOf(merged, Now) \union Left
          = BlocksOf(kept, Now)

(* The maximal blocks of the ranges that are still to be cut.              *)
Ahead(seq, long) == UNION {Maximal(Span(seq[j]), long) : j \in DOMAIN seq}

(* What is out lies before what is to be cut, unless the whole space is in *)
(* work, which is never cut; and what is out and what will be are the      *)
(* maximal blocks.                                                         *)
Cutting ==
    /\ IF Now /\ Endless
       THEN SpansOf(merged, Now) \union Left = BlocksOf(kept, Now)
       ELSE \A i \in DOMAIN out, j \in DOMAIN merged :
               out[i].long = Now =>
                  Num(out[i].start) + Pow2[out[i].host] <= Num(merged[j].start)
    /\ todo = {} =>
          AsPairs(out, Now) \union Ahead(merged, Now)
             = Maximal(BlocksOf(kept, Now), Now)

(* A family that is done. *)
Finished(long) ==
    /\ BlocksOf(out, long) = BlocksOf(kept, long)
    /\ AsPairs(out, long) = Maximal(BlocksOf(kept, long), long)

(* Before q: of the family that comes first, or ending where q begins.     *)
Precedes(p, q) ==
    IF p.long = q.long THEN Num(p.start) + Pow2[p.host] <= Num(q.start)
    ELSE q.long

(* Every member precedes all later ones. *)
Ordered(seq) == \A i, j \in DOMAIN seq : i < j => Precedes(seq[i], seq[j])

(* The invariant of the normalizer. *)
Tidy ==
    /\ Working => Merging /\ Cutting
    /\ phase \in {"idle", "short"} => \A i \in DOMAIN out : ~out[i].long
    /\ ~(Now /\ Endless) => Ordered(out)
    /\ phase \in {"long", "done"} => Finished(FALSE)
    /\ phase = "done" => Finished(TRUE)

(* The invariant of the list path. *)
ListInv == Reading /\ Passing /\ Tidy

(* The addresses of a list of prefixes, by prefix. *)
LEMMA BlocksAre ==
    ASSUME NEW seq, NEW long, NEW n
    PROVE  n \in BlocksOf(seq, long) <=>
              \E i \in DOMAIN seq : seq[i].long = long /\ n \in Block(seq[i])
BY DEF BlocksOf

(* Ranges touch when no address lies between them. *)
LEMMA TouchesIs ==
    ASSUME NEW c \in IpRange, NEW r \in IpRange,
           Num(c.start) <= Num(r.start)
    PROVE  Touches(c, r) <=> Num(r.start) <= Num(c.end) + 1
<1>1. /\ c.end \in Uint /\ r.start \in Uint /\ Num(c.end) \in Nat
      /\ Num(r.start) \in Nat /\ Num(r.start) < Modulus * Modulus
      /\ Modulus * Modulus \in Nat
    BY RangeFields, NumType, Widths
<1>2. ~Below(c.end, r.start) <=> Num(r.start) <= Num(c.end)
    BY <1>1, BelowIsLess
<1> DEFINE next == PlusOne(c.end)
<1>3. /\ next.sum \in Uint
      /\ next.carry <=> Num(c.end) + 1 = Modulus * Modulus
      /\ ~next.carry => Num(next.sum) = Num(c.end) + 1
    BY <1>1, PlusOneIsNext
<1> HIDE DEF next
<1>4. r.start = next.sum <=> Num(r.start) = Num(next.sum)
    BY <1>1, <1>3, NumDecides
<1>5. Touches(c, r) <=> \/ ~Below(c.end, r.start)
                        \/ ~next.carry /\ r.start = next.sum
    BY DEF Touches, next
<1> QED
    BY <1>1, <1>2, <1>3, <1>4, <1>5

(* Joining ranges that touch gives the range of their addresses. *)
LEMMA JoinedIs ==
    ASSUME NEW c \in IpRange, NEW r \in IpRange, c.long = r.long,
           Num(c.start) <= Num(r.start), Touches(c, r)
    PROVE  LET x == Joined(c, r)
           IN  /\ x \in IpRange /\ x.long = r.long /\ x.start = c.start
               /\ Span(x) = Span(c) \union Span(r)
<1>1. /\ c.long \in BOOLEAN /\ c.start \in Uint /\ c.end \in Uint
      /\ r.end \in Uint
      /\ Num(c.start) \in Nat /\ Num(c.end) \in Nat
      /\ Num(r.start) \in Nat /\ Num(r.end) \in Nat
      /\ Num(c.start) <= Num(c.end) /\ Num(r.start) <= Num(r.end)
      /\ Num(r.end) < Pow2[Bits(r.long)]
      /\ c = [long |-> c.long, start |-> c.start, end |-> c.end]
    BY RangeFields
<1>2. Num(r.start) <= Num(c.end) + 1
    BY TouchesIs
<1>3. Below(c.end, r.end) <=> Num(c.end) < Num(r.end)
    BY <1>1, BelowIsLess
<1>4. CASE Below(c.end, r.end)
    <2> DEFINE x == [long |-> c.long, start |-> c.start, end |-> r.end]
    <2>1. Joined(c, r) = x
        BY <1>1, <1>4 DEF Joined
    <2>2. x \in IpRange
        BY <1>1, MakeRange
    <2>3. Span(x) = Span(c) \union Span(r)
        BY <1>1, <1>2, <1>3, <1>4 DEF Span
    <2> QED
        BY <2>1, <2>2, <2>3
<1>5. CASE ~Below(c.end, r.end)
    <2>1. Joined(c, r) = c
        BY <1>5 DEF Joined
    <2>2. Span(c) = Span(c) \union Span(r)
        BY <1>1, <1>2, <1>3, <1>5 DEF Span
    <2> QED
        BY <2>1, <2>2
<1> QED
    BY <1>4, <1>5

(* The next range is merged into a list of ranges that start no later. *)
Merged(seq, r) ==
    IF seq # << >> /\ Touches(Last(seq), r)
    THEN Append(Front(seq), Joined(Last(seq), r))
    ELSE Append(seq, r)

(* Merging keeps the gaps between the ranges and the addresses they cover. *)
LEMMA MergedIs ==
    ASSUME NEW seq \in Seq(IpRange), NEW long \in BOOLEAN,
           \A j \in DOMAIN seq : seq[j].long = long,
           Apart(seq),
           NEW r \in IpRange, r.long = long,
           \A j \in DOMAIN seq : Num(seq[j].start) <= Num(r.start)
    PROVE  LET t == Merged(seq, r)
           IN  /\ t \in Seq(IpRange)
               /\ \A j \in DOMAIN t : t[j].long = long
               /\ \A j \in DOMAIN t : Num(t[j].start) <= Num(r.start)
               /\ Apart(t)
               /\ SpansOf(t, long) = SpansOf(seq, long) \union Span(r)
<1> DEFINE t == Merged(seq, r)
           n == Len(seq)
<1>1. /\ n \in Nat /\ DOMAIN seq = 1 .. n
      /\ \A j \in 1 .. n : seq[j] \in IpRange
    OBVIOUS
<1>2. /\ \A j \in 1 .. n : /\ Num(seq[j].start) \in Nat
                           /\ Num(seq[j].end) \in Nat
                           /\ Num(seq[j].start) <= Num(seq[j].end)
      /\ Num(r.start) \in Nat /\ Num(r.end) \in Nat
      /\ Num(r.start) <= Num(r.end)
    BY <1>1, RangeFields
<1> HIDE DEF n
<1>3. CASE seq # << >> /\ Touches(Last(seq), r)
    <2> DEFINE x == Joined(seq[n], r)
    <2>1. n > 0 /\ Last(seq) = seq[n] /\ seq[n] \in IpRange
        BY <1>1, <1>3, PutLast, TailIs DEF n
    <2>2. /\ x \in IpRange /\ x.long = long /\ x.start = seq[n].start
          /\ Span(x) = Span(seq[n]) \union Span(r)
        BY <1>1, <1>3, <2>1, JoinedIs
    <2>3. t = Append(Front(seq), x)
        BY <1>3, <2>1 DEF Merged
    <2> HIDE DEF x, t
    <2>4. /\ t \in Seq(IpRange) /\ DOMAIN t = 1 .. n
          /\ t[n] = x /\ \A j \in 1 .. (n - 1) : t[j] = seq[j]
        BY <1>3, <2>2, <2>3, PutLast DEF n
    <2>5. \A j \in 1 .. n : t[j].long = long /\ t[j].start = seq[j].start
        <3> \A j \in 1 .. n : j = n \/ j \in 1 .. (n - 1)
            BY <1>1
        <3> QED
            BY <1>1, <2>2, <2>4
    <2>6. Apart(t)
        <3> \A j \in 1 .. n : j = n \/ j \in 1 .. (n - 1)
            BY <1>1
        <3> SUFFICES ASSUME NEW i \in 1 .. n, NEW j \in 1 .. n, i < j
                     PROVE  Num(t[i].end) + 1 < Num(t[j].start)
            BY <2>4 DEF Apart
        <3> i \in 1 .. (n - 1)
            BY <1>1
        <3> t[i] = seq[i] /\ t[j].start = seq[j].start
            BY <2>4, <2>5
        <3> QED
            BY <1>1 DEF Apart
    <2>7. SpansOf(t, long) = SpansOf(seq, long) \union Span(r)
        <3>1. \A m : m \in SpansOf(t, long)
                        <=> \E j \in 1 .. n : m \in Span(t[j])
            BY <2>4, <2>5, SpansAre
        <3>2. \A m : m \in SpansOf(seq, long)
                        <=> \E j \in 1 .. n : m \in Span(seq[j])
            BY <1>1, SpansAre
        <3>3. \A j \in 1 .. n : j = n \/ j \in 1 .. (n - 1)
            BY <1>1
        <3>4. \A j \in 1 .. (n - 1) : j \in 1 .. n /\ n \in 1 .. n
            BY <1>1
        <3>5. n \in 1 .. n
            BY <1>1, <2>1
        <3> QED
            BY <2>2, <2>4, <3>1, <3>2, <3>3, <3>4, <3>5
    <2> QED
        BY <1>1, <1>2, <2>4, <2>5, <2>6, <2>7 DEF t
<1>4. CASE ~(seq # << >> /\ Touches(Last(seq), r))
    <2>1. t = Append(seq, r)
        BY <1>4 DEF Merged
    <2> HIDE DEF t
    <2>2. /\ t \in Seq(IpRange) /\ DOMAIN t = 1 .. (n + 1)
          /\ t[n + 1] = r /\ \A j \in 1 .. n : t[j] = seq[j]
        BY <2>1, AppendIs DEF n
    <2>3. \A j \in 1 .. (n + 1) : j = n + 1 \/ j \in 1 .. n
        <3> n \in Nat
            BY <1>1
        <3> QED
            OBVIOUS
    <2>4. \A j \in 1 .. (n + 1) :
              t[j].long = long /\ Num(t[j].start) <= Num(r.start)
        <3> TAKE j \in 1 .. (n + 1)
        <3>1. CASE j = n + 1
            BY <1>2, <2>2, <3>1
        <3>2. CASE j \in 1 .. n
            BY <1>1, <2>2, <3>2
        <3> QED
            BY <2>3, <3>1, <3>2
    <2>5. \A j \in 1 .. n : Num(seq[j].end) + 1 < Num(r.start)
        <3> SUFFICES ASSUME NEW j \in 1 .. n
                     PROVE  Num(seq[j].end) + 1 < Num(r.start)
            OBVIOUS
        <3>1. /\ seq # << >> /\ n \in 1 .. n /\ seq[n] \in IpRange
              /\ Last(seq) = seq[n]
            BY <1>1, PutLast, TailIs DEF n
        <3>2. Num(seq[n].end) + 1 < Num(r.start)
            <4> ~(Num(r.start) <= Num(seq[n].end) + 1)
                BY <1>1, <1>4, <3>1, TouchesIs
            <4> QED
                BY <1>2, <3>1
        <3>3. j < n => Num(seq[j].end) + 1 < Num(seq[n].start)
            BY <1>1, <3>1 DEF Apart
        <3> QED
            BY <1>1, <1>2, <3>1, <3>2, <3>3
    <2>6. Apart(t)
        <3> SUFFICES ASSUME NEW i \in 1 .. (n + 1),
                            NEW j \in 1 .. (n + 1), i < j
                     PROVE  Num(t[i].end) + 1 < Num(t[j].start)
            BY <2>2 DEF Apart
        <3>1. i \in 1 .. n /\ t[i] = seq[i]
            BY <1>1, <2>2
        <3>2. CASE j = n + 1
            BY <2>2, <2>5, <3>1, <3>2
        <3>3. CASE j \in 1 .. n
            BY <1>1, <2>2, <3>1, <3>3 DEF Apart
        <3> QED
            BY <2>3, <3>2, <3>3
    <2>7. SpansOf(t, long) = SpansOf(seq, long) \union Span(r)
        <3>1. \A m : m \in SpansOf(t, long)
                        <=> \E j \in 1 .. (n + 1) : m \in Span(t[j])
            BY <2>2, <2>4, SpansAre
        <3>2. \A m : m \in SpansOf(seq, long)
                        <=> \E j \in 1 .. n : m \in Span(seq[j])
            BY <1>1, SpansAre
        <3>3. (n + 1) \in 1 .. (n + 1) /\ \A j \in 1 .. n : j \in 1 .. (n + 1)
            BY <1>1
        <3> QED
            BY <2>2, <2>3, <3>1, <3>2, <3>3
    <2> QED
        BY <2>2, <2>4, <2>6, <2>7 DEF t
<1> QED
    BY <1>3, <1>4

(* What is cut off a list of ranges, and what is left of it. *)
Rest(seq) ==
    LET r   == Head(seq)
        adv == Advance(r.start, BlockSize(r))
    IN  IF adv.wrapped \/ Below(r.end, adv.next) THEN Tail(seq)
        ELSE <<[r EXCEPT !.start = adv.next]>> \o Tail(seq)

(* The addresses of the first range and those of the others. *)
LEMMA SpansTail ==
    ASSUME NEW seq \in Seq(IpRange), seq # << >>, NEW long \in BOOLEAN,
           \A j \in DOMAIN seq : seq[j].long = long
    PROVE  SpansOf(seq, long) = Span(Head(seq)) \union SpansOf(Tail(seq), long)
<1> DEFINE n == Len(seq)
<1>1. /\ n \in Nat /\ n > 0 /\ DOMAIN seq = 1 .. n /\ Head(seq) = seq[1]
      /\ Tail(seq) \in Seq(IpRange) /\ DOMAIN Tail(seq) = 1 .. (n - 1)
      /\ \A i \in 1 .. (n - 1) : Tail(seq)[i] = seq[i + 1]
    BY TailIs
<1> HIDE DEF n
<1>2. /\ \A i \in 1 .. (n - 1) : i + 1 \in 1 .. n
      /\ \A i \in 1 .. n : i = 1 \/ (i - 1 \in 1 .. (n - 1) /\ (i - 1) + 1 = i)
      /\ 1 \in 1 .. n
    <2> n \in Nat /\ n > 0
        BY <1>1
    <2> QED
        OBVIOUS
<1>3. \A m : m \in SpansOf(seq, long) <=> \E j \in 1 .. n : m \in Span(seq[j])
    BY <1>1, SpansAre
<1>4. \A m : m \in SpansOf(Tail(seq), long)
                <=> \E j \in 1 .. (n - 1) : m \in Span(Tail(seq)[j])
    <2> \A j \in DOMAIN Tail(seq) : Tail(seq)[j].long = long
        BY <1>1, <1>2
    <2> QED
        BY <1>1, SpansAre
<1>5. \A m : m \in SpansOf(seq, long)
                <=> m \in Span(Head(seq)) \/ m \in SpansOf(Tail(seq), long)
    <2> TAKE m
    <2>1. ASSUME NEW j \in 1 .. n, m \in Span(seq[j])
          PROVE  m \in Span(Head(seq)) \/ m \in SpansOf(Tail(seq), long)
        <3>1. CASE j = 1
            BY <1>1, <2>1, <3>1
        <3>2. CASE j # 1
            <4> j - 1 \in 1 .. (n - 1) /\ (j - 1) + 1 = j
                BY <1>2, <3>2
            <4> Tail(seq)[j - 1] = seq[j]
                BY <1>1
            <4> QED
                BY <1>4, <2>1
        <3> QED
            BY <3>1, <3>2
    <2>2. m \in Span(Head(seq)) => m \in SpansOf(seq, long)
        BY <1>1, <1>2, <1>3
    <2>3. m \in SpansOf(Tail(seq), long) => m \in SpansOf(seq, long)
        BY <1>1, <1>2, <1>3, <1>4
    <2> QED
        BY <1>3, <2>1, <2>2, <2>3
<1> QED
    BY <1>5

(* The blocks of the first range and those of the others. *)
LEMMA AheadTail ==
    ASSUME NEW seq \in Seq(IpRange), seq # << >>, NEW long
    PROVE  Ahead(seq, long) =
              Maximal(Span(Head(seq)), long) \union Ahead(Tail(seq), long)
<1> DEFINE n == Len(seq)
           M(r) == Maximal(Span(r), long)
<1>1. /\ n \in Nat /\ n > 0 /\ DOMAIN seq = 1 .. n /\ Head(seq) = seq[1]
      /\ DOMAIN Tail(seq) = 1 .. (n - 1)
      /\ \A i \in 1 .. (n - 1) : Tail(seq)[i] = seq[i + 1]
    BY TailIs
<1> HIDE DEF n, M
<1>2. /\ \A i \in 1 .. (n - 1) : i + 1 \in 1 .. n
      /\ \A i \in 1 .. n : i = 1 \/ (i - 1 \in 1 .. (n - 1) /\ (i - 1) + 1 = i)
      /\ 1 \in 1 .. n
    <2> n \in Nat /\ n > 0
        BY <1>1
    <2> QED
        OBVIOUS
<1>3. \A x : x \in Ahead(seq, long) <=> \E j \in 1 .. n : x \in M(seq[j])
    BY <1>1 DEF Ahead, M
<1>4. \A x : x \in Ahead(Tail(seq), long)
                <=> \E j \in 1 .. (n - 1) : x \in M(Tail(seq)[j])
    BY <1>1 DEF Ahead, M
<1>5. \A x : x \in Ahead(seq, long)
                <=> x \in M(Head(seq)) \/ x \in Ahead(Tail(seq), long)
    <2> TAKE x
    <2>1. ASSUME NEW j \in 1 .. n, x \in M(seq[j])
          PROVE  x \in M(Head(seq)) \/ x \in Ahead(Tail(seq), long)
        <3>1. CASE j = 1
            BY <1>1, <2>1, <3>1
        <3>2. CASE j # 1
            <4> j - 1 \in 1 .. (n - 1) /\ (j - 1) + 1 = j
                BY <1>2, <3>2
            <4> Tail(seq)[j - 1] = seq[j]
                BY <1>1
            <4> QED
                BY <1>4, <2>1
        <3> QED
            BY <3>1, <3>2
    <2>2. x \in M(Head(seq)) => x \in Ahead(seq, long)
        BY <1>1, <1>2, <1>3
    <2>3. x \in Ahead(Tail(seq), long) => x \in Ahead(seq, long)
        BY <1>1, <1>2, <1>3, <1>4
    <2> QED
        BY <1>3, <2>1, <2>2, <2>3
<1> QED
    BY <1>5 DEF M

(* The cursor moves behind the block, and the range is used up when that   *)
(* is beyond its end: whatever carries there are, and where the address    *)
(* space ends.  Only a range that is the whole space is left as it is.     *)
LEMMA AdvanceInRange ==
    ASSUME NEW r \in IpRange
    PROVE  LET k    == BlockSize(r)
               adv  == Advance(r.start, k)
               rest == [r EXCEPT !.start = adv.next]
               n    == Num(r.start) + Pow2[k]
           IN  /\ k = LongBits =>
                     /\ ~(adv.wrapped \/ Below(r.end, adv.next))
                     /\ rest = r /\ r.long
                     /\ Span(r) = 0 .. (Pow2[LongBits] - 1)
               /\ k # LongBits =>
                     /\ (adv.wrapped \/ Below(r.end, adv.next))
                           <=> n > Num(r.end)
                     /\ n <= Num(r.end) =>
                           /\ rest \in IpRange /\ rest.long = r.long
                           /\ Num(rest.start) = n /\ rest.end = r.end
<1> DEFINE k == BlockSize(r)
           adv == Advance(r.start, k)
           rest == [r EXCEPT !.start = adv.next]
           n == Num(r.start) + Pow2[k]
<1>1. Fits(r, k)
    BY BlockSizeFits
<1> HIDE DEF k
<1>2. /\ r.long \in BOOLEAN /\ r.start \in Uint /\ r.end \in Uint
      /\ Num(r.start) \in Nat /\ Num(r.end) \in Nat
      /\ Num(r.start) <= Num(r.end) /\ Num(r.end) < Pow2[Bits(r.long)]
      /\ r = [long |-> r.long, start |-> r.start, end |-> r.end]
      /\ rest = [long |-> r.long, start |-> adv.next, end |-> r.end]
    <2>1. r = [long |-> r.long, start |-> r.start, end |-> r.end]
        BY RangeFields
    <2> HIDE DEF adv
    <2>2. rest = [long |-> r.long, start |-> adv.next, end |-> r.end]
        BY <2>1
    <2> QED
        BY <2>2, RangeFields
<1>3. /\ k \in Nat /\ k <= LongBits /\ k <= Bits(r.long)
      /\ Pow2[k] \in Nat /\ Pow2[k] > 0 /\ n <= Num(r.end) + 1 /\ n \in Nat
    <2>1. k \in Nat /\ k <= Bits(r.long) /\ n <= Num(r.end) + 1
        BY <1>1 DEF Fits
    <2>2. Bits(r.long) \in Nat /\ Bits(r.long) <= LongBits
        BY <1>2, BitsType
    <2>3. Pow2[k] \in Nat /\ Pow2[k] > 0
        BY <2>1, PowerType
    <2> QED
        BY <1>2, <2>1, <2>2, <2>3, Widths
<1>4. CASE k = LongBits
    <2>1. r.long
        BY <1>2, <1>3, <1>4, Widths DEF Bits
    <2>2. Bits(r.long) = LongBits
        BY <2>1 DEF Bits
    <2>3. adv.next = r.start /\ ~adv.wrapped
        BY <1>2, <1>4, AdvanceByAll
    <2>4. ~Below(r.end, r.start)
        BY <1>2, BelowIsLess
    <2> HIDE DEF adv
    <2>5. rest = r
        BY <1>2, <2>3
    <2>6. Num(r.start) = 0 /\ Num(r.end) = Pow2[LongBits] - 1
        <3> DEFINE all == Pow2[LongBits]
        <3>1. all \in Nat /\ n = Num(r.start) + all
            BY <1>4, Widths
        <3>2. Num(r.end) < all
            BY <1>2, <2>2
        <3> HIDE DEF all, n
        <3> QED
            BY <1>2, <1>3, <3>1, <3>2 DEF all
    <2>7. Span(r) = 0 .. (Pow2[LongBits] - 1)
        BY <2>6 DEF Span
    <2> QED
        BY <1>4, <2>1, <2>3, <2>4, <2>5, <2>7 DEF adv, k
<1>5. CASE k # LongBits
    <2>1. k < LongBits
        BY <1>3, <1>5, Widths
    <2>2. /\ adv.next \in Uint /\ Num(adv.next) \in Nat
          /\ adv.wrapped <=> n >= Modulus * Modulus
          /\ ~adv.wrapped => Num(adv.next) = n
        BY <1>2, <1>3, <2>1, AdvanceIs, NumType
    <2> HIDE DEF adv, n
    <2>3. /\ Pow2[Bits(r.long)] <= Modulus * Modulus
          /\ Modulus * Modulus \in Nat
          /\ Pow2[Bits(r.long)] \in Nat
        BY <1>2, BitsType, Widths
    <2>4. Below(r.end, adv.next) <=> Num(r.end) < Num(adv.next)
        BY <1>2, <2>2, BelowIsLess
    <2>5. (adv.wrapped \/ Below(r.end, adv.next)) <=> n > Num(r.end)
        BY <1>2, <1>3, <2>2, <2>3, <2>4
    <2>6. ASSUME n <= Num(r.end)
          PROVE  /\ rest \in IpRange /\ rest.long = r.long
                 /\ Num(rest.start) = n /\ rest.end = r.end
        <3>1. Num(adv.next) = n
            <4> n > Num(r.end) <=> ~(n <= Num(r.end))
                BY <1>2, <1>3
            <4> QED
                BY <2>2, <2>5, <2>6
        <3>2. rest \in IpRange
            BY <1>2, <1>3, <2>2, <2>6, <3>1, MakeRange
        <3> QED
            BY <1>2, <3>1, <3>2
    <2> QED
        BY <1>5, <2>5, <2>6 DEF adv, k, n
<1> QED
    BY <1>4, <1>5

(* One step of the loop over the ranges. *)
LEMMA RestIs ==
    ASSUME NEW seq \in Seq(IpRange), seq # << >>, NEW long \in BOOLEAN,
           \A j \in DOMAIN seq : seq[j].long = long,
           Apart(seq)
    PROVE  LET t == Rest(seq)
               r == Head(seq)
               k == BlockSize(r)
               n == Num(r.start) + Pow2[k]
               p == [long |-> r.long, start |-> r.start, host |-> k]
           IN  /\ p \in Prefix /\ p.long = long
               /\ t \in Seq(IpRange)
               /\ \A j \in DOMAIN t : t[j].long = long
               /\ Apart(t)
               /\ SpansOf(seq, long) = Block(p) \union SpansOf(t, long)
               /\ Ahead(seq, long)
                     = {<<Num(r.start), k>>} \union Ahead(t, long)
               /\ k # LongBits => \A j \in DOMAIN t : n <= Num(t[j].start)
               /\ k = LongBits =>
                     t = seq /\ long /\ Span(r) = 0 .. (Pow2[LongBits] - 1)
<1> DEFINE r == Head(seq)
           k == BlockSize(r)
           n == Num(r.start) + Pow2[k]
           p == [long |-> r.long, start |-> r.start, host |-> k]
           adv == Advance(r.start, k)
           rest == [r EXCEPT !.start = adv.next]
           last == adv.wrapped \/ Below(r.end, adv.next)
           t == Rest(seq)
           m == Len(seq)
<1>1. /\ m \in Nat /\ m > 0 /\ DOMAIN seq = 1 .. m /\ r = seq[1]
      /\ Tail(seq) \in Seq(IpRange) /\ DOMAIN Tail(seq) = 1 .. (m - 1)
      /\ \A i \in 1 .. (m - 1) : Tail(seq)[i] = seq[i + 1]
      /\ \A i \in 1 .. m : seq[i] \in IpRange
    BY TailIs
<1>2. t = IF last THEN Tail(seq) ELSE <<rest>> \o Tail(seq)
    BY DEF Rest
<1>3. r \in IpRange /\ r.long = long
    <2> 1 \in 1 .. m
        BY <1>1
    <2> QED
        BY <1>1
<1> HIDE DEF m, t, r
<1>4. Fits(r, k)
    BY <1>3, BlockSizeFits
<1>5. /\ k = LongBits =>
           ~last /\ rest = r /\ long /\ Span(r) = 0 .. (Pow2[LongBits] - 1)
      /\ k # LongBits =>
           /\ last <=> n > Num(r.end)
           /\ n <= Num(r.end) =>
                 /\ rest \in IpRange /\ rest.long = long
                 /\ Num(rest.start) = n /\ rest.end = r.end
    BY <1>3, AdvanceInRange
<1> HIDE DEF last, rest, adv, k
<1>6. /\ p \in Prefix /\ p.long = long
      /\ k \in Nat /\ n \in Nat /\ n > Num(r.start) /\ n <= Num(r.end) + 1
      /\ Block(p) = Num(r.start) .. (n - 1)
      /\ Span(r) = Block(p) \union (n .. Num(r.end))
    BY <1>3, <1>4, CutIs
<1>7. Maximal(Span(r), long)
         = {<<Num(r.start), k>>} \union Maximal(n .. Num(r.end), long)
    BY <1>3, <1>4, MaximalCut
<1>8. /\ Num(r.start) \in Nat /\ Num(r.end) \in Nat
      /\ \A i \in 1 .. m : Num(seq[i].start) \in Nat /\ Num(seq[i].end) \in Nat
    BY <1>1, <1>3, RangeFields
<1> HIDE DEF p, n
<1>9. /\ \A i \in 1 .. (m - 1) : i + 1 \in 1 .. m /\ 1 < i + 1
      /\ \A i, j \in 1 .. (m - 1) : i < j => i + 1 < j + 1
      /\ 1 \in 1 .. m
      /\ \A i \in 1 .. m : i = 1 \/ i \in 2 .. m
      /\ \A i \in 2 .. m : i \in 1 .. m /\ 1 < i
    <2> m \in Nat /\ m > 0
        BY <1>1
    <2> QED
        OBVIOUS
<1>10. /\ SpansOf(seq, long) = Span(r) \union SpansOf(Tail(seq), long)
       /\ Ahead(seq, long)
            = Maximal(Span(r), long) \union Ahead(Tail(seq), long)
    BY SpansTail, AheadTail DEF r
<1>11. \A i \in 2 .. m : n <= Num(seq[i].start)
    <2> TAKE i \in 2 .. m
    <2> Num(seq[1].end) + 1 < Num(seq[i].start)
        BY <1>1, <1>9 DEF Apart
    <2> QED
        BY <1>1, <1>6, <1>8, <1>9
<1>12. CASE last
    <2>1. t = Tail(seq) /\ k # LongBits /\ n > Num(r.end)
        BY <1>2, <1>5, <1>12
    <2>2. n .. Num(r.end) = {}
        BY <1>6, <1>8, <2>1
    <2>3. \A j \in DOMAIN t : t[j].long = long
        BY <1>1, <1>9, <2>1
    <2>4. Apart(t)
        <3> SUFFICES ASSUME NEW i \in 1 .. (m - 1),
                            NEW j \in 1 .. (m - 1), i < j
                     PROVE  Num(seq[i + 1].end) + 1 < Num(seq[j + 1].start)
            BY <1>1, <2>1 DEF Apart
        <3> QED
            BY <1>1, <1>9 DEF Apart
    <2>5. \A j \in DOMAIN t : n <= Num(t[j].start)
        <3> SUFFICES ASSUME NEW j \in 1 .. (m - 1)
                     PROVE  n <= Num(seq[j + 1].start)
            BY <1>1, <2>1
        <3> j + 1 \in 2 .. m
            <4> m \in Nat
                BY <1>1
            <4> QED
                OBVIOUS
        <3> QED
            BY <1>11
    <2>6. SpansOf(seq, long) = Block(p) \union SpansOf(t, long)
        BY <1>6, <1>10, <2>1, <2>2
    <2>7. Ahead(seq, long) = {<<Num(r.start), k>>} \union Ahead(t, long)
        BY <1>7, <1>10, <2>1, <2>2, MaximalOfNone
    <2> QED
        BY <1>1, <1>6, <2>1, <2>3, <2>4, <2>5, <2>6, <2>7 DEF t, r, k, n, p
<1>13. CASE ~last
    <2> DEFINE x == rest
    <2>1. /\ x \in IpRange /\ x.long = long /\ x.end = r.end
          /\ k # LongBits => Num(x.start) = n /\ n <= Num(r.end)
          /\ k = LongBits => x = r
        <3>1. CASE k = LongBits
            BY <1>3, <1>5, <3>1
        <3>2. CASE k # LongBits
            <4> n <= Num(r.end)
                BY <1>5, <1>6, <1>8, <1>13, <3>2
            <4> QED
                BY <1>5, <3>2
        <3> QED
            BY <3>1, <3>2
    <2>2. t = <<x>> \o Tail(seq)
        BY <1>2, <1>13
    <2> HIDE DEF x
    <2>3. /\ t \in Seq(IpRange) /\ DOMAIN t = 1 .. m /\ t # << >>
          /\ t[1] = x /\ \A i \in 2 .. m : t[i] = seq[i]
          /\ Tail(t) = Tail(seq) /\ Len(t) = m
        BY <2>1, <2>2, PutFirst DEF m
    <2>4. \A j \in DOMAIN t : t[j].long = long
        BY <1>1, <1>9, <2>1, <2>3
    <2>5. \A j \in DOMAIN t : t[j].end = seq[j].end
        BY <1>1, <1>9, <2>1, <2>3
    <2>6. Apart(t)
        <3> SUFFICES ASSUME NEW i \in 1 .. m, NEW j \in 1 .. m, i < j
                     PROVE  Num(t[i].end) + 1 < Num(t[j].start)
            BY <2>3 DEF Apart
        <3>1. j \in 2 .. m
            BY <1>1, <1>9
        <3> QED
            BY <1>1, <2>3, <2>5, <3>1 DEF Apart
    <2>7. k # LongBits => \A j \in DOMAIN t : n <= Num(t[j].start)
        BY <1>6, <1>9, <1>11, <2>1, <2>3
    <2>8. k = LongBits => t = seq
        <3> SUFFICES ASSUME k = LongBits PROVE t = seq
            OBVIOUS
        <3>1. \A i \in 1 .. m : t[i] = seq[i]
            BY <1>1, <1>9, <2>1, <2>3
        <3>2. seq \in Seq(IpRange) /\ Len(seq) = m
            BY DEF m
        <3> QED
            BY <1>1, <2>3, <3>1, <3>2
    <2>9. Span(r) = Block(p) \union Span(x)
        <3>1. k # LongBits => Span(x) = n .. Num(r.end)
            BY <2>1 DEF Span
        <3>2. k = LongBits => Span(x) = Span(r)
            BY <2>1
        <3> QED
            BY <1>6, <3>1, <3>2
    <2>10. Maximal(Span(r), long)
              = {<<Num(r.start), k>>} \union Maximal(Span(x), long)
        <3>1. k # LongBits => Span(x) = n .. Num(r.end)
            BY <2>1 DEF Span
        <3>2. k = LongBits => Span(x) = Span(r)
            BY <2>1
        <3> QED
            BY <1>7, <3>1, <3>2
    <2>11. Head(t) = x
        BY <2>3
    <2>12. /\ SpansOf(t, long) = Span(x) \union SpansOf(Tail(seq), long)
           /\ Ahead(t, long)
                = Maximal(Span(x), long) \union Ahead(Tail(seq), long)
        <3>1. /\ SpansOf(t, long) = Span(Head(t)) \union SpansOf(Tail(t), long)
              /\ Ahead(t, long)
                   = Maximal(Span(Head(t)), long) \union Ahead(Tail(t), long)
            BY <2>3, <2>4, SpansTail, AheadTail
        <3> QED
            BY <2>3, <2>11, <3>1
    <2>13. SpansOf(seq, long) = Block(p) \union SpansOf(t, long)
        BY <1>10, <2>9, <2>12
    <2>14. Ahead(seq, long) = {<<Num(r.start), k>>} \union Ahead(t, long)
        BY <1>10, <2>10, <2>12
    <2> QED
        BY <1>5, <1>6, <2>3, <2>4, <2>6, <2>7, <2>8, <2>13, <2>14
        DEF t, r, k, n, p
<1> QED
    BY <1>12, <1>13

(* When the ranges are the whole space, there is one range and its block   *)
(* is the whole space.                                                     *)
LEMMA WholeIsWhole ==
    ASSUME NEW seq \in Seq(IpRange), seq # << >>,
           \A j \in DOMAIN seq : seq[j].long = TRUE,
           Apart(seq),
           SpansOf(seq, TRUE) = 0 .. (Pow2[LongBits] - 1)
    PROVE  BlockSize(Head(seq)) = LongBits
<1> DEFINE P == Pow2[LongBits]
           r == seq[1]
           k == BlockSize(r)
<1>1. /\ P \in Nat /\ P > 0 /\ LongBits \in Nat /\ Bits(TRUE) = LongBits
      /\ 0 % Pow2[LongBits] = 0
    BY Widths, PowerType DEF Bits
<1>2. PICK i \in DOMAIN seq : 0 \in Span(seq[i])
    <2>1. SpansOf(seq, TRUE) = 0 .. (P - 1)
        OBVIOUS
    <2> HIDE DEF P
    <2>2. 0 \in 0 .. (P - 1)
        BY <1>1
    <2> QED
        BY <2>1, <2>2, SpansAre
<1>3. Aligned(0, LongBits) = 0 .. (P - 1)
    <2> HIDE DEF P
    <2>1. Aligned(0, LongBits) = 0 .. (0 + P - 1)
        BY <1>1 DEF Aligned, P
    <2> QED
        BY <1>1, <2>1
<1>4. Aligned(0, LongBits) \subseteq Span(seq[i])
    BY <1>1, <1>2, <1>3, BlockInOne
<1>5. /\ seq[i] \in IpRange /\ r \in IpRange /\ i \in Nat /\ i >= 1
      /\ 1 \in DOMAIN seq /\ Head(seq) = r
    BY TailIs
<1>6. Num(seq[i].start) = 0 /\ Num(seq[i].end) = P - 1
    <2>1. /\ Num(seq[i].start) \in Nat /\ Num(seq[i].end) \in Nat
          /\ Num(seq[i].end) < P
        BY <1>1, <1>5, RangeFields
    <2> HIDE DEF P
    <2>2. 0 \in Span(seq[i]) /\ P - 1 \in Span(seq[i])
        BY <1>1, <1>3, <1>4
    <2> QED
        BY <1>1, <2>1, <2>2 DEF Span
<1>7. i = 1
    <2> SUFFICES ASSUME 1 < i PROVE FALSE
        BY <1>5
    <2>1. Num(r.end) + 1 < Num(seq[i].start)
        BY <1>5 DEF Apart
    <2> QED
        BY <1>5, <1>6, <2>1, RangeFields
<1>8. Fits(r, k)
    BY <1>5, BlockSizeFits
<1> HIDE DEF k, r
<1>9. Num(r.start) = 0 /\ Num(r.end) = P - 1 /\ r.long = TRUE
    BY <1>5, <1>6, <1>7 DEF r
<1>10. k \in Nat /\ k <= LongBits
    BY <1>1, <1>8, <1>9 DEF Fits
<1>11. ASSUME k < LongBits PROVE FALSE
    <2>1. /\ k + 1 \in Nat /\ k + 1 <= LongBits
          /\ Pow2[k + 1] \in Nat /\ Pow2[k + 1] > 0
        BY <1>1, <1>10, <1>11, PowerType
    <2>2. Pow2[k + 1] <= P
        BY <1>1, <2>1, PowerGrows
    <2> HIDE DEF P
    <2>3. 0 % Pow2[k + 1] = 0
        BY <2>1, Division, 0 = 0 * Pow2[k + 1] + 0
    <2>4. 0 + Pow2[k + 1] > (P - 1) + 1
        <3>1. Num(r.start) % Pow2[k + 1] = 0 /\ Bits(r.long) = LongBits
            BY <1>1, <1>9, <2>3
        <3>2. k # LongBits
            BY <1>1, <1>10, <1>11
        <3>3. Num(r.start) + Pow2[k + 1] > Num(r.end) + 1
            BY <1>8, <3>1, <3>2 DEF Fits
        <3> QED
            BY <1>9, <3>3
    <2> QED
        BY <1>1, <2>1, <2>2, <2>4
<1> QED
    BY <1>1, <1>5, <1>10, <1>11 DEF k

(* The blocks of a list of prefixes and one more. *)
LEMMA PairsAppend ==
    ASSUME NEW seq \in Seq(Prefix), NEW p \in Prefix, NEW long
    PROVE  AsPairs(Append(seq, p), long) =
              AsPairs(seq, long)
                \union (IF p.long = long THEN {<<Num(p.start), p.host>>}
                        ELSE {})
<1> DEFINE t == Append(seq, p)
           n == Len(seq)
           Pair(q) == <<Num(q.start), q.host>>
<1>1. /\ n \in Nat /\ DOMAIN seq = 1 .. n /\ DOMAIN t = 1 .. (n + 1)
      /\ t[n + 1] = p /\ \A i \in 1 .. n : t[i] = seq[i]
    BY AppendIs
<1> HIDE DEF t, n, Pair
<1>2. /\ \A i \in 1 .. (n + 1) : i = n + 1 \/ i \in 1 .. n
      /\ \A i \in 1 .. n : i \in 1 .. (n + 1)
      /\ n + 1 \in 1 .. (n + 1)
    <2> n \in Nat
        BY <1>1
    <2> QED
        OBVIOUS
<1>3. \A x : x \in AsPairs(t, long)
                <=> \E i \in 1 .. (n + 1) : t[i].long = long /\ x = Pair(t[i])
    BY <1>1 DEF AsPairs, Pair
<1>4. \A x : x \in AsPairs(seq, long)
                <=> \E i \in 1 .. n : seq[i].long = long /\ x = Pair(seq[i])
    BY <1>1 DEF AsPairs, Pair
<1>5. \A x : x \in AsPairs(t, long)
                <=> \/ x \in AsPairs(seq, long)
                    \/ p.long = long /\ x = Pair(p)
    BY <1>1, <1>2, <1>3, <1>4
<1> QED
    BY <1>5 DEF t, Pair

(* A list without prefixes of a family has no addresses of that family.    *)
LEMMA NoneOf ==
    ASSUME NEW seq, NEW long, \A i \in DOMAIN seq : seq[i].long # long
    PROVE  BlocksOf(seq, long) = {} /\ AsPairs(seq, long) = {}
BY DEF BlocksOf, AsPairs

(* No prefix reaches beyond the address space.                             *)
LEMMA BlocksInSpace ==
    ASSUME NEW seq, seq \in [DOMAIN seq -> Prefix]
    PROVE  BlocksOf(seq, TRUE) \subseteq 0 .. (Pow2[LongBits] - 1)
<1> SUFFICES ASSUME NEW i \in DOMAIN seq, seq[i].long = TRUE,
                    NEW n \in Block(seq[i])
             PROVE  n \in 0 .. (Pow2[LongBits] - 1)
    BY BlocksAre
<1>1. seq[i] \in Prefix
    OBVIOUS
<1>2. /\ Num(seq[i].start) \in Nat /\ Pow2[seq[i].host] \in Nat
      /\ Num(seq[i].start) + Pow2[seq[i].host] <= Pow2[LongBits]
      /\ Pow2[LongBits] \in Nat
    BY <1>1, PrefixFields, Widths DEF Bits
<1> QED
    BY <1>2 DEF Block

-----------------------------------------------------------------------------
(* The invariant of the normalizer. *)

(* A family is taken up. *)
LEMMA EnterFamily ==
    ASSUME (\A i \in DOMAIN out' : out'[i].long # Now'),
           todo' = Places(kept', Now'), merged' = << >>
    PROVE  Merging' /\ Cutting'
<1>1. BlocksOf(out', Now') = {} /\ AsPairs(out', Now') = {}
    BY NoneOf
<1>2. /\ SpansOf(merged', Now') = {} /\ Ahead(merged', Now') = {}
      /\ DOMAIN merged' = {}
    BY DEF SpansOf, Ahead
<1>3. Left' = BlocksOf(kept', Now')
    BY DEF Left, Places, BlocksOf
<1>4. todo' = {} => BlocksOf(kept', Now') = {}
    BY <1>3 DEF Left
<1>5. Merging'
    BY <1>1, <1>2, <1>3 DEF Merging, Apart, Places
<1>6. Cutting'
    BY <1>1, <1>2, <1>3, <1>4, MaximalOfNone DEF Cutting
<1> QED
    BY <1>5, <1>6

(* The floor and the suppression leave what they should, and the IPv4      *)
(* prefixes are taken up.                                                  *)
LEMMA PassStep ==
    ASSUME ListInv, Pass
    PROVE  Passing' /\ Tidy'
<1> DEFINE left == {i \in DOMAIN parsed :
                       /\ parsed[i].host # Bits(parsed[i].long)
                       /\ ~\E o \in own : Overlaps(parsed[i], o)}
<1>1. /\ phase = "idle" /\ phase' = "short"
      /\ kept' = Suppress(Floor(parsed), own)
      /\ todo' = Places(kept', FALSE)
      /\ merged' = merged /\ out' = out
      /\ parsed' = parsed /\ own' = own /\ ownThen' = ownThen
    BY DEF Pass, Begin, parserVars
<1>2. /\ parsed \in Seq(Prefix) /\ own \subseteq Prefix
      /\ ownThen \in {{}, own} /\ merged = << >> /\ out = << >>
    BY <1>1 DEF ListInv, Reading, ParserTypeOK, Passing, Working
<1>3. kept' = [i \in left |-> parsed[i]]
    <2> DEFINE given == Floor(parsed)
    <2>1. /\ DOMAIN given =
                {i \in DOMAIN parsed :
                    /\ parsed[i].host # Bits(parsed[i].long)
                    /\ ~\E o \in ownThen : Overlaps(parsed[i], o)}
          /\ \A i \in DOMAIN given : given[i] = parsed[i]
        BY DEF Floor
    <2> HIDE DEF given
    <2>2. {i \in DOMAIN given : ~\E o \in own : Overlaps(given[i], o)} = left
        BY <1>2, <2>1
    <2>3. Suppress(given, own) = [i \in left |-> given[i]]
        BY <2>2 DEF Suppress
    <2>4. \A i \in left : given[i] = parsed[i]
        BY <2>1, <2>2
    <2> QED
        BY <1>1, <2>3, <2>4 DEF given
<1>4. KeptIs'
    BY <1>1, <1>3 DEF KeptIs
<1>5. NormTypeOK'
    <2>1. DOMAIN kept' = left /\ \A i \in left : kept'[i] = parsed[i]
        BY <1>3
    <2>2. left \subseteq Nat /\ \A i \in left : parsed[i] \in Prefix
        BY <1>2
    <2>3. kept' \in [DOMAIN kept' -> Prefix] /\ DOMAIN kept' \subseteq Nat
        BY <1>3, <2>1, <2>2
    <2>4. todo' \subseteq DOMAIN kept'
        BY <1>1 DEF Places
    <2> QED
        <3> /\ phase' \in {"idle", "short", "long", "done"}
            /\ merged' \in Seq(IpRange) /\ out' \in Seq(Prefix)
            BY <1>1, <1>2
        <3> QED
            BY <2>3, <2>4 DEF NormTypeOK
<1>6. Passing'
    BY <1>1, <1>2, <1>4, <1>5 DEF Passing, Working
<1>7. Now' = FALSE
    BY <1>1 DEF Now
<1>8. Merging' /\ Cutting'
    <2>1. DOMAIN out' = {} /\ merged' = << >>
        BY <1>1, <1>2
    <2>2. todo' = Places(kept', Now')
        BY <1>1, <1>7
    <2> QED
        BY <2>1, <2>2, EnterFamily
<1>9. Tidy'
    BY <1>1, <1>2, <1>8 DEF Tidy, Ordered
<1> QED
    BY <1>6, <1>9

(* What the merging and the cutting start from.                            *)
LEMMA InWork ==
    ASSUME ListInv, phase \in {"short", "long"}
    PROVE  /\ NormTypeOK /\ Merging /\ Cutting
           /\ merged \in Seq(IpRange) /\ out \in Seq(Prefix)
           /\ Now \in BOOLEAN
           /\ \A i \in DOMAIN kept : kept[i] \in Prefix
           /\ todo \subseteq DOMAIN kept
BY DEF ListInv, Passing, NormTypeOK, Tidy, Working, Now

(* Merging: the place that is taken is the least, so its range starts no   *)
(* earlier than those that are merged already.                             *)
LEMMA MergeStep ==
    ASSUME ListInv, Merge, UNCHANGED <<own, ownThen, parsed>>
    PROVE  Passing' /\ Tidy'
<1>1. /\ phase \in {"short", "long"}
      /\ phase' = phase /\ kept' = kept /\ out' = out
    BY DEF Merge
<1>2. PICK i \in todo :
          /\ Least(i) /\ todo' = todo \ {i}
          /\ merged' = Merged(merged, RangeOf(kept[i]))
    BY DEF Merge, Merged
<1> DEFINE r == RangeOf(kept[i])
           t == Merged(merged, r)
<1>3. /\ kept[i] \in Prefix /\ kept[i].long = Now
      /\ r \in IpRange /\ r.long = Now /\ r.start = kept[i].start
      /\ Span(r) = Block(kept[i])
    <2>1. kept[i] \in Prefix /\ kept[i].long = Now
        BY <1>1, InWork DEF Merging
    <2> QED
        BY <2>1, RangeOfIs
<1> HIDE DEF r
<1>4. \A j \in todo : Num(r.start) <= Num(kept[j].start)
    <2> TAKE j \in todo
    <2>1. /\ kept[j] \in Prefix /\ kept[j].start \in Uint
          /\ Num(kept[j].start) \in Nat
        BY <1>1, InWork, PrefixFields
    <2>2. /\ kept[i].start \in Uint /\ Num(kept[i].start) \in Nat
        BY <1>3, PrefixFields
    <2>3. \/ j = i \/ Before(kept[i], kept[j]) \/ kept[i] = kept[j]
        BY <1>2 DEF Least
    <2>4. Before(kept[i], kept[j]) =>
              Num(kept[i].start) <= Num(kept[j].start)
        BY <2>1, <2>2, BelowIsLess DEF Before
    <2> QED
        BY <1>3, <2>1, <2>2, <2>3, <2>4
<1>5. /\ t \in Seq(IpRange)
      /\ \A j \in DOMAIN t : t[j].long = Now
      /\ \A j \in DOMAIN t : Num(t[j].start) <= Num(r.start)
      /\ Apart(t)
      /\ SpansOf(t, Now) = SpansOf(merged, Now) \union Block(kept[i])
    <2>1. /\ merged \in Seq(IpRange) /\ Now \in BOOLEAN
          /\ \A j \in DOMAIN merged : merged[j].long = Now
          /\ Apart(merged)
          /\ \A j \in DOMAIN merged : Num(merged[j].start) <= Num(r.start)
        BY <1>1, <1>2, <1>3, InWork DEF Merging
    <2> QED
        BY <1>3, <2>1, MergedIs
<1>6. merged' = t
    BY <1>2 DEF r
<1> HIDE DEF t
<1>7. Left = Block(kept[i]) \union Left'
    BY <1>1, <1>2 DEF Left
<1>8. Now' = Now /\ (Endless <=> Endless')
    BY <1>1 DEF Now, Endless
<1>9. BlocksOf(out, Now) = {} /\ AsPairs(out, Now) = {}
    BY <1>1, <1>2, InWork, NoneOf DEF Merging
<1>10. /\ SpansOf(t, Now) \union Left' = BlocksOf(kept, Now)
       /\ \A j \in todo' : kept[j].long = Now
       /\ \A j \in DOMAIN out : out[j].long # Now
    <2>1. /\ BlocksOf(out, Now) \union SpansOf(merged, Now) \union Left
                = BlocksOf(kept, Now)
          /\ \A j \in todo : kept[j].long = Now
          /\ \A j \in DOMAIN out : out[j].long # Now
        BY <1>1, <1>2, InWork DEF Merging
    <2> QED
        BY <1>2, <1>5, <1>7, <1>9, <2>1
<1>11. Merging'
    <2>1. \A j \in todo', h \in DOMAIN t :
              Num(t[h].start) <= Num(kept[j].start)
        <3> TAKE j \in todo', h \in DOMAIN t
        <3>1. j \in todo /\ kept[j] \in Prefix /\ t[h] \in IpRange
            BY <1>1, <1>2, <1>5, InWork
        <3>2. /\ Num(t[h].start) \in Nat /\ Num(r.start) \in Nat
              /\ Num(kept[j].start) \in Nat
            BY <1>3, <3>1, RangeFields, PrefixFields
        <3> QED
            BY <1>4, <1>5, <3>1, <3>2
    <2>2. BlocksOf(out, Now) \union SpansOf(t, Now) \union Left'
              = BlocksOf(kept, Now)
        BY <1>9, <1>10
    <2> QED
        BY <1>1, <1>5, <1>6, <1>8, <1>10, <2>1, <2>2 DEF Merging
<1>12. Cutting'
    <2>1. todo' = {} =>
              AsPairs(out, Now) \union Ahead(t, Now)
                  = Maximal(BlocksOf(kept, Now), Now)
        <3> SUFFICES ASSUME todo' = {}
                     PROVE  AsPairs(out, Now) \union Ahead(t, Now)
                               = Maximal(BlocksOf(kept, Now), Now)
            OBVIOUS
        <3>1. Left' = {}
            BY DEF Left
        <3>2. Maximal(SpansOf(t, Now), Now) = Ahead(t, Now)
            BY <1>1, <1>5, InWork, MaximalOfAll DEF Ahead
        <3>3. SpansOf(t, Now) = BlocksOf(kept, Now)
            BY <1>10, <3>1
        <3> QED
            BY <1>9, <3>2, <3>3
    <2>2. SpansOf(t, Now) \union Left' = BlocksOf(kept, Now)
        BY <1>10
    <2>3. \A j \in DOMAIN out : out[j].long # Now
        BY <1>10
    <2> QED
        BY <1>1, <1>6, <1>8, <2>1, <2>2, <2>3 DEF Cutting
<1>13. NormTypeOK'
    BY <1>1, <1>2, <1>5, <1>6, InWork DEF NormTypeOK
<1>14. Passing'
    BY <1>1, <1>13 DEF Passing, ListInv, KeptIs, Working
<1>15. Tidy'
    BY <1>1, <1>8, <1>11, <1>12 DEF Tidy, ListInv, Working, Finished
<1> QED
    BY <1>14, <1>15

(* Cutting: the block that goes out is a maximal one, and it follows what  *)
(* is out already.                                                         *)
LEMMA CutStep ==
    ASSUME ListInv, Cut, UNCHANGED <<own, ownThen, parsed>>
    PROVE  Passing' /\ Tidy'
<1> DEFINE r == Head(merged)
           k == BlockSize(r)
           n == Num(r.start) + Pow2[k]
           p == [long |-> r.long, start |-> r.start, host |-> k]
           t == Rest(merged)
<1>1. /\ phase \in {"short", "long"} /\ todo = {} /\ merged # << >>
      /\ phase' = phase /\ kept' = kept /\ todo' = todo
      /\ out' = Append(out, p) /\ merged' = t
    BY DEF Cut, Rest
<1>2. /\ merged \in Seq(IpRange) /\ out \in Seq(Prefix) /\ Now \in BOOLEAN
      /\ \A j \in DOMAIN merged : merged[j].long = Now
      /\ Apart(merged)
      /\ BlocksOf(out, Now) \union SpansOf(merged, Now) = BlocksOf(kept, Now)
    <2> Left = {}
        BY <1>1 DEF Left
    <2> QED
        BY <1>1, InWork DEF Merging
<1>3. /\ p \in Prefix /\ p.long = Now
      /\ t \in Seq(IpRange)
      /\ \A j \in DOMAIN t : t[j].long = Now
      /\ Apart(t)
      /\ SpansOf(merged, Now) = Block(p) \union SpansOf(t, Now)
      /\ Ahead(merged, Now) = {<<Num(r.start), k>>} \union Ahead(t, Now)
      /\ k # LongBits => \A j \in DOMAIN t : n <= Num(t[j].start)
      /\ k = LongBits =>
            t = merged /\ Now /\ Span(r) = 0 .. (Pow2[LongBits] - 1)
    BY <1>1, <1>2, RestIs
<1>4. p.start = r.start /\ p.host = k
    OBVIOUS
<1>5. /\ 1 \in DOMAIN merged /\ r = merged[1] /\ r \in IpRange
    BY <1>1, <1>2, TailIs
<1>6. /\ out' \in Seq(Prefix) /\ Len(out) \in Nat
      /\ DOMAIN out = 1 .. Len(out) /\ DOMAIN out' = 1 .. (Len(out) + 1)
      /\ out'[Len(out) + 1] = p
      /\ \A i \in 1 .. Len(out) : out'[i] = out[i]
    BY <1>1, <1>2, <1>3, AppendIs
<1> HIDE DEF p, t
<1>7. /\ n \in Nat /\ Num(r.start) \in Nat /\ Num(r.start) <= n
      /\ \A j \in DOMAIN t : Num(t[j].start) \in Nat
    <2>1. Num(p.start) \in Nat /\ Pow2[p.host] \in Nat
        BY <1>3, PrefixFields
    <2>2. \A j \in DOMAIN t : t[j] \in IpRange
        BY <1>3
    <2> QED
        BY <1>4, <2>1, <2>2, RangeFields
<1> HIDE DEF n, k, r
<1>8. Now' = Now /\ (Endless <=> Endless') /\ Left' = {}
    BY <1>1 DEF Now, Endless, Left
(* Only the whole space is never cut.                                      *)
<1>9. Now /\ Endless => k = LongBits
    <2> SUFFICES ASSUME Now, Endless PROVE k = LongBits
        OBVIOUS
    <2>1. Now = TRUE
        BY <1>2
    <2>2. SpansOf(merged, TRUE) = 0 .. (Pow2[LongBits] - 1)
        <3> SpansOf(merged, Now) \union Left = BlocksOf(kept, Now)
            BY <1>1, InWork DEF Cutting
        <3> QED
            BY <1>1, <2>1 DEF Left, Endless
    <2> QED
        BY <1>1, <1>2, <2>1, <2>2, WholeIsWhole DEF k, r
<1>10. k = LongBits => Now /\ Endless
    <2> SUFFICES ASSUME k = LongBits PROVE Now /\ Endless
        OBVIOUS
    <2>1. Now = TRUE /\ Span(r) = 0 .. (Pow2[LongBits] - 1)
        BY <1>2, <1>3
    <2>2. Span(r) \subseteq SpansOf(merged, TRUE)
        BY <1>2, <1>5, <2>1, SpansAre
    <2>3. kept \in [DOMAIN kept -> Prefix]
        BY <1>1, InWork DEF NormTypeOK
    <2>4. BlocksOf(kept, TRUE) \subseteq 0 .. (Pow2[LongBits] - 1)
        BY <2>3, BlocksInSpace
    <2>5. 0 .. (Pow2[LongBits] - 1) \subseteq BlocksOf(kept, TRUE)
        BY <1>2, <2>1, <2>2
    <2> QED
        BY <2>1, <2>4, <2>5 DEF Endless
<1>11. BlocksOf(out', Now) = BlocksOf(out, Now) \union Block(p)
    BY <1>1, <1>2, <1>3, BlocksAppend DEF p
<1>12. AsPairs(out', Now) = AsPairs(out, Now) \union {<<Num(r.start), k>>}
    <2> AsPairs(out', Now)
            = AsPairs(out, Now) \union {<<Num(p.start), p.host>>}
        BY <1>1, <1>2, <1>3, PairsAppend DEF p
    <2> QED
        BY <1>4
<1>13. Merging'
    <2>1. BlocksOf(out', Now) \union SpansOf(t, Now) \union {}
              = BlocksOf(kept, Now)
        BY <1>2, <1>3, <1>11
    <2> QED
        BY <1>1, <1>3, <1>8, <2>1 DEF Merging
<1>14. ASSUME ~(Now /\ Endless)
       PROVE  \A i \in DOMAIN out : out[i].long = Now =>
                  /\ Num(out[i].start) + Pow2[out[i].host] <= Num(r.start)
                  /\ Num(out[i].start) + Pow2[out[i].host] \in Nat
    <2> SUFFICES ASSUME NEW i \in DOMAIN out, out[i].long = Now
                 PROVE
                  /\ Num(out[i].start) + Pow2[out[i].host] <= Num(r.start)
                  /\ Num(out[i].start) + Pow2[out[i].host] \in Nat
        OBVIOUS
    <2>1. Num(out[i].start) + Pow2[out[i].host] <= Num(r.start)
        BY <1>1, <1>5, <1>14, InWork DEF Cutting
    <2>2. out[i] \in Prefix
        BY <1>2
    <2>3. Num(out[i].start) \in Nat /\ Pow2[out[i].host] \in Nat
        BY <2>2, PrefixFields
    <2> QED
        BY <2>1, <2>3
<1>15. \A i \in DOMAIN out' : i = Len(out) + 1 \/ i \in 1 .. Len(out)
    <2> Len(out) \in Nat
        BY <1>6
    <2> QED
        BY <1>6
<1>16. Cutting'
    <2>1. Now /\ Endless => SpansOf(t, Now) \union {} = BlocksOf(kept, Now)
        <3> SUFFICES ASSUME Now, Endless
                     PROVE  SpansOf(t, Now) = BlocksOf(kept, Now)
            OBVIOUS
        <3>1. t = merged
            BY <1>3, <1>9
        <3>2. SpansOf(merged, Now) \union Left = BlocksOf(kept, Now)
            BY <1>1, InWork DEF Cutting
        <3> QED
            BY <1>1, <3>1, <3>2 DEF Left
    <2>2. ASSUME ~(Now /\ Endless)
          PROVE  \A i \in DOMAIN out', j \in DOMAIN t :
                    out'[i].long = Now =>
                       Num(out'[i].start) + Pow2[out'[i].host]
                          <= Num(t[j].start)
        <3> TAKE i \in DOMAIN out', j \in DOMAIN t
        <3> HAVE out'[i].long = Now
        <3>1. n <= Num(t[j].start)
            BY <1>3, <1>10, <2>2
        <3>2. CASE i = Len(out) + 1
            BY <1>4, <1>6, <3>1, <3>2 DEF n
        <3>3. CASE i \in 1 .. Len(out)
            BY <1>6, <1>7, <1>14, <2>2, <3>1, <3>3
        <3> QED
            BY <1>15, <3>2, <3>3
    <2>3. AsPairs(out', Now) \union Ahead(t, Now)
              = Maximal(BlocksOf(kept, Now), Now)
        <3> AsPairs(out, Now) \union Ahead(merged, Now)
                = Maximal(BlocksOf(kept, Now), Now)
            BY <1>1, InWork DEF Cutting
        <3> QED
            BY <1>3, <1>12
    <2> QED
        BY <1>1, <1>8, <2>1, <2>2, <2>3 DEF Cutting
<1>17. NormTypeOK'
    BY <1>1, <1>3, <1>6, InWork DEF NormTypeOK
<1>18. Passing'
    BY <1>1, <1>17 DEF Passing, ListInv, KeptIs, Working
<1>19. ~(Now /\ Endless) => Ordered(out')
    <2> SUFFICES ASSUME ~(Now /\ Endless),
                        NEW i \in DOMAIN out', NEW j \in DOMAIN out', i < j
                 PROVE  Precedes(out'[i], out'[j])
        BY DEF Ordered
    <2>1. i \in 1 .. Len(out)
        BY <1>6
    <2>2. CASE j \in 1 .. Len(out)
        BY <1>6, <2>1, <2>2 DEF ListInv, Tidy, Ordered
    <2>3. CASE j = Len(out) + 1
        <3>1. out'[i] = out[i] /\ out'[j] = p /\ i \in DOMAIN out
            BY <1>6, <2>1, <2>3
        <3>2. CASE out[i].long = Now
            BY <1>3, <1>4, <1>14, <3>1, <3>2 DEF Precedes
        <3>3. CASE out[i].long # Now
            <4> Now
                <5>1. out[i].long \in BOOLEAN
                    BY <1>2, <3>1, PrefixFields
                <5>2. phase = "short" => ~out[i].long
                    BY <3>1 DEF ListInv, Tidy
                <5> QED
                    BY <1>1, <1>2, <3>3, <5>1, <5>2 DEF Now
            <4> QED
                BY <1>3, <3>1, <3>3 DEF Precedes
        <3> QED
            BY <3>2, <3>3
    <2> QED
        BY <1>15, <2>2, <2>3
<1>20. phase = "short" => \A i \in DOMAIN out' : ~out'[i].long
    <2> SUFFICES ASSUME phase = "short", NEW i \in DOMAIN out'
                 PROVE  ~out'[i].long
        OBVIOUS
    <2>1. CASE i = Len(out) + 1
        BY <1>3, <1>6, <2>1 DEF Now
    <2>2. CASE i \in 1 .. Len(out)
        BY <1>6, <2>2 DEF ListInv, Tidy
    <2> QED
        BY <1>15, <2>1, <2>2
<1>21. phase = "long" => Finished(FALSE)'
    <2> SUFFICES ASSUME phase = "long" PROVE Finished(FALSE)'
        OBVIOUS
    <2>1. p.long # FALSE /\ out' = Append(out, p)
        BY <1>1, <1>3 DEF Now, p
    <2>2. BlocksOf(out', FALSE) = BlocksOf(out, FALSE)
        <3> \A long \in BOOLEAN :
                BlocksOf(Append(out, p), long) = BlocksOf(out, long)
                    \union (IF p.long = long THEN Block(p) ELSE {})
            BY <1>2, <1>3, BlocksAppend
        <3> QED
            BY <2>1
    <2>3. AsPairs(out', FALSE) = AsPairs(out, FALSE)
        <3> \A long \in BOOLEAN :
                AsPairs(Append(out, p), long) = AsPairs(out, long)
                    \union (IF p.long = long
                            THEN {<<Num(p.start), p.host>>} ELSE {})
            BY <1>2, <1>3, PairsAppend
        <3> QED
            BY <2>1
    <2> QED
        BY <1>1, <2>2, <2>3 DEF Finished, ListInv, Tidy
<1>22. Tidy'
    BY <1>1, <1>8, <1>13, <1>16, <1>19, <1>20, <1>21 DEF Tidy
<1> QED
    BY <1>18, <1>22

(* A family ends when nothing is left of it; the whole IPv6 space never    *)
(* does.                                                                   *)
LEMMA EndStep ==
    ASSUME ListInv, EndFamily, UNCHANGED <<own, ownThen, parsed>>
    PROVE  Passing' /\ Tidy'
<1>1. /\ phase \in {"short", "long"} /\ todo = {} /\ merged = << >>
      /\ kept' = kept /\ merged' = merged /\ out' = out
      /\ phase = "short" => phase' = "long" /\ todo' = Places(kept, TRUE)
      /\ phase = "long" => phase' = "done" /\ todo' = todo
    BY DEF EndFamily
<1>2. /\ SpansOf(merged, Now) = {} /\ Ahead(merged, Now) = {} /\ Left = {}
    BY <1>1 DEF SpansOf, Ahead, Left
<1>3. Finished(Now)
    BY <1>1, <1>2, InWork DEF Merging, Cutting, Finished
<1>4. ~(Now /\ Endless)
    <2> SUFFICES ASSUME Now, Endless PROVE FALSE
        OBVIOUS
    <2>1. BlocksOf(kept, Now) = {}
        BY <1>1, <1>2, InWork DEF Cutting
    <2>2. Now = TRUE
        BY <1>1, InWork
    <2>3. 0 \in 0 .. (Pow2[LongBits] - 1)
        BY Widths
    <2> QED
        BY <2>1, <2>2, <2>3 DEF Endless
<1>5. Ordered(out)
    BY <1>4 DEF ListInv, Tidy
<1>6. CASE phase = "short"
    <2>1. Now = FALSE /\ Now' = TRUE
        BY <1>1, <1>6 DEF Now
    <2>2. \A i \in DOMAIN out : ~out[i].long
        BY <1>6 DEF ListInv, Tidy
    <2>3. Merging' /\ Cutting'
        BY <1>1, <1>6, <2>1, <2>2, EnterFamily
    <2>4. Tidy'
        BY <1>1, <1>3, <1>5, <1>6, <2>1, <2>3 DEF Tidy, Finished, Ordered
    <2>5. NormTypeOK'
        <3> Places(kept, TRUE) \subseteq DOMAIN kept
            BY DEF Places
        <3> QED
            BY <1>1, <1>6, InWork DEF NormTypeOK
    <2>6. Passing'
        BY <1>1, <1>6, <2>5 DEF Passing, ListInv, KeptIs, Working
    <2> QED
        BY <2>4, <2>6
<1>7. CASE phase = "long"
    <2>1. Now = TRUE /\ Now' = FALSE
        BY <1>1, <1>7 DEF Now
    <2>2. Tidy'
        BY <1>1, <1>3, <1>5, <1>7, <2>1
        DEF Tidy, Finished, Ordered, ListInv, Working
    <2>3. NormTypeOK'
        BY <1>1, <1>7, InWork DEF NormTypeOK
    <2>4. Passing'
        BY <1>1, <1>7, <2>3 DEF Passing, ListInv, KeptIs, Working
    <2> QED
        BY <2>2, <2>4
<1> QED
    BY <1>1, <1>6, <1>7

(* While the normalizer is idle the parser may do what it wants.           *)
LEMMA IdleStep ==
    ASSUME ListInv, UNCHANGED <<own, ownThen, phase, kept, todo, merged, out>>,
           phase = "idle" \/ parsed' = parsed
    PROVE  Passing' /\ Tidy'
<1>1. Passing'
    BY DEF Passing, NormTypeOK, KeptIs, ListInv, Working
<1>2. Tidy'
    <2>1. (Working => Merging /\ Cutting)'
        <3>1. /\ Now' = Now /\ Left' = Left /\ (Endless' <=> Endless)
              /\ (Working' <=> Working)
            BY DEF Now, Left, Endless, Working
        <3>2. Merging => Merging'
            BY <3>1 DEF Merging
        <3>3. Cutting => Cutting'
            BY <3>1 DEF Cutting
        <3> QED
            BY <3>1, <3>2, <3>3 DEF Tidy, ListInv
    <2>2. /\ (phase \in {"idle", "short"} =>
                 \A i \in DOMAIN out : ~out[i].long)'
          /\ (~(Now /\ Endless) => Ordered(out))'
        BY DEF Tidy, ListInv, Now, Endless
    <2>3. /\ (phase \in {"long", "done"} => Finished(FALSE))'
          /\ (phase = "done" => Finished(TRUE))'
        BY DEF Tidy, ListInv, Finished
    <2> QED
        BY <2>1, <2>2, <2>3 DEF Tidy
<1> QED
    BY <1>1, <1>2

(* The invariant holds at the start. *)
LEMMA ListInit == Init => ListInv
<1> SUFFICES ASSUME Init PROVE ListInv
    OBVIOUS
<1>1. Reading
    BY ReadingInit
<1>2. /\ phase = "idle" /\ kept = << >> /\ todo = {} /\ merged = << >>
      /\ out = << >> /\ own \in Owned /\ ownThen \in {{}, own}
    BY DEF Init, NormInit
<1>3. NormTypeOK
    BY <1>2 DEF NormTypeOK
<1>4. Passing
    BY <1>2, <1>3, ListAssumption DEF Passing, Working
<1>5. Tidy
    BY <1>2 DEF Tidy, Working, Ordered
<1> QED
    BY <1>1, <1>4, <1>5 DEF ListInv

(* Every step keeps the invariant. *)
LEMMA ListStep == ListInv /\ [Next]_vars => ListInv'
<1> SUFFICES ASSUME ListInv, [Next]_vars PROVE ListInv'
    OBVIOUS
<1>1. Reading'
    BY ReadingStep DEF ListInv
<1>2. CASE Parse
    BY <1>1, <1>2, IdleStep DEF Parse, ListInv
<1>3. CASE Pass
    BY <1>1, <1>3, PassStep DEF ListInv
<1>4. CASE Process
    <2>1. UNCHANGED <<own, ownThen, parsed>> /\ NormNext
        BY <1>4 DEF Process, parserVars
    <2>2. CASE Merge
        BY <1>1, <2>1, <2>2, MergeStep DEF ListInv
    <2>3. CASE Cut
        BY <1>1, <2>1, <2>3, CutStep DEF ListInv
    <2>4. CASE EndFamily
        BY <1>1, <2>1, <2>4, EndStep DEF ListInv
    <2> QED
        BY <2>1, <2>2, <2>3, <2>4 DEF NormNext
<1>5. CASE UNCHANGED vars
    BY <1>1, <1>5, IdleStep DEF vars, parserVars, ListInv
<1> QED
    BY <1>2, <1>3, <1>4, <1>5 DEF Next

-----------------------------------------------------------------------------
(* The theorems. *)

(* In every run of every instance the invariant of the list path holds.    *)
LEMMA ListAlways == Spec => []ListInv
BY ListInit, ListStep, PTL DEF Spec

(* Words stay words and ranges run forwards while the cursors of the       *)
(* parser and of the normalizer move.                                      *)
THEOREM ListTypes == Spec => []TypeOK
<1>1. ListInv => TypeOK
    BY DEF ListInv, Reading, Passing, TypeOK
<1> QED
    BY <1>1, ListAlways, PTL

(* What every line becomes: the fewest blocks that cover its addresses,    *)
(* whatever carries and overflows the cursor of a range meets, and a line  *)
(* that cannot be read becomes nothing and is counted.                     *)
THEOREM ParsersAreExact == Spec => []ParsedExactly
<1>1. ListInv => ParsedExactly
    <2> SUFFICES ASSUME ListInv, entries = << >>
                 PROVE  LET offered == Offered(parser, lines)
                        IN  /\ \A long \in BOOLEAN :
                                  BlocksOf(parsed, long)
                                     = Addresses(parser, offered, long)
                            /\ Len(parsed) =
                                 Cardinality(Pieces(parser, offered))
                            /\ rejected =
                                 Cardinality(Turned(parser, offered, "rejected"))
        BY DEF ParsedExactly
    <2>1. Reading
        BY DEF ListInv
    <2>2. /\ \A reader, long : Addresses(reader, << >>, long) = {}
          /\ \A reader : Pieces(reader, << >>) = {}
          /\ \A reader, result : Turned(reader, << >>, result) = {}
        BY DEF Addresses, Pieces, Turned
    <2>3. /\ \A long \in BOOLEAN : BlocksOf(<< >>, long) = {}
          /\ Cardinality({}) = 0
        BY FS_EmptySet DEF BlocksOf
    <2>4. CASE parser = NoParser
        <3>1. /\ lines = << >> /\ parsed = << >> /\ rejected = 0
            BY <2>1, <2>4 DEF Reading
        <3>2. Offered(parser, lines) = << >>
            BY <2>4, <3>1 DEF Offered, NoParser
        <3> QED
            BY <2>2, <2>3, <3>1, <3>2
    <2>5. CASE parser # NoParser /\ header
        <3>1. parser.name = "csv" /\ parser \in Choosable(lines)
            BY <2>1, <2>5 DEF Reading
        <3>2. lines = << >> /\ lines \in Seq(Line)
            BY <2>1, <2>5 DEF Reading
        <3> QED
            BY <3>1, <3>2, CsvHasLines
    <2>6. CASE parser # NoParser /\ ~header
        <3>1. /\ Balance /\ parsed \in Seq(Prefix) /\ rejected \in Nat
            BY <2>1, <2>6 DEF Reading, ParserTypeOK
        <3>2. Len(parsed) + 0 = Len(parsed) /\ rejected + 0 = rejected
            BY <3>1
        <3> QED
            BY <2>2, <2>3, <3>1, <3>2 DEF Balance
    <2> QED
        BY <2>4, <2>5, <2>6
<1> QED
    BY <1>1, ListAlways, PTL

(* A feed of one format is read from end to end: when one of the parsers   *)
(* that read line by line makes sense of every line, the vote chooses one  *)
(* that rejects no line of a kind that it voted on.                        *)
THEOREM WholeFeedIsRead == Spec => []WholeFeedRead
<1>1. ListInv => WholeFeedRead
    <2> SUFFICES ASSUME ListInv, parser # NoParser,
                        NEW name \in {"plain", "range", "spamhaus"},
                        \A i \in DOMAIN lines :
                            Result(Named(name), lines[i]) # "rejected"
                 PROVE  /\ parser.name # "csv"
                        /\ \A i \in DOMAIN lines :
                              (\E j \in DOMAIN Window(lines) :
                                  lines[j].kind = lines[i].kind) =>
                                      Result(parser, lines[i]) # "rejected"
        BY DEF WholeFeedRead
    <2> lines \in Seq(Line) /\ parser \in Choosable(lines)
        BY DEF ListInv, Reading
    <2> QED
        BY ChosenReads
<1> QED
    BY <1>1, ListAlways, PTL

(* The column of a csv feed is a function of its lines: the order in which *)
(* a map of votes is walked makes no difference.                           *)
THEOREM ColumnIsOne == Spec => []ColumnIsDetermined
<1>1. ListInv => ColumnIsDetermined
    <2> SUFFICES ASSUME ListInv, parser.name = "csv",
                        NEW c \in {0, 1} \ {parser.column}
                 PROVE  \/ ColumnVotes(lines, c)
                              < ColumnVotes(lines, parser.column)
                        \/ /\ ColumnVotes(lines, c)
                                = ColumnVotes(lines, parser.column)
                           /\ c > parser.column
        BY DEF ColumnIsDetermined
    <2>1. parser # NoParser
        BY DEF NoParser
    <2>2. lines \in Seq(Line) /\ parser \in Choosable(lines)
        BY <2>1 DEF ListInv, Reading
    <2> QED
        BY <2>2, ChosenColumn
<1> QED
    BY <1>1, ListAlways, PTL

(* At every moment of merging and cutting nothing is lost and nothing is   *)
(* done twice.                                                             *)
THEOREM NothingIsLost == Spec => []Tiling
<1>1. ListInv => Tiling
    <2> SUFFICES ASSUME ListInv, phase \in {"short", "long"}, ~Endless
                 PROVE  /\ BlocksOf(out, Now) \union SpansOf(merged, Now)
                             \union Left = BlocksOf(kept, Now)
                        /\ BlocksOf(out, Now) \intersect SpansOf(merged, Now)
                              = {}
        BY DEF Tiling, Now, Left
    <2>1. BlocksOf(out, Now) \union SpansOf(merged, Now) \union Left
              = BlocksOf(kept, Now)
        BY InWork DEF Merging
    <2>2. ASSUME NEW x \in BlocksOf(out, Now), x \in SpansOf(merged, Now)
          PROVE  FALSE
        <3>1. PICK i \in DOMAIN out : out[i].long = Now /\ x \in Block(out[i])
            BY <2>2, BlocksAre
        <3>2. PICK j \in DOMAIN merged : x \in Span(merged[j])
            BY <2>2 DEF SpansOf
        <3>3. out[i] \in Prefix /\ merged[j] \in IpRange
            BY InWork
        <3>4. Num(out[i].start) + Pow2[out[i].host] <= Num(merged[j].start)
            BY <3>1, InWork DEF Cutting
        <3>5. /\ Num(out[i].start) \in Nat /\ Pow2[out[i].host] \in Nat
              /\ Num(merged[j].start) \in Nat
            BY <3>3, PrefixFields, RangeFields
        <3> QED
            BY <3>1, <3>2, <3>4, <3>5 DEF Block, Span
    <2> QED
        BY <2>1, <2>2
<1> QED
    BY <1>1, ListAlways, PTL

(* The result is the sequence of the maximal aligned blocks of what was    *)
(* kept, in order: it depends on the addresses alone.                      *)
THEOREM ResultIsCanonical == Spec => []Canonical
<1>1. ListInv => Canonical
    <2> SUFFICES ASSUME ListInv, phase = "done"
                 PROVE  /\ InOrder(out)
                        /\ \A long \in BOOLEAN :
                              AsPairs(out, long)
                                 = Maximal(BlocksOf(kept, long), long)
        BY DEF Canonical
    <2>1. /\ Ordered(out) /\ Finished(FALSE) /\ Finished(TRUE)
        BY DEF ListInv, Tidy, Now
    <2>2. InOrder(out)
        <3> SUFFICES ASSUME NEW i \in 1 .. (Len(out) - 1)
                     PROVE  Precedes(out[i], out[i + 1])
            BY DEF InOrder, Precedes
        <3>1. out \in Seq(Prefix)
            BY DEF ListInv, Passing, NormTypeOK
        <3>2. i \in DOMAIN out /\ i + 1 \in DOMAIN out /\ i < i + 1
            BY <3>1
        <3> QED
            BY <2>1, <3>2 DEF Ordered
    <2>3. \A long \in BOOLEAN : Finished(long)
        BY <2>1
    <2> QED
        BY <2>2, <2>3 DEF Finished
<1> QED
    BY <1>1, ListAlways, PTL

(* No address of the operator's own networks reaches an alias, whatever    *)
(* the floor knew of them, and nothing else but default routes is lost.    *)
THEOREM OwnIsSpared == Spec => []OwnSpared
<1>1. ListInv => OwnSpared
    <2> DEFINE mine(long) ==
                  UNION {Block(o) : o \in {q \in own : q.long = long}}
    <2> SUFFICES ASSUME ListInv, phase = "done", NEW long \in BOOLEAN
                 PROVE  /\ BlocksOf(out, long) \intersect mine(long) = {}
                        /\ \A i \in DOMAIN parsed :
                              (parsed[i].long = long
                                 /\ parsed[i].host # Bits(long)
                                 /\ Block(parsed[i]) \intersect mine(long) = {})
                               => Block(parsed[i]) \subseteq BlocksOf(out, long)
        BY DEF OwnSpared
    <2>1. \A x : x \in mine(long) <=>
                    \E o \in own : o.long = long /\ x \in Block(o)
        OBVIOUS
    <2> HIDE DEF mine
    <2>2. BlocksOf(out, long) = BlocksOf(kept, long)
        BY DEF ListInv, Tidy, Finished
    <2>3. /\ DOMAIN kept = {i \in DOMAIN parsed :
                               /\ parsed[i].host # Bits(parsed[i].long)
                               /\ ~\E o \in own : Overlaps(parsed[i], o)}
          /\ \A i \in DOMAIN kept : kept[i] = parsed[i]
        BY DEF ListInv, Passing, KeptIs
    <2>4. own \subseteq Prefix /\ \A i \in DOMAIN parsed : parsed[i] \in Prefix
        BY DEF ListInv, Passing, Reading, ParserTypeOK
    <2>5. ASSUME NEW x \in BlocksOf(kept, long), x \in mine(long)
          PROVE  FALSE
        <3>1. PICK i \in DOMAIN kept :
                  kept[i].long = long /\ x \in Block(kept[i])
            BY BlocksAre
        <3>2. PICK o \in own : o.long = long /\ x \in Block(o)
            BY <2>1, <2>5
        <3>3. Overlaps(parsed[i], o)
            BY <2>3, <2>4, <3>1, <3>2, OverlapIs
        <3> QED
            BY <2>3, <3>1, <3>3
    <2>6. ASSUME NEW i \in DOMAIN parsed, parsed[i].long = long,
                 parsed[i].host # Bits(long),
                 Block(parsed[i]) \intersect mine(long) = {}
          PROVE  Block(parsed[i]) \subseteq BlocksOf(kept, long)
        <3>1. ~\E o \in own : Overlaps(parsed[i], o)
            <4> SUFFICES ASSUME NEW o \in own, Overlaps(parsed[i], o)
                         PROVE  FALSE
                OBVIOUS
            <4>1. o.long = long /\ Block(parsed[i]) \intersect Block(o) # {}
                BY <2>4, <2>6, OverlapIs
            <4> QED
                BY <2>1, <2>6, <4>1
        <3>2. i \in DOMAIN kept /\ kept[i] = parsed[i]
            BY <2>3, <2>6, <3>1
        <3> QED
            BY <2>6, <3>2, BlocksAre
    <2> QED
        BY <2>2, <2>5, <2>6
<1> QED
    BY <1>1, ListAlways, PTL

-----------------------------------------------------------------------------
(* What it means that the result is canonical. *)

(* Prefixes that are ordered pair by pair are ordered.                     *)
LEMMA InOrderIs ==
    ASSUME NEW seq \in Seq(Prefix), InOrder(seq)
    PROVE  Ordered(seq)
<1>1. \A i \in DOMAIN seq :
          /\ seq[i].long \in BOOLEAN /\ Num(seq[i].start) \in Nat
          /\ Pow2[seq[i].host] \in Nat /\ Pow2[seq[i].host] > 0
    BY PrefixFields
<1>2. DOMAIN seq = 1 .. Len(seq) /\ Len(seq) \in Nat
    OBVIOUS
<1>3. SUFFICES ASSUME NEW i \in DOMAIN seq
      PROVE  \A j \in DOMAIN seq : i < j => Precedes(seq[i], seq[j])
    BY DEF Ordered
<1> DEFINE Bad == {j \in DOMAIN seq : i < j /\ ~Precedes(seq[i], seq[j])}
<1>4. SUFFICES ASSUME Bad # {} PROVE FALSE
    OBVIOUS
<1>5. PICK j \in Bad : \A h \in Bad : j <= h
    <2> Bad \in SUBSET Nat
        BY <1>2
    <2> HIDE DEF Bad
    <2> QED
        BY <1>4, LeastMember
<1>6. /\ j - 1 \in 1 .. (Len(seq) - 1) /\ (j - 1) + 1 = j
      /\ j - 1 \in DOMAIN seq /\ ~(j <= j - 1)
      /\ j - 1 = i \/ i < j - 1
    BY <1>2, <1>5
<1>7. Precedes(seq[j - 1], seq[j])
    <2> InOrder(seq) /\ j - 1 \in 1 .. (Len(seq) - 1)
        BY <1>6
    <2> QED
        BY <1>6 DEF InOrder, Precedes
<1>8. j - 1 \notin Bad
    <2> HIDE DEF Bad
    <2> QED
        BY <1>5, <1>6
<1>9. j - 1 = i \/ Precedes(seq[i], seq[j - 1])
    BY <1>6, <1>8
<1>10. j \in DOMAIN seq /\ ~Precedes(seq[i], seq[j])
    BY <1>5
<1>11. Precedes(seq[i], seq[j - 1])
    BY <1>7, <1>9, <1>10
<1> HIDE DEF Bad
<1> DEFINE p == seq[i]
           q == seq[j - 1]
           r == seq[j]
<1>12. /\ p.long \in BOOLEAN /\ q.long \in BOOLEAN /\ r.long \in BOOLEAN
       /\ Num(p.start) \in Nat /\ Pow2[p.host] \in Nat
       /\ Num(q.start) \in Nat /\ Pow2[q.host] \in Nat
       /\ Num(r.start) \in Nat
    BY <1>1, <1>6, <1>10
<1>13. Precedes(p, q) /\ Precedes(q, r) /\ ~Precedes(p, r)
    BY <1>7, <1>10, <1>11
<1> HIDE DEF p, q, r
<1> QED
    BY <1>12, <1>13 DEF Precedes

(* The result is determined by its blocks: with ResultIsCanonical, lists   *)
(* of the same addresses give the same result, in whatever order and by    *)
(* whatever prefixes they name them.                                       *)
THEOREM ResultIsUnique ==
    ASSUME NEW s \in Seq(Prefix), NEW t \in Seq(Prefix),
           InOrder(s), InOrder(t),
           \A long \in BOOLEAN : AsPairs(s, long) = AsPairs(t, long)
    PROVE  s = t
(* What one has the other has.                                             *)
<1>1. ASSUME NEW u \in Seq(Prefix), NEW v \in Seq(Prefix),
             \A long \in BOOLEAN : AsPairs(u, long) = AsPairs(v, long),
             NEW i \in DOMAIN u
      PROVE  \E j \in DOMAIN v : v[j] = u[i]
    <2>1. u[i] \in Prefix /\ u[i].long \in BOOLEAN
        BY PrefixFields
    <2>2. <<Num(u[i].start), u[i].host>> \in AsPairs(u, u[i].long)
        BY DEF AsPairs
    <2>3. <<Num(u[i].start), u[i].host>> \in AsPairs(v, u[i].long)
        BY <1>1, <2>1, <2>2
    <2>4. PICK j \in DOMAIN v :
              /\ v[j].long = u[i].long
              /\ <<Num(u[i].start), u[i].host>>
                    = <<Num(v[j].start), v[j].host>>
        BY <2>3 DEF AsPairs
    <2>5. v[j] \in Prefix
        OBVIOUS
    <2>6. u[i].start = v[j].start /\ u[i].host = v[j].host
        BY <2>1, <2>4, <2>5, PrefixFields, NumDecides
    <2>7. \A p \in Prefix :
              p = [long |-> p.long, start |-> p.start, host |-> p.host]
        BY DEF Prefix
    <2>8. /\ u[i] = [long |-> u[i].long, start |-> u[i].start,
                     host |-> u[i].host]
          /\ v[j] = [long |-> v[j].long, start |-> v[j].start,
                     host |-> v[j].host]
        BY <2>1, <2>5, <2>7
    <2> QED
        BY <2>4, <2>6, <2>8
<1>2. Ordered(s) /\ Ordered(t)
    BY InOrderIs
(* Nothing precedes itself, and no two precede each other.                 *)
<1>3. \A p, q \in Prefix : Precedes(p, q) => p # q /\ ~Precedes(q, p)
    <2> TAKE p, q \in Prefix
    <2>1. /\ p.long \in BOOLEAN /\ q.long \in BOOLEAN
          /\ Num(p.start) \in Nat /\ Pow2[p.host] \in Nat /\ Pow2[p.host] > 0
          /\ Num(q.start) \in Nat /\ Pow2[q.host] \in Nat /\ Pow2[q.host] > 0
        BY PrefixFields
    <2>2. Precedes(p, q) => ~Precedes(q, p)
        BY <2>1 DEF Precedes
    <2>3. Precedes(p, q) => p # q
        BY <2>2
    <2> QED
        BY <2>2, <2>3
<1>4. ASSUME NEW u \in Seq(Prefix), NEW v \in Seq(Prefix),
             Ordered(u), Ordered(v),
             NEW i \in DOMAIN u, NEW j \in DOMAIN v, v[j] = u[i],
             \A h \in 1 .. (i - 1) : h \in DOMAIN v /\ u[h] = v[h]
      PROVE  i <= j
    <2> SUFFICES ASSUME j < i PROVE FALSE
        BY <1>4
    <2>1. j \in DOMAIN u /\ u[j] = v[j]
        BY <1>4
    <2>2. Precedes(u[j], u[i]) /\ u[j] \in Prefix /\ u[i] \in Prefix
        BY <1>4, <2>1 DEF Ordered
    <2> QED
        BY <1>3, <1>4, <2>1, <2>2
<1> DEFINE Same(i) == i \in DOMAIN s /\ i \in DOMAIN t /\ s[i] = t[i]
           Bad == {i \in DOMAIN s \union DOMAIN t : ~Same(i)}
<1>5. Bad = {}
    <2> SUFFICES ASSUME Bad # {} PROVE FALSE
        OBVIOUS
    <2>1. Bad \in SUBSET Nat
        OBVIOUS
    <2>2. PICK i \in Bad : \A h \in Bad : i <= h
        <3> HIDE DEF Bad
        <3> QED
            BY <2>1, LeastMember
    <2>3. i \in DOMAIN s \union DOMAIN t /\ i \in Nat /\ i >= 1
        OBVIOUS
    <2>4. \A h \in 1 .. (i - 1) :
              h \in DOMAIN s /\ h \in DOMAIN t /\ s[h] = t[h]
        <3> TAKE h \in 1 .. (i - 1)
        <3>1. h \in Nat /\ h < i /\ ~(i <= h)
            BY <2>3
        <3>2. h \notin Bad
            <4> HIDE DEF Bad
            <4> QED
                BY <2>2, <3>1
        <3>3. h \in DOMAIN s \union DOMAIN t
            BY <2>3
        <3> QED
            BY <3>2, <3>3
(* A place of one is a place of the other.                                 *)
    <2>5. ASSUME NEW u \in Seq(Prefix), NEW v \in Seq(Prefix),
                 Ordered(u), Ordered(v), i \in DOMAIN u,
                 \A long \in BOOLEAN : AsPairs(u, long) = AsPairs(v, long),
                 \A h \in 1 .. (i - 1) : h \in DOMAIN v /\ u[h] = v[h]
          PROVE  \E j \in DOMAIN v : v[j] = u[i] /\ i <= j
        <3>1. PICK j \in DOMAIN v : v[j] = u[i]
            BY <1>1, <2>5
        <3>2. i <= j
            BY <1>4, <2>5, <3>1
        <3> QED
            BY <3>1, <3>2
    <2>6. i \in DOMAIN s /\ i \in DOMAIN t
        <3>1. i \in DOMAIN s => \E j \in DOMAIN t : t[j] = s[i] /\ i <= j
            BY <1>2, <2>4, <2>5
        <3>2. i \in DOMAIN t => \E j \in DOMAIN s : s[j] = t[i] /\ i <= j
            BY <1>2, <2>4, <2>5
        <3> QED
            BY <2>3, <3>1, <3>2
    <2>7. PICK j \in DOMAIN t : t[j] = s[i] /\ i <= j
        BY <1>2, <2>4, <2>5, <2>6
    <2>8. PICK h \in DOMAIN s : s[h] = t[i] /\ i <= h
        BY <1>2, <2>4, <2>5, <2>6
    <2>9. s[i] # t[i]
        BY <2>6
    <2>10. i < j /\ i < h
        <3> i # j /\ i # h
            BY <2>7, <2>8, <2>9
        <3> QED
            BY <2>3, <2>7, <2>8
    <2>11. Precedes(t[i], s[i]) /\ Precedes(s[i], t[i])
        BY <1>2, <2>6, <2>7, <2>8, <2>10 DEF Ordered
    <2> QED
        BY <1>3, <2>6, <2>11
<1>6. \A i \in DOMAIN s \union DOMAIN t : Same(i)
    BY <1>5
<1>7. DOMAIN s = DOMAIN t /\ \A i \in DOMAIN s : s[i] = t[i]
    BY <1>6
<1> QED
    BY <1>7

(* An interval inside another.                                             *)
LEMMA Within ==
    ASSUME NEW m \in Nat, NEW u \in Nat, NEW n \in Nat, NEW v \in Nat,
           n <= m, m + u <= n + v
    PROVE  m .. (m + u - 1) \subseteq n .. (n + v - 1)
OBVIOUS

(* A prefix that meets a maximal block of the addresses lies inside it,    *)
(* when it names none but these addresses.                                 *)
LEMMA InsideMaximal ==
    ASSUME NEW p \in Prefix, NEW q \in Prefix, p.long = q.long, NEW set,
           <<Num(p.start), p.host>> \in Maximal(set, p.long),
           Block(q) \subseteq set, Num(p.start) \in Block(q)
    PROVE  Block(q) \subseteq Block(p)
<1> DEFINE n == Num(p.start)
           k == p.host
           m == Num(q.start)
           j == q.host
<1>0. n % Pow2[k] = 0 /\ m % Pow2[j] = 0
    BY PrefixFields
<1>1. /\ n \in Nat /\ k \in Nat /\ k <= Bits(p.long)
      /\ m \in Nat /\ j \in Nat /\ j <= Bits(p.long)
      /\ Pow2[k] \in Nat /\ Pow2[j] \in Nat /\ Pow2[k] > 0 /\ Pow2[j] > 0
      /\ Bits(p.long) \in Nat
    BY PrefixFields, BitsType
<1>2. k = Bits(p.long) \/ ~(Aligned(n, k + 1) \subseteq set)
    BY DEF Maximal, IsMaximal
<1>3. Block(q) = m .. (m + Pow2[j] - 1) /\ Block(p) = n .. (n + Pow2[k] - 1)
    BY DEF Block
<1> HIDE DEF n, k, m, j
<1>4. m <= n /\ n < m + Pow2[j]
    <2> n \in m .. (m + Pow2[j] - 1)
        BY <1>3 DEF n
    <2> QED
        BY <1>1
<1>5. CASE j <= k
    <2>1. n <= m /\ m + Pow2[j] <= n + Pow2[k]
        BY <1>0, <1>1, <1>4, <1>5, Nested
    <2>2. m .. (m + Pow2[j] - 1) \subseteq n .. (n + Pow2[k] - 1)
        BY <1>1, <2>1, Within
    <2> QED
        BY <1>3, <2>2
<1>6. CASE k < j
    <2>1. k + 1 \in Nat /\ k + 1 <= j /\ Pow2[k + 1] \in Nat
        <3> k + 1 \in Nat /\ k + 1 <= j
            BY <1>1, <1>6
        <3> QED
            BY PowerType
    <2>2. PICK f \in Nat :
              /\ Aligned(n, k + 1) = f .. (f + Pow2[k + 1] - 1)
              /\ f <= n /\ n < f + Pow2[k + 1] /\ f % Pow2[k + 1] = 0
        BY <1>1, <2>1, AlignedIs
    <2>3. m <= f /\ f + Pow2[k + 1] <= m + Pow2[j]
        BY <1>0, <1>1, <1>4, <2>1, <2>2, Nested
    <2>4. Aligned(n, k + 1) \subseteq Block(q)
        <3> DEFINE w == Pow2[k + 1]
        <3>1. /\ Aligned(n, k + 1) = f .. (f + w - 1) /\ w \in Nat
              /\ m <= f /\ f + w <= m + Pow2[j]
            BY <2>1, <2>2, <2>3
        <3> HIDE DEF w
        <3> QED
            BY <1>1, <1>3, <2>2, <3>1, Within
    <2>5. k # Bits(p.long)
        BY <1>1, <1>6
    <2> QED
        BY <1>2, <2>4, <2>5
<1> QED
    BY <1>1, <1>5, <1>6

(* "The minimal set of prefixes covering exactly the same address space"   *)
(* (normalize.go:62): no other set has fewer members.                      *)
Smallest ==
    phase = "done" =>
        \A set \in SUBSET Prefix :
            (/\ IsFiniteSet(set)
             /\ \A long \in BOOLEAN :
                   UNION {Block(p) : p \in {q \in set : q.long = long}}
                      = BlocksOf(kept, long))
            => Len(out) <= Cardinality(set)

(* The result of the normalizer is as short as any list of prefixes that   *)
(* names the same addresses: every one of these has a member of its own    *)
(* inside each block of the result.                                        *)
THEOREM ResultIsSmallest == Spec => []Smallest
<1>1. ListInv => Smallest
    <2> SUFFICES ASSUME ListInv, phase = "done",
                        NEW set \in SUBSET Prefix, IsFiniteSet(set),
                        \A long \in BOOLEAN :
                           UNION {Block(p) : p \in {q \in set : q.long = long}}
                              = BlocksOf(kept, long)
                 PROVE  Len(out) <= Cardinality(set)
        BY DEF Smallest
    <2>1. /\ Ordered(out) /\ out \in Seq(Prefix)
          /\ \A long \in BOOLEAN : Finished(long)
        BY DEF ListInv, Tidy, Now, Passing, NormTypeOK
    <2>2. Len(out) \in Nat /\ DOMAIN out = 1 .. Len(out)
        BY <2>1
    <2>3. \A i \in DOMAIN out :
              /\ out[i] \in Prefix /\ out[i].long \in BOOLEAN
              /\ Num(out[i].start) \in Nat /\ Pow2[out[i].host] \in Nat
              /\ Pow2[out[i].host] > 0
        BY <2>1, PrefixFields
    <2>4. \A i \in DOMAIN out :
              \E p \in set : /\ p.long = out[i].long
                             /\ Num(out[i].start) \in Block(p)
        <3> TAKE i \in DOMAIN out
        <3> DEFINE long == out[i].long
        <3>1. Num(out[i].start) \in Block(out[i])
            BY <2>3 DEF Block
        <3>2. Num(out[i].start) \in BlocksOf(out, long)
            BY <3>1, BlocksAre
        <3>3. Num(out[i].start) \in BlocksOf(kept, long)
            BY <2>1, <2>3, <3>2 DEF Finished
        <3>4. Num(out[i].start) \in
                  UNION {Block(p) : p \in {q \in set : q.long = long}}
            BY <2>3, <3>3
        <3> QED
            BY <3>4
    <2> DEFINE f == [i \in 1 .. Len(out) |->
                        CHOOSE p \in set : /\ p.long = out[i].long
                                           /\ Num(out[i].start) \in Block(p)]
    <2>5. \A i \in 1 .. Len(out) :
              /\ f[i] \in set /\ f[i].long = out[i].long
              /\ Num(out[i].start) \in Block(f[i])
        BY <2>2, <2>4
    <2>6. f = [i \in 1 .. Len(out) |-> f[i]]
        OBVIOUS
    <2> HIDE DEF f
    <2>7. f \in [1 .. Len(out) -> set]
        BY <2>5, <2>6
    <2>8. \A i \in DOMAIN out : Block(f[i]) \subseteq Block(out[i])
        <3> TAKE i \in DOMAIN out
        <3> DEFINE long == out[i].long
        <3>1. f[i] \in Prefix /\ out[i] \in Prefix /\ f[i].long = long
            BY <2>2, <2>3, <2>5
        <3>2. Block(f[i]) \subseteq BlocksOf(kept, long)
            <4>1. Block(f[i]) \subseteq
                      UNION {Block(p) : p \in {q \in set : q.long = long}}
                BY <2>2, <2>5
            <4> QED
                BY <2>3, <4>1
        <3>3. <<Num(out[i].start), out[i].host>> \in AsPairs(out, long)
            BY DEF AsPairs
        <3>4. <<Num(out[i].start), out[i].host>>
                  \in Maximal(BlocksOf(kept, long), long)
            BY <2>1, <2>3, <3>3 DEF Finished
        <3> QED
            BY <2>2, <2>5, <3>1, <3>2, <3>4, InsideMaximal
    <2>9. \A i, j \in 1 .. Len(out) : i < j => f[i] # f[j]
        <3> SUFFICES ASSUME NEW i \in 1 .. Len(out), NEW j \in 1 .. Len(out),
                            i < j, f[i] = f[j]
                     PROVE  FALSE
            OBVIOUS
        <3>1. Num(out[j].start) \in Block(out[i])
            BY <2>2, <2>5, <2>8
        <3>2. out[i].long = out[j].long
            BY <2>5
        <3>3. Num(out[i].start) + Pow2[out[i].host] <= Num(out[j].start)
            BY <2>1, <2>2, <3>2 DEF Ordered, Precedes
        <3> QED
            BY <2>2, <2>3, <3>1, <3>3 DEF Block
    <2>10. \A i, j \in 1 .. Len(out) : f[i] = f[j] => i = j
        <3> TAKE i, j \in 1 .. Len(out)
        <3> i < j \/ j < i \/ i = j
            BY <2>2
        <3> QED
            BY <2>9
    <2>11. f \in Injection(1 .. Len(out), set)
        BY <2>7, <2>10 DEF Injection, IsInjective
    <2>12. /\ IsFiniteSet(1 .. Len(out))
           /\ Cardinality(1 .. Len(out)) = Len(out)
        <3> DEFINE n == Len(out)
        <3> HIDE DEF n
        <3>1. n \in Nat /\ n - 1 + 1 = n
            BY <2>2 DEF n
        <3>2. IsFiniteSet(1 .. n) /\ Cardinality(1 .. n) = n
            BY <3>1, FS_Interval
        <3> QED
            BY <3>2 DEF n
    <2>13. Cardinality(1 .. Len(out)) <= Cardinality(set)
        BY <2>11, <2>12, FS_Injection
    <2> QED
        BY <2>12, <2>13
<1> QED
    BY <1>1, ListAlways, PTL
=============================================================================
