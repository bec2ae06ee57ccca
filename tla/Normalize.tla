----------------------------- MODULE Normalize -----------------------------
(***************************************************************************)
(* internal/normalize: prefixes that overlap the operator's own networks   *)
(* are suppressed, the rest is merged into ranges and cut into prefixes    *)
(* again, IPv4 first.  While a range is being cut its start is the cursor. *)
(* A list that something was removed from is a function on the places that *)
(* are left, and the loop over a sorted list takes the least of those that *)
(* are still to do.                                                        *)
(***************************************************************************)
EXTENDS Words, Sequences, SequencesExt

CONSTANT
    MaxBlocks   \* bound on the prefixes in the result

ASSUME NormalizeAssumption == MaxBlocks \in Nat

VARIABLES
    phase,    \* "idle", the family in work ("short", "long"), or "done"
    kept,     \* the prefixes that were not suppressed, by their place
    todo,     \* the places of those that are still to be merged
    merged,   \* the ranges after merging, still to be cut
    out       \* the result so far

normVars == <<phase, kept, todo, merged, out>>

NormTypeOK ==
    /\ phase \in {"idle", "short", "long", "done"}
    /\ kept \in [DOMAIN kept -> Prefix] /\ DOMAIN kept \subseteq Nat
    /\ todo \subseteq DOMAIN kept
    /\ merged \in Seq(IpRange)
    /\ out \in Seq(Prefix)

NormInit ==
    /\ phase = "idle"
    /\ kept = << >> /\ todo = {} /\ merged = << >> /\ out = << >>

-----------------------------------------------------------------------------

(* Mutant: only prefixes inside an own network are suppressed. *)
SuppressInside(given, own) ==
    LET Inside(p, o) == /\ p.long = o.long
                        /\ ~Below(p.start, o.start)
                        /\ ~Below(RangeOf(o).end, RangeOf(p).end)
        left == {i \in DOMAIN given : ~\E o \in own : Inside(given[i], o)}
    IN  [i \in left |-> given[i]]

Suppress(given, own) ==
    LET left == {i \in DOMAIN given : ~\E o \in own : Overlaps(given[i], o)}
    IN  [i \in left |-> given[i]]

(* The places of one family. *)
Places(prefixes, long) == {i \in DOMAIN prefixes : prefixes[i].long = long}

Begin(given, own) ==
    /\ phase = "idle"
    /\ \E left \in {Suppress(given, own)} :
           kept' = left /\ todo' = Places(left, FALSE)
    /\ phase' = "short"
    /\ UNCHANGED <<merged, out>>

-----------------------------------------------------------------------------
(* Merging. *)

(* The ranges of the prefixes in the order of their starts, then ends. *)
Before(p, q) ==
    \/ Below(p.start, q.start)
    \/ p.start = q.start /\ Below(RangeOf(p).end, RangeOf(q).end)

(* No other place comes before i in the sorted list. *)
Least(i) ==
    \A j \in todo \ {i} :
        Before(kept[i], kept[j]) \/ (kept[i] = kept[j] /\ i < j)

(* Mutants: adjacent ranges stay apart; the end is that of the later one.  *)
TouchesInside(cur, r) == ~Below(cur.end, r.start)
JoinedLater(cur, r) == [cur EXCEPT !.end = r.end]

(* r, which starts no earlier, overlaps cur or begins right after it. *)
Touches(cur, r) ==
    LET next == PlusOne(cur.end)
    IN  ~Below(cur.end, r.start) \/ (~next.carry /\ r.start = next.sum)

Joined(cur, r) == IF Below(cur.end, r.end) THEN [cur EXCEPT !.end = r.end]
                  ELSE cur

Merge ==
    /\ phase \in {"short", "long"}
    /\ \E i \in todo : \E r \in {RangeOf(kept[i])} :
           /\ Least(i)
           /\ todo' = todo \ {i}
           /\ merged' = IF merged # << >> /\ Touches(Last(merged), r)
                        THEN Append(Front(merged), Joined(Last(merged), r))
                        ELSE Append(merged, r)
    /\ UNCHANGED <<phase, kept, out>>

-----------------------------------------------------------------------------
(* Cutting. *)

(* The largest k so that 2^k addresses remain; a span of all ones is the   *)
(* whole space.                                                            *)
FloorLog2(span) ==
    LET n == PlusOne(span)
    IN  IF n.carry THEN LongBits ELSE BitLen(n.sum) - 1

BlockSize(r) ==
    Lesser(Lesser(TrailingZeros(r.start), Bits(r.long)),
           FloorLog2(Minus(r.end, r.start)))

(* Shifting a word by its own width leaves 0. *)
StepOf(k) ==
    IF k >= WordBits THEN U(Pow2[k - WordBits] % Modulus, 0)
    ELSE U(0, Pow2[k])

(* Mutant: no test for the end of the address space. *)
AdvanceWrapping(start, k) ==
    LET s == StepOf(k)
    IN  [next |-> Plus(start, s).sum, wrapped |-> FALSE]

(* The words are added without a carry flag: a sum below its summand tells *)
(* that there was one.                                                     *)
Advance(start, k) ==
    LET s  == StepOf(k)
        lo == (start.lo + s.lo) % Modulus
        hi == (start.hi + s.hi) % Modulus
        up == (hi + 1) % Modulus
    IN  IF lo < start.lo
        THEN [next |-> U(up, lo), wrapped |-> up = 0 /\ s.hi = 0]
        ELSE [next |-> U(hi, lo), wrapped |-> hi < start.hi]

(* Mutant: the loop is left when the cursor meets the end, not beyond it.  *)
CutToEnd ==
    /\ phase \in {"short", "long"}
    /\ todo = {} /\ merged # << >>
    /\ Len(out) < MaxBlocks
    /\ \E r \in {Head(merged)} : \E k \in {BlockSize(r)} :
       \E adv \in {Advance(r.start, k)} :
           /\ out' = Append(out,
                  [long |-> r.long, start |-> r.start, host |-> k])
           /\ merged' = IF adv.wrapped \/ r.end = adv.next
                        THEN Tail(merged)
                        ELSE <<[r EXCEPT !.start = adv.next]>> \o Tail(merged)
    /\ UNCHANGED <<phase, kept, todo>>

(* The next block of the first range goes out. *)
Cut ==
    /\ phase \in {"short", "long"}
    /\ todo = {} /\ merged # << >>
    /\ Len(out) < MaxBlocks
    /\ \E r \in {Head(merged)} : \E k \in {BlockSize(r)} :
       \E adv \in {Advance(r.start, k)} :
           /\ out' = Append(out,
                  [long |-> r.long, start |-> r.start, host |-> k])
           /\ merged' = IF adv.wrapped \/ Below(r.end, adv.next)
                        THEN Tail(merged)
                        ELSE <<[r EXCEPT !.start = adv.next]>> \o Tail(merged)
    /\ UNCHANGED <<phase, kept, todo>>

EndFamily ==
    /\ phase \in {"short", "long"}
    /\ todo = {} /\ merged = << >>
    /\ IF phase = "short"
       THEN phase' = "long" /\ todo' = Places(kept, TRUE)
       ELSE phase' = "done" /\ UNCHANGED todo
    /\ UNCHANGED <<kept, merged, out>>

NormNext == Merge \/ Cut \/ EndFamily
=============================================================================
