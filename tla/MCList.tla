------------------------------- MODULE MCList -------------------------------
(***************************************************************************)
(* Words of two bits, so that IPv6 has 16 addresses and IPv4 two: every    *)
(* single range, reversed ones included, and every two ranges, the later   *)
(* one first, so that they overlap, touch, nest, repeat, end at the last   *)
(* address or make up the whole space.  Every sequence of up to three      *)
(* lines of the other kinds, and some of four, which is more than          *)
(* detection looks at.                                                     *)
(***************************************************************************)
EXTENDS ListSafety

Address(long, n) == U(n \div Modulus, n % Modulus)

Interval(long, i, j) ==
    [kind |-> "range", long |-> long,
     start |-> Address(long, i), end |-> Address(long, j)]

Upper(long) == Pow2[Bits(long)] - 1

Intervals(long) == {Interval(long, i, j) : i, j \in 0 .. Upper(long)}
Ordered(long) == {r \in Intervals(long) : ~Below(r.end, r.start)}

(* A line of each kind. *)
Sample(kind) ==
    LET first == IF kind \in {"json", "csv1"} THEN 12 ELSE 4
    IN  [kind |-> kind, long |-> TRUE, start |-> Address(TRUE, first),
         end |-> Address(TRUE, IF kind = "range" THEN 6 ELSE first + 1)]

Mixed ==
    UNION {[1 .. n -> {Sample(kind) : kind \in Kind}] : n \in 1 .. 3}
    \union [1 .. 4 -> {Sample(kind) :
                         kind \in {"entry", "range", "json", "csv1"}}]

MCBodies ==
    Mixed \union {<<r>> : r \in Intervals(TRUE) \union Intervals(FALSE)}
    \union {<<r, s>> \in Ordered(TRUE) \X Ordered(TRUE) :
                ~Below(r.start, s.start)}
    \union {<<r, s>> : r \in Ordered(TRUE), s \in Ordered(FALSE)}

(* The whole space: at once, and in two halves. *)
MCWhole ==
    LET half == Upper(TRUE) \div 2
    IN  {<<Interval(TRUE, 0, Upper(TRUE))>>,
         <<Interval(TRUE, 0, half), Interval(TRUE, half + 1, Upper(TRUE))>>}

Net(long, n, host) ==
    [long |-> long, start |-> Address(long, n), host |-> host]

MCOwned == {{}, {Net(TRUE, 4, 1), Net(FALSE, 0, 0)}}
=============================================================================
