---------------------------- MODULE RangeParser ----------------------------
(***************************************************************************)
(* internal/parse's parsers at work: line by line, an entry becomes its    *)
(* prefix, and a `start-end' line the largest block that is aligned at the *)
(* cursor and fits, until the range is used up.  The cursor is the start   *)
(* of the first line.                                                      *)
(***************************************************************************)
EXTENDS Detect

VARIABLES
    parser,    \* the parser that reads the feed; NoParser until it is chosen
    header,    \* a csv parser has not met its heading yet
    entries,   \* the lines that are left; the first one may be begun
    parsed,    \* the prefixes found so far
    rejected   \* how many lines were rejected

parserVars == <<parser, header, entries, parsed, rejected>>

NoParser == [name |-> "none", column |-> 0]

ParserTypeOK ==
    /\ parser \in Parser \union {NoParser}
    /\ header \in BOOLEAN
    /\ entries \in Seq(Line)
    /\ parsed \in Seq(Prefix)
    /\ rejected \in Nat

ParserInit(lines) ==
    /\ parser = NoParser
    /\ header = FALSE
    /\ entries = lines
    /\ parsed = << >>
    /\ rejected = 0

(* The vote comes first; then the chosen parser reads from the beginning.  *)
Choose ==
    /\ parser = NoParser
    /\ parser' \in Choosable(entries)
    /\ header' = (parser'.name = "csv")
    /\ UNCHANGED <<entries, parsed, rejected>>

-----------------------------------------------------------------------------

(* The largest k so that 2^k addresses fit in a span of span + 1. *)
MaxBlock(span, bits) ==
    IF span = Ones THEN bits ELSE Lesser(BitLen(PlusOne(span).sum) - 1, bits)

PowerOf2(k) ==
    IF k < WordBits THEN U(0, Pow2[k]) ELSE U(Pow2[k - WordBits], 0)

(* Mutant: the carry out of the low word is lost. *)
AddPow2NoCarry(a, k) ==
    IF k >= LongBits THEN [sum |-> Zero, carry |-> TRUE]
    ELSE LET b == PowerOf2(k)
         IN  [sum   |-> U((a.hi + b.hi) % Modulus, (a.lo + b.lo) % Modulus),
              carry |-> a.hi + b.hi >= Modulus]

AddPow2(a, k) ==
    IF k >= LongBits THEN [sum |-> Zero, carry |-> TRUE]
    ELSE Plus(a, PowerOf2(k))

(* The next line, for the chosen parser. *)
NextLine(result) ==
    /\ parser # NoParser /\ entries # << >>
    /\ ~header
    /\ Result(parser, Head(entries)) = result

(* The first line of a csv feed is its heading, whatever it holds. *)
SkipHeading ==
    /\ header /\ entries # << >>
    /\ header' = FALSE
    /\ entries' = Tail(entries)
    /\ UNCHANGED <<parser, parsed, rejected>>

Skip ==
    /\ NextLine("skipped")
    /\ entries' = Tail(entries)
    /\ UNCHANGED <<parser, header, parsed, rejected>>

Reject ==
    /\ NextLine("rejected")
    /\ entries' = Tail(entries)
    /\ rejected' = rejected + 1
    /\ UNCHANGED <<parser, header, parsed>>

(* The prefix of an entry: its host bits are those its end is ahead by. *)
PrefixOf(line) == [long  |-> line.long,
                   start |-> line.start,
                   host  |-> BitLen(Minus(line.end, line.start))]

Read ==
    /\ NextLine("parsed") /\ ~IsRange(Head(entries))
    /\ parsed' = Append(parsed, PrefixOf(Head(entries)))
    /\ entries' = Tail(entries)
    /\ UNCHANGED <<parser, header, rejected>>

(* The largest block that is aligned at the cursor and fits. *)
Size(r) ==
    Lesser(Lesser(TrailingZeros(r.start), Bits(r.long)),
           MaxBlock(Minus(r.end, r.start), Bits(r.long)))

(* The block goes out and the cursor moves behind it; past the end of the  *)
(* range or of the address space the entry is done.                        *)
Emit ==
    /\ NextLine("parsed") /\ IsRange(Head(entries))
    /\ \E r \in {Head(entries)} : \E k \in {Size(r)} :
       \E next \in {AddPow2(r.start, k)} :
           /\ parsed' = Append(parsed,
                  [long |-> r.long, start |-> r.start, host |-> k])
           /\ entries' = IF next.carry \/ Below(r.end, next.sum)
                         THEN Tail(entries)
                         ELSE <<[r EXCEPT !.start = next.sum]>> \o Tail(entries)
    /\ UNCHANGED <<parser, header, rejected>>

ParserNext == Choose \/ SkipHeading \/ Skip \/ Reject \/ Read \/ Emit
=============================================================================
