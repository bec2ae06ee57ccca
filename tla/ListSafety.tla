----------------------------- MODULE ListSafety -----------------------------
(***************************************************************************)
(* What the address arithmetic promises, against a reference definition    *)
(* over sets of numbers that knows of no words, carries or cursors.        *)
(***************************************************************************)
EXTENDS ListPath

(* Words stay words and ranges run forwards while the cursor moves. *)
TypeOK == ParserTypeOK /\ NormTypeOK

Span(r) == Num(r.start) .. Num(r.end)
Block(p) == Num(p.start) .. (Num(p.start) + Pow2[p.host] - 1)

BlocksOf(seq, long) ==
    UNION {Block(seq[i]) : i \in {j \in DOMAIN seq : seq[j].long = long}}
SpansOf(seq, long) ==
    UNION {Span(seq[i]) : i \in {j \in DOMAIN seq : seq[j].long = long}}

(* The aligned blocks inside a set of addresses that are not the half of   *)
(* another one.                                                            *)
Aligned(n, k) ==
    LET first == n - (n % Pow2[k]) IN first .. (first + Pow2[k] - 1)
IsMaximal(n, k, set, long) ==
    /\ n % Pow2[k] = 0
    /\ Aligned(n, k) \subseteq set
    /\ k = Bits(long) \/ ~(Aligned(n, k + 1) \subseteq set)
Maximal(set, long) ==
    {b \in set \X (0 .. Bits(long)) : IsMaximal(b[1], b[2], set, long)}

AsPairs(seq, long) ==
    {<<Num(seq[i].start), seq[i].host>> :
        i \in {j \in DOMAIN seq : seq[j].long = long}}

(* In order, IPv4 first, and without overlap. *)
InOrder(seq) ==
    \A i \in 1 .. (Len(seq) - 1) :
        IF seq[i].long = seq[i + 1].long
        THEN Num(seq[i].start) + Pow2[seq[i].host] <= Num(seq[i + 1].start)
        ELSE seq[i + 1].long

(* What is to be merged is the whole IPv6 space: nothing less than that    *)
(* keeps the cursor from coming to an end.                                 *)
Endless == BlocksOf(kept, TRUE) = 0 .. (Pow2[LongBits] - 1)

(* The lines a parser is asked to read; the places of those that have one  *)
(* result; the addresses of those it can read, and the blocks these are    *)
(* made up of, by line.                                                    *)
Offered(reader, seq) == IF reader.name = "csv" THEN Tail(seq) ELSE seq

Turned(reader, seq, result) ==
    {i \in DOMAIN seq : Result(reader, seq[i]) = result}

Addresses(reader, seq, long) ==
    UNION {Span(seq[i]) : i \in {j \in Turned(reader, seq, "parsed") :
                                    seq[j].long = long}}

Pieces(reader, seq) ==
    UNION {{i} \X Maximal(Span(seq[i]), seq[i].long) :
               i \in Turned(reader, seq, "parsed")}

(* Every line that the parser can read becomes the blocks that cover its   *)
(* addresses exactly, in the fewest steps, whatever carries and overflows  *)
(* the cursor meets, and no other line becomes anything (rangecidr.go:17). *)
ParsedExactly ==
    (entries = << >> /\ phase = "idle") =>
        LET offered == Offered(parser, lines)
        IN  /\ \A long \in BOOLEAN :
                  BlocksOf(parsed, long) = Addresses(parser, offered, long)
            /\ Len(parsed) = Cardinality(Pieces(parser, offered))
            /\ rejected = Cardinality(Turned(parser, offered, "rejected"))

(* A feed of one format is read from end to end: when some parser that     *)
(* reads line by line makes sense of every line, so does the chosen one of *)
(* all lines it voted on and of all later ones of a kind it had seen       *)
(* (detect.go:40-44).                                                      *)
WholeFeedRead ==
    parser # NoParser =>
        \A name \in {"plain", "range", "spamhaus"} :
            (\A i \in DOMAIN lines : Result(Named(name), lines[i]) # "rejected")
            => /\ parser.name # "csv"
               /\ \A i \in DOMAIN lines :
                     (\E j \in DOMAIN Window(lines) :
                          lines[j].kind = lines[i].kind) =>
                              Result(parser, lines[i]) # "rejected"

(* "Parsers must be deterministic" (parse.go:80): two readings of one body *)
(* use the same column, although the votes are in a map that is walked in  *)
(* any order (detect.go:146).                                              *)
ColumnIsDetermined ==
    parser.name = "csv" =>
        \A c \in {0, 1} \ {parser.column} :
            \/ ColumnVotes(lines, c) < ColumnVotes(lines, parser.column)
            \/ /\ ColumnVotes(lines, c) = ColumnVotes(lines, parser.column)
               /\ c > parser.column

(* At every moment of merging and cutting, what is out and what is still   *)
(* to be cut or merged make up the addresses that were kept, and nothing   *)
(* that is out is still to be cut (normalize.go:177-240).                  *)
Tiling ==
    LET long == phase = "long"
        left == UNION {Block(kept[i]) : i \in todo}
    IN  (phase \in {"short", "long"} /\ ~Endless) =>
            /\ BlocksOf(out, long) \union SpansOf(merged, long) \union left
                  = BlocksOf(kept, long)
            /\ BlocksOf(out, long) \intersect SpansOf(merged, long) = {}

(* "The minimal set of prefixes covering exactly the same address space",  *)
(* sorted (normalize.go:62-66): the result is the sequence of the maximal  *)
(* aligned blocks of what was kept, whatever the order of the input.  Not  *)
(* for lists that cover the whole IPv6 space.                              *)
Canonical ==
    (phase = "done") =>
        /\ InOrder(out)
        /\ \A long \in BOOLEAN :
              AsPairs(out, long) = Maximal(BlocksOf(kept, long), long)

(* No address of the operator's own networks reaches an alias, also when   *)
(* the floor did not know of them, and every other prefix does, as long as *)
(* it is no default route (Suppress before Aggregate, normalize.go:5-8).   *)
OwnSpared ==
    phase = "done" =>
        \A long \in BOOLEAN :
            LET mine == UNION {Block(o) : o \in {q \in own : q.long = long}}
            IN  /\ BlocksOf(out, long) \intersect mine = {}
                /\ \A i \in DOMAIN parsed :
                      (parsed[i].long = long
                          /\ parsed[i].host # Bits(long)
                          /\ Block(parsed[i]) \intersect mine = {}) =>
                              Block(parsed[i]) \subseteq BlocksOf(out, long)

(* The loops end, or the whole IPv6 space is in work. *)
Finishes == <>(phase = "done" \/ Endless)

(* The same promise with no list exempted: "collapses the input into the   *)
(* minimal set of prefixes" (normalize.go:62), so that no block is put out *)
(* twice.  Advancing by the whole space adds 0, and the loop goes on.      *)
NoBlockTwice == IsInjective(out)
=============================================================================
