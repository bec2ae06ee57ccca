------------------------------- MODULE Detect -------------------------------
(***************************************************************************)
(* internal/parse's line formats and the vote of the detect parser, which  *)
(* reads every feed of the vendored catalog: the first lines are labelled, *)
(* the labels counted, and a parser chosen for the whole body.             *)
(*                                                                         *)
(* A line is what the scanner hands to a parser: comments and blank lines  *)
(* reach none and are left out.  Its kind says what its text looks like.   *)
(*   entry            an address or a prefix                               *)
(*   sbl              a prefix with a `; SBL' tail                         *)
(*   json             an object with a cidr field                          *)
(*   meta             an object with a type, the trailer of such a list    *)
(*   range            `start-end', or a row `start end width'              *)
(*   csv0 csv1 csv01  a record with an address in those columns            *)
(*   junk             anything else: a heading, a line of a web page       *)
(***************************************************************************)
EXTENDS Words, Sequences, SequencesExt

CONSTANT
    SniffLines   \* how many lines are labelled, 20 in the code

ASSUME DetectAssumption == SniffLines \in Nat \ {0}

Kind == {"entry", "sbl", "json", "meta", "range",
         "csv0", "csv1", "csv01", "junk"}

(* The addresses of a line: a range, or the block of an entry. *)
IsBlock(line) ==
    \E host \in 0 .. Bits(line.long) :
        /\ Num(line.start) % Pow2[host] = 0
        /\ Num(line.end) = Num(line.start) + Pow2[host] - 1

Line ==
    {l \in [kind : Kind, long : BOOLEAN, start : Uint, end : Uint] :
        /\ {l.start, l.end} \subseteq Family(l.long)
        /\ l.kind = "range" \/ IsBlock(l)}

(* A range that ends before it starts is no range. *)
IsRange(line) == line.kind = "range" /\ ~Below(line.end, line.start)

Record == {"csv0", "csv1", "csv01"}

(* The columns in which a csv reader finds an address; a line without a    *)
(* comma is a record of one field.                                         *)
Columns(line) ==
    CASE line.kind \in {"entry", "sbl", "csv0"} -> {0}
      [] line.kind = "csv1"  -> {1}
      [] line.kind = "csv01" -> {0, 1}
      [] OTHER               -> {}

Parser == [name : {"plain", "range", "spamhaus", "csv"}, column : {0, 1}]

Named(name) == [name |-> name, column |-> 0]

(* What a parser makes of a line: lineResult of scanner.go. *)
Result(parser, line) ==
    CASE parser.name = "csv" /\ parser.column \in Columns(line) -> "parsed"
      [] parser.name # "csv" /\ line.kind \in {"entry", "sbl"}  -> "parsed"
      [] parser.name = "range" /\ IsRange(line)                 -> "parsed"
      [] parser.name = "spamhaus" /\ line.kind = "json"         -> "parsed"
      [] parser.name = "spamhaus" /\ line.kind = "meta"         -> "skipped"
      [] OTHER                                                  -> "rejected"

-----------------------------------------------------------------------------

(* Every line gets exactly one label, the first that fits. *)
Label(line) ==
    CASE line.kind \in {"sbl", "json", "meta"} -> "spamhaus"
      [] line.kind = "entry"                   -> "plain"
      [] IsRange(line)                         -> "range"
      [] line.kind \in Record                  -> "csv"
      [] OTHER                                 -> "none"

Window(lines) == SubSeq(lines, 1, Lesser(SniffLines, Len(lines)))

Votes(lines, label) ==
    Cardinality({i \in DOMAIN Window(lines) : Label(lines[i]) = label})

(* A record votes for the first of its columns. *)
FirstColumn(line) == IF 0 \in Columns(line) THEN 0 ELSE 1

ColumnVotes(lines, c) ==
    Cardinality({i \in DOMAIN Window(lines) :
        lines[i].kind \in Record /\ FirstColumn(lines[i]) = c})

(* Mutant: of two columns with as many votes the one met last wins. *)
BestColumnLast(lines, order) ==
    LET last == order[Len(order)]
    IN  IF ColumnVotes(lines, last) >= ColumnVotes(lines, order[1])
        THEN last ELSE order[1]

(* The most-voted column, the lowest of several.  The votes are in a map,  *)
(* whose order is not determined; it holds no column without a vote.       *)
BestColumn(lines, order) ==
    LET best == order[1]
        c    == order[Len(order)]
    IN  IF \/ ColumnVotes(lines, c) > ColumnVotes(lines, best)
           \/ /\ ColumnVotes(lines, c) = ColumnVotes(lines, best)
              /\ c < best
        THEN c ELSE best

Orders(lines) ==
    {order \in {<<0>>, <<1>>, <<0, 1>>, <<1, 0>>} :
        {order[i] : i \in DOMAIN order}
            = {c \in {0, 1} : ColumnVotes(lines, c) > 0}}

(* Mutant: the Spamhaus label goes before the others. *)
LineParserSpamFirst(lines) ==
    Named(IF Votes(lines, "spamhaus") > 0 THEN "spamhaus"
          ELSE IF Votes(lines, "range") > 0 THEN "range"
          ELSE "plain")

(* Of the parsers that read line by line the one that reads most kinds of  *)
(* what was seen; plain, which rejects every line, when nothing matched.   *)
LineParser(lines) ==
    Named(IF Votes(lines, "range") > 0 THEN "range"
          ELSE IF Votes(lines, "spamhaus") > 0 THEN "spamhaus"
          ELSE "plain")

(* The parsers that detection may choose for a body. *)
Choosable(lines) ==
    IF Votes(lines, "plain") + Votes(lines, "range")
           + Votes(lines, "spamhaus") >= Votes(lines, "csv")
    THEN {LineParser(lines)}
    ELSE {[name |-> "csv", column |-> BestColumn(lines, order)] :
              order \in Orders(lines)}
=============================================================================
