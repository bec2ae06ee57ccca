------------------------------ MODULE ListPath ------------------------------
(***************************************************************************)
(* The way of a list from a feed's body to an alias: a parser is chosen,   *)
(* it turns the lines into prefixes, the sanity floor of the health checks *)
(* removes some, and the rest is normalized.  A list that comes from the   *)
(* cached copy passed the floor in an earlier run, when some of the own    *)
(* networks were not yet configured.                                       *)
(***************************************************************************)
EXTENDS RangeParser, Normalize

CONSTANTS
    Bodies,   \* the sequences of lines that a feed may hold
    Owned     \* the sets of own networks that may be configured

ASSUME ListAssumption ==
    /\ Bodies \subseteq Seq(Line)
    /\ Owned \subseteq SUBSET Prefix

VARIABLES
    lines,    \* the lines of the feed
    own,      \* the operator's own networks
    ownThen   \* those of them that the floor knew when it was applied

vars == <<lines, own, ownThen, parserVars, phase, kept, todo, merged, out>>

Init ==
    /\ lines \in Bodies
    /\ own \in Owned
    /\ ownThen \in {{}, own}
    /\ ParserInit(lines)
    /\ NormInit

Parse ==
    /\ phase = "idle"
    /\ ParserNext
    /\ UNCHANGED <<lines, own, ownThen, phase, kept, todo, merged, out>>

(* Default routes go, and what overlaps an own network.  The private       *)
(* networks that are always in the floor are left out: they are like own   *)
(* networks that never change.                                             *)
Floor(given) ==
    LET left == {i \in DOMAIN given :
                    /\ given[i].host # Bits(given[i].long)
                    /\ ~\E o \in ownThen : Overlaps(given[i], o)}
    IN  [i \in left |-> given[i]]

Pass ==
    /\ parser # NoParser /\ entries = << >>
    /\ \E given \in {Floor(parsed)} : Begin(given, own)
    /\ UNCHANGED <<lines, own, ownThen, parserVars>>

Process ==
    /\ NormNext
    /\ UNCHANGED <<lines, own, ownThen, parserVars>>

Next == Parse \/ Pass \/ Process

Spec == Init /\ [][Next]_vars

(* The loops run until they are left. *)
FairSpec == Spec /\ WF_vars(Next)
=============================================================================
