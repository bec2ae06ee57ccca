------------------------------ MODULE FeedCycle ------------------------------
(***************************************************************************)
(* The steps of internal/pipeline's runFeed as pure operators: what a run  *)
(* gathers from the fetch, what it hands to aliases, and what it writes.   *)
(***************************************************************************)
EXTENDS Health

CONSTANTS
    Lines,       \* Lines[b]: the <<line, prefix>> pairs parsed from body b
    Rejected,    \* Rejected[b]: how many lines of b failed to parse
    Unreadable,  \* bodies that do not decompress or that the parser refuses
    TagOf        \* TagOf[b]: the validator the provider sends with b

ASSUME CycleAssumption ==
    /\ Lines \in [Body -> SUBSET (Nat \X Prefix)]
    /\ \A b \in Body : IsFiniteSet(Lines[b])
    /\ Rejected \in [Body -> Nat]
    /\ Unreadable \subseteq Body
    /\ \A b \in Unreadable : Lines[b] = {}
    /\ TagOf \in [Body -> Tag \union {NoTag}]

-----------------------------------------------------------------------------

(* What a run knows: in goes to Evaluate, tag is the validator of the      *)
(* response, out what aliases will consume.  from is kept for properties   *)
(* only: the body the provider served when it answered.                    *)
Runs == [in   : Input,
         tag  : Tag \union {NoTag},
         out  : SUBSET Prefix,
         from : Body \union {NoBody}]

NoRun == [in   |-> [fetchErr |-> FALSE, notModified |-> FALSE, sha |-> NoBody,
                    list |-> {}, parsed |-> 0, rejected |-> 0,
                    prev |-> ZeroState, now |-> 0],
          tag  |-> NoTag,
          out  |-> {},
          from |-> NoBody]

(* The fetch failed, after its retries. *)
WithError(r) == [r EXCEPT !.in.fetchErr = TRUE]

(* The provider may answer 304 when the stored validator names its body;   *)
(* the run then goes on with the stored hash.                              *)
MayAnswer304(prev, b) == prev.etag # NoTag /\ prev.etag = TagOf[b]

With304(r, b) == [r EXCEPT !.in.notModified = TRUE,
                           !.in.sha = r.in.prev.sha,
                           !.tag = TagOf[b],
                           !.from = b]

(* After a 304 the cached copy is what gets evaluated. *)
WithCached(r, snap) == [r EXCEPT !.in.list = {0} \X snap]

(* A body that cannot be unpacked or parsed is a fetch error too, but its  *)
(* bytes have been hashed and its validator is remembered.  Entries are    *)
(* counted as lines here, which may have several prefixes.                 *)
Parsed(in, b) ==
    IF b \in Unreadable
    THEN [in EXCEPT !.fetchErr = TRUE, !.sha = b]
    ELSE [in EXCEPT !.sha      = b,
                    !.list     = Lines[b],
                    !.parsed   = Cardinality({e[1] : e \in Lines[b]}),
                    !.rejected = Rejected[b]]

WithBody(r, b) ==
    [r EXCEPT !.in = Parsed(@, b), !.tag = TagOf[b], !.from = b]

(* Mutants: the sanity floor is forgotten on the way out; a list that is   *)
(* not fully healthy is withheld.                                          *)
ConsumedRaw(in, snap) ==
    IF DropFeed(in) THEN {}
    ELSE IF UseLastGood(in) \/ in.notModified THEN snap
    ELSE {e[2] : e \in in.list}

ConsumedIfOk(in, snap) ==
    IF DropFeed(in) THEN {}
    ELSE IF Verdict(in) # "OK" \/ in.notModified THEN snap
    ELSE Clean(in.list)

(* What aliases consume: nothing, the cached copy as it is on disk at that *)
(* moment, or the fetched list without its poison.                         *)
Consumed(in, snap) ==
    IF DropFeed(in) THEN {}
    ELSE IF UseLastGood(in) \/ in.notModified THEN snap
    ELSE Clean(in.list)

(* Mutants: any usable list replaces the cached copy; a list of one entry  *)
(* does not.                                                               *)
KeepsIfUsable(in) ==
    Verdict(in) # "FAILED" /\ ~in.notModified /\ Clean(in.list) # {}

KeepsIfMany(in) ==
    Verdict(in) = "OK" /\ ~in.notModified /\ Cardinality(Clean(in.list)) > 1

(* Whether the run ends by replacing the cached copy. *)
Keeps(in) == Verdict(in) = "OK" /\ ~in.notModified /\ Clean(in.list) # {}

(* Mutants: the validator is saved for healthy bodies only; the error path *)
(* saves a fresh record.                                                   *)
ToSaveTagIfOk(r) ==
    LET next == NextState(r.in)
    IN  IF r.tag = NoTag \/ Verdict(r.in) # "OK" THEN next
        ELSE [next EXCEPT !.etag = r.tag]

ToSaveFreshOnError(r) ==
    LET in == IF r.in.fetchErr THEN [r.in EXCEPT !.prev = ZeroState] ELSE r.in
    IN  IF r.tag = NoTag THEN NextState(in)
        ELSE [NextState(in) EXCEPT !.etag = r.tag]

(* The record to save: a validator is replaced only by a new one.  The     *)
(* code replaces ETag and Last-Modified each by itself; as one tag they    *)
(* are for a provider that always sends the same of the two, or none.      *)
ToSave(r) ==
    LET next == NextState(r.in)
    IN  IF r.tag = NoTag THEN next ELSE [next EXCEPT !.etag = r.tag]

(* The feedOutcome of a run: what reaches the target and the health table. *)
Outcomes == [prefixes     : SUBSET Prefix,
             status       : Status \union {""},
             usedLastGood : BOOLEAN,
             dropped      : BOOLEAN,
             now          : Nat]

NoOutcome == [prefixes |-> {}, status |-> "", usedLastGood |-> FALSE,
              dropped |-> FALSE, now |-> 0]

OutcomeOf(r) == [prefixes     |-> r.out,
                 status       |-> Verdict(r.in),
                 usedLastGood |-> UseLastGood(r.in),
                 dropped      |-> DropFeed(r.in),
                 now          |-> r.in.now]
=============================================================================
