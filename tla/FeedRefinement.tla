--------------------------- MODULE FeedRefinement ---------------------------
(***************************************************************************)
(* FeedRun implements AtomicFeed when no two updates overlap and none is   *)
(* stopped half way: the many reads and writes of a run then amount to one *)
(* step, taken when the provider answers.  From that moment on the mapping *)
(* shows what the run is going to leave behind.  Dry runs may overlap the  *)
(* updates as they like.                                                   *)
(***************************************************************************)
EXTENDS FeedRun

Replied == {"cached", "decide", "save", "keep", "handover"}

Answered == {p \in Proc \ Rehearsing : pc[p] \in Replied}

(* The run of p, with the cached list and the decision it will reach.      *)
Completed(p) ==
    LET r == IF pc[p] = "cached" THEN WithCached(run[p], snapshot) ELSE run[p]
    IN  IF pc[p] \in {"cached", "decide"}
        THEN [r EXCEPT !.out = Consumed(r.in, snapshot)] ELSE r

Pending == Completed(CHOOSE p \in Answered : TRUE)

stateBar    == IF Answered = {} THEN state ELSE ToSave(Pending)
snapshotBar == IF Answered # {} /\ Keeps(Pending.in)
               THEN Clean(Pending.in.list) ELSE snapshot
outcomeBar  == IF Answered = {} THEN outcome ELSE OutcomeOf(Pending)

Atomic == INSTANCE AtomicFeed
    WITH state <- stateBar, snapshot <- snapshotBar, outcome <- outcomeBar

(* A lone update is atomic: the record saved before the copy, the copy     *)
(* read twice, and the time taken before the fetch change nothing that a   *)
(* single step would not have done (pipeline.go:152-255).                  *)
ImplementsAtomicFeed == Atomic!Spec
=============================================================================
