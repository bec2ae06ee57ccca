------------------------------ MODULE FeedSafety ------------------------------
(***************************************************************************)
(* What the update cycle of one feed promises, stated over FeedRun.  Each  *)
(* comment says which deployments the promise is made for: one process at  *)
(* a time or several, runs that may stop half way or not, a provider that  *)
(* sends validators or not.                                                *)
(***************************************************************************)
EXTENDS FeedRun

(* The cached copy in lastgood/ is always the complete content of a single *)
(* body that some real run judged OK, free of poison,                      *)
(* whatever runs overlap or stop half way (SaveLastGood, pipeline.go:236). *)
SnapshotVetted ==
    snapshot # {} =>
        \E b \in hist.vetted :
            Kept(Lines[b]) = Lines[b] /\ snapshot = Clean(Lines[b])

(* What reaches a target is empty or the clean content of one body, never  *)
(* a mixture of two and never poison, although a run reads the cached copy *)
(* twice and other runs replace it in between (pipeline.go:208).           *)
HandedOverWhole ==
    outcome.prefixes # {} =>
        /\ outcome.prefixes \intersect Poison = {}
        /\ \E b \in Body : outcome.prefixes = Clean(Lines[b])

(* A FAILED run never hands over content that no run found healthy.        *)
FailedServesVetted ==
    (outcome.status = "FAILED" /\ outcome.prefixes # {}) =>
        \E b \in hist.vetted : outcome.prefixes = Clean(Lines[b])

(* With a provider that tags every body, always with the same of ETag and  *)
(* Last-Modified (one tag stands for both), the stored validator and the   *)
(* stored hash always speak of the same body, so a 304 confirms the very   *)
(* content the staleness clock is about (pipeline.go:166, 225).            *)
Named(rec) ==
    rec.etag # NoTag => rec.sha # NoBody /\ rec.etag = TagOf[rec.sha]

ValidatorNamesBody == Named(state)

(* The fields of the record agree with each other: failingSince runs       *)
(* exactly while the last run was FAILED, a baseline exists only with the  *)
(* time of the run that set it, and every saved record has a staleness     *)
(* clock (health.go:211-247).                                              *)
Coherent(rec) ==
    /\ rec.failingSince # 0 <=> rec.lastStatus = "FAILED"
    /\ rec.lastGoodCount > 0 => rec.lastGoodAt > 0
    /\ rec.lastStatus = "OK" => rec.lastGoodAt > 0
    /\ rec.lastStatus # "" <=> rec.unchangedSince > 0

RecordCoherent == Coherent(state)

(* Rehearsals (DryRun) change neither file nor output: whenever one of     *)
(* them changes, a real run took the step (pipeline.go:221-241).           *)
RehearsalWritesNothing ==
    [][\A p \in Rehearsing : pc[p] # pc'[p] =>
          UNCHANGED <<store, outcome>>]_vars

-----------------------------------------------------------------------------
(* Promises to runs that never overlap. *)

(* Content the provider has not changed for longer than the cadence plus   *)
(* StaleMax is never reported OK, through fetch failures, 304 answers and  *)
(* changes of verdict in between (check 5, health.go:198-207).             *)
FrozenIsFlagged ==
    (Cadence > 0 /\ outcome.status = "OK") =>
        outcome.now - hist.since <= Cadence + StaleMax

(* Between runs the baseline of the count check is the size of the cached  *)
(* copy: the two files tell of the same healthy run.  For feeds without    *)
(* duplicate lines and runs that are not stopped (pipeline.go:233-240).    *)
BaselineDescribesSnapshot ==
    (\A p \in Proc : pc[p] # "keep") =>
        state.lastGoodCount = Cardinality(snapshot)

(* A record claims a last good run only when there is a copy to fall back  *)
(* on.  For runs that are not stopped, without validators.                 *)
ClaimIsBacked ==
    (state.lastGoodAt # 0 /\ \A p \in Proc : pc[p] # "keep") =>
        snapshot # {}

(* A FAILED run hands over a non-empty list exactly while a run that saw a *)
(* healthy body is at most StaleMax old: never an empty list too early,    *)
(* never stale content too late (SPEC section 6, failure policy).  For     *)
(* runs that are not stopped, without validators.                          *)
FallbackExactlyWhileRecent ==
    [][(outcome' # outcome /\ outcome'.status = "FAILED") =>
          (outcome'.prefixes # {} <=>
              /\ hist.vettedAt # 0
              /\ outcome'.now - hist.vettedAt <= StaleMax)]_vars

(* The times in the record never run backwards. *)
ClockNeverRunsBack ==
    [][/\ state'.lastGoodAt >= state.lastGoodAt
       /\ state'.unchangedSince >= state.unchangedSince]_state

-----------------------------------------------------------------------------
(* Liveness, under FairSpec and without validators: when the provider      *)
(* settles on a body that parses to something, its clean content is handed *)
(* over again and again, whatever runs failed or were stopped before.      *)
Usable(b) == b \notin Unreadable /\ Clean(Lines[b]) # {}

EventuallyFresh ==
    \A b \in Body :
        (Usable(b) /\ <>[](serving = b)) =>
            []<>(outcome.prefixes = Clean(Lines[b]))
=============================================================================
