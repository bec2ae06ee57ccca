---------------------------- MODULE UpdateSafety ----------------------------
(***************************************************************************)
(* What a run over all feeds promises, stated over UpdateCycle.            *)
(***************************************************************************)
EXTENDS UpdateCycle

(* "Fetch and evaluate every distinct feed exactly once" (pipeline.go:86), *)
(* with no more than Retries repetitions, whatever fails and however many  *)
(* aliases share it.                                                       *)
AskedWithinLimit == \A f \in Feed : asked[f] <= Retries + 1

(* Lists change only in a real run that has an outcome for every feed: a   *)
(* run that a store error has ended, and a rehearsal, change none, and no  *)
(* alias is written without one of its feeds (pipeline.go:96, 133).        *)
PublishedOnlyWhole ==
    [][published' # published =>
          /\ ~dry
          /\ DOMAIN outcomes = Used]_vars

Complete == exit \in {"ok", "unhealthy"} /\ ~dry

(* Whether the provider of f has given this run an answer, what the answer *)
(* stands for, and what may stand in when that is nothing.  A 304 stands   *)
(* for the last-good list, be it of the body the provider confirmed or, as *)
(* after a SUSPECT run, of an older one.                                   *)
HasAnswered(f) == met[f] # NoBody \/ f \in unmodified

Served(f) ==
    IF f \in unmodified THEN fallback[f]
    ELSE IF met[f] = NoBody THEN {} ELSE Clean(Lines[met[f]])

Spare(f) == IF Served(f) = {} THEN fallback[f] ELSE {}

(* "Exits 0 when every feed is OK" (update.go:21): then all targets hold   *)
(* the same lists, whatever earlier runs left half written; every provider *)
(* has answered this run, and each list is all of what its feeds were      *)
(* served, without poison, and the last-good lists of those that had a     *)
(* 304, as they were when the run began.                                   *)
ExitTellsTheTruth ==
    (exit = "ok" /\ ~dry) =>
        \A t \in ToSet(Target), a \in Alias :
            /\ \A f \in FeedsOf(a) : HasAnswered(f)
            /\ published[t][a] = UNION {Served(f) : f \in FeedsOf(a)}

(* A feed in trouble takes nothing from the others and brings nothing but  *)
(* its last-good list: after every complete run a list holds what each of  *)
(* its feeds served or confirmed, if that was usable, and otherwise at     *)
(* most what the feed had been served before (pipeline.go:116, 207).       *)
FeedsStandAlone ==
    Complete =>
        \A t \in ToSet(Target), a \in Alias :
            /\ UNION {Served(f) : f \in FeedsOf(a)} \subseteq published[t][a]
            /\ published[t][a] \subseteq
                  UNION {Served(f) \union Spare(f) : f \in FeedsOf(a)}

(* Every run comes to an end, although no provider ever answers.           *)
RunsEnd == pc # "idle" ~> pc = "idle"
=============================================================================
