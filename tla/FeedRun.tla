------------------------------- MODULE FeedRun -------------------------------
(***************************************************************************)
(* internal/pipeline runFeed over internal/state's directory store, for    *)
(* one feed that one alias consumes.  Updates started by cron, updates     *)
(* started by hand and dry runs of the health command work on the same     *)
(* state directory with no lock between them.  One action per read, write  *)
(* or decision of runFeed, so that runs interleave and stop wherever the   *)
(* code lets them.                                                         *)
(*                                                                         *)
(* The two files of the feed are `state' (feeds/<feed>.json, ZeroState     *)
(* when missing) and `snapshot' (lastgood/<feed>.txt, {} when missing: no  *)
(* run writes an empty one, and LastGood reads a missing one as empty).    *)
(* Each is replaced by a rename, so each write is one step, but the pair   *)
(* of them is not.                                                         *)
(***************************************************************************)
EXTENDS FeedCycle

CONSTANTS
    Proc,        \* the processes that may run on the state directory
    Rehearsing,  \* those of them that only do dry runs
    MaxNow,      \* bound on the clock
    MaxAborts    \* bound on the runs that stop half way

ASSUME FeedAssumption ==
    /\ Rehearsing \subseteq Proc
    /\ MaxNow \in Nat /\ MaxAborts \in Nat

VARIABLES
    now,       \* the wall clock
    serving,   \* the body the provider serves
    state,     \* the feed's durable record
    snapshot,  \* the last-good prefix list
    pc,        \* pc[p]: the next thing process p does
    run,       \* run[p]: what the run of p has gathered
    outcome,   \* the feedOutcome of the last run that reached its target
    aborts,    \* how many runs have stopped half way
    hist       \* history, read by properties only

store == <<state, snapshot>>
vars == <<now, serving, state, snapshot, pc, run, outcome, aborts, hist>>

-----------------------------------------------------------------------------

Step == {"load", "fetch", "cached", "decide", "save", "keep", "handover"}

(* vetted: bodies some real run judged OK; vettedAt: the time of the last  *)
(* such run; seen, since: the body the last saved run met at the provider  *)
(* and the time of the first of the unbroken row of runs that met it.      *)
History == [vetted   : SUBSET Body,
            vettedAt : Nat,
            seen     : Body \union {NoBody},
            since    : Nat]

TypeOK ==
    /\ now \in Nat
    /\ serving \in Body
    /\ state \in FeedState
    /\ snapshot \in SUBSET Prefix
    /\ pc \in [Proc -> Step \union {"idle"}]
    /\ run \in [Proc -> Runs]
    /\ outcome \in Outcomes
    /\ aborts \in Nat
    /\ hist \in History

Init ==
    /\ now = 1
    /\ serving \in Body
    /\ state = ZeroState
    /\ snapshot = {}
    /\ pc = [p \in Proc |-> "idle"]
    /\ run = [p \in Proc |-> NoRun]
    /\ outcome = NoOutcome
    /\ aborts = 0
    /\ hist = [vetted |-> {}, vettedAt |-> 0, seen |-> NoBody, since |-> 0]

-----------------------------------------------------------------------------
(* The environment. *)

Tick ==
    /\ now < MaxNow
    /\ now' = now + 1
    /\ UNCHANGED <<serving, state, snapshot, pc, run, outcome, aborts, hist>>

Publish(b) ==
    /\ b # serving
    /\ serving' = b
    /\ UNCHANGED <<now, state, snapshot, pc, run, outcome, aborts, hist>>

-----------------------------------------------------------------------------
(* One run.  The time of a run is read once, before its first feed. *)

Advance(p, from, to) == pc[p] = from /\ pc' = [pc EXCEPT ![p] = to]

Start(p) ==
    /\ Advance(p, "idle", "load")
    /\ run' = [run EXCEPT ![p] = [NoRun EXCEPT !.in.now = now]]
    /\ UNCHANGED <<now, serving, state, snapshot, outcome, aborts, hist>>

Load(p) ==
    /\ Advance(p, "load", "fetch")
    /\ run' = [run EXCEPT ![p].in.prev = state]
    /\ UNCHANGED <<now, serving, state, snapshot, outcome, aborts, hist>>

FetchError(p) ==
    /\ Advance(p, "fetch", "decide")
    /\ run' = [run EXCEPT ![p] = WithError(@)]
    /\ UNCHANGED <<now, serving, state, snapshot, outcome, aborts, hist>>

FetchNotModified(p) ==
    /\ Advance(p, "fetch", "cached")
    /\ MayAnswer304(run[p].in.prev, serving)
    /\ run' = [run EXCEPT ![p] = With304(@, serving)]
    /\ UNCHANGED <<now, serving, state, snapshot, outcome, aborts, hist>>

FetchBody(p) ==
    /\ Advance(p, "fetch", "decide")
    /\ run' = [run EXCEPT ![p] = WithBody(@, serving)]
    /\ UNCHANGED <<now, serving, state, snapshot, outcome, aborts, hist>>

ReadCached(p) ==
    /\ Advance(p, "cached", "decide")
    /\ run' = [run EXCEPT ![p] = WithCached(@, snapshot)]
    /\ UNCHANGED <<now, serving, state, snapshot, outcome, aborts, hist>>

(* History: a real run found the body it fetched healthy. *)
Vets(p) ==
    /\ p \notin Rehearsing
    /\ Verdict(run[p].in) = "OK"
    /\ ~run[p].in.notModified

(* Evaluate, then read the cached copy (a second time after a 304) when    *)
(* that is what aliases get.  A dry run writes nothing.                    *)
Decide(p) ==
    /\ Advance(p, "decide", IF p \in Rehearsing THEN "handover" ELSE "save")
    /\ run' = [run EXCEPT ![p].out = Consumed(run[p].in, snapshot)]
    /\ hist' = IF Vets(p)
               THEN [hist EXCEPT !.vetted = @ \union {run[p].in.sha},
                                 !.vettedAt = run[p].in.now]
               ELSE hist
    /\ UNCHANGED <<now, serving, state, snapshot, outcome, aborts>>

(* Mutant: the run ends with the record. *)
SaveOnly(p) ==
    /\ Advance(p, "save", "handover")
    /\ state' = ToSave(run[p])
    /\ hist' = IF run[p].from \in {NoBody, hist.seen} THEN hist
               ELSE [hist EXCEPT !.seen = run[p].from, !.since = run[p].in.now]
    /\ UNCHANGED <<now, serving, snapshot, run, outcome, aborts>>

(* The record, with the validator of this run if it has one. *)
Save(p) ==
    /\ Advance(p, "save", IF Keeps(run[p].in) THEN "keep" ELSE "handover")
    /\ state' = ToSave(run[p])
    /\ hist' = IF run[p].from \in {NoBody, hist.seen} THEN hist
               ELSE [hist EXCEPT !.seen = run[p].from, !.since = run[p].in.now]
    /\ UNCHANGED <<now, serving, snapshot, run, outcome, aborts>>

SaveLastGood(p) ==
    /\ Advance(p, "keep", "handover")
    /\ snapshot' = Clean(run[p].in.list)
    /\ UNCHANGED <<now, serving, state, run, outcome, aborts, hist>>

(* The feed's contribution reaches the target; a rehearsal only prints it. *)
HandOver(p) ==
    /\ Advance(p, "handover", "idle")
    /\ run' = [run EXCEPT ![p] = NoRun]
    /\ outcome' = IF p \in Rehearsing THEN outcome ELSE OutcomeOf(run[p])
    /\ UNCHANGED <<now, serving, state, snapshot, aborts, hist>>

(* A crash, a signal, or any read or write that fails ends the run. *)
Abort(p) ==
    /\ pc[p] # "idle"
    /\ aborts < MaxAborts
    /\ aborts' = aborts + 1
    /\ pc' = [pc EXCEPT ![p] = "idle"]
    /\ run' = [run EXCEPT ![p] = NoRun]
    /\ UNCHANGED <<now, serving, state, snapshot, outcome, hist>>

-----------------------------------------------------------------------------

Fetch(p) == FetchError(p) \/ FetchNotModified(p) \/ FetchBody(p)

Proceed(p) ==
    \/ Load(p)
    \/ ReadCached(p)
    \/ Decide(p)
    \/ Save(p)
    \/ SaveLastGood(p)
    \/ HandOver(p)

Next ==
    \/ Tick
    \/ \E b \in Body : Publish(b)
    \/ \E p \in Proc : Start(p) \/ Fetch(p) \/ Proceed(p) \/ Abort(p)

Spec == Init /\ [][Next]_vars

(* The scheduler keeps starting updates, a run that is not stopped goes    *)
(* on, and a provider that is asked again and again answers some day.      *)
Fairness ==
    \A p \in Proc \ Rehearsing :
        /\ WF_vars(Start(p))
        /\ WF_vars(Proceed(p))
        /\ WF_vars(Fetch(p))
        /\ SF_vars(FetchBody(p))

FairSpec == Spec /\ Fairness
=============================================================================
