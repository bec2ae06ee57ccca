----------------------------- MODULE AtomicFeed -----------------------------
(***************************************************************************)
(* The feed as its users think of it: an update is one indivisible step    *)
(* that sees one state of the provider and of the store, and leaves the    *)
(* record, the cached copy and the alias in agreement.                     *)
(***************************************************************************)
EXTENDS FeedCycle

VARIABLES now, serving, state, snapshot, outcome

vars == <<now, serving, state, snapshot, outcome>>

Init ==
    /\ now = 1
    /\ serving \in Body
    /\ state = ZeroState
    /\ snapshot = {}
    /\ outcome = NoOutcome

(* Everything a run at time t may have gathered. *)
Gathered(t) ==
    LET asked == [NoRun EXCEPT !.in.now = t, !.in.prev = state]
    IN  {WithError(asked), WithBody(asked, serving)} \union
        {WithCached(With304(asked, b), snapshot) :
            b \in {c \in {serving} : MayAnswer304(state, c)}}

(* The run may have begun a while ago, but not before the last one. *)
Update ==
    \E t \in outcome.now .. now : \E r \in Gathered(t) :
        /\ t > 0
        /\ state' = ToSave(r)
        /\ snapshot' = IF Keeps(r.in) THEN Clean(r.in.list) ELSE snapshot
        /\ outcome' =
               OutcomeOf([r EXCEPT !.out = Consumed(r.in, snapshot)])
        /\ UNCHANGED <<now, serving>>

Tick == now' = now + 1 /\ UNCHANGED <<serving, state, snapshot, outcome>>

Publish(b) ==
    serving' = b /\ UNCHANGED <<now, state, snapshot, outcome>>

Next == Tick \/ (\E b \in Body : Publish(b)) \/ Update

Spec == Init /\ [][Next]_vars
=============================================================================
