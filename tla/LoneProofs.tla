----------------------------- MODULE LoneProofs -----------------------------
(***************************************************************************)
(* What FeedRun promises when updates never overlap: one process writes,   *)
(* any number of dry runs read along.  Proved for every provider, every    *)
(* threshold and every bound, and where a promise needs them under the     *)
(* hypotheses the promise is made with: runs that are not stopped half     *)
(* way, a provider whose validators name its bodies, a feed that lists     *)
(* nothing twice.  The last part proves that such a feed implements        *)
(* AtomicFeed.                                                             *)
(***************************************************************************)
EXTENDS FeedProofs, FeedRefinement

(* Process u is the only one that writes. *)
Lone(u) == u \in Proc /\ Proc \ Rehearsing = {u}

OneUpdater == \E u : Lone(u)

(* A step that u does not take: the clock, the provider, or a dry run. *)
Elsewhere(u) ==
    /\ UNCHANGED <<state, snapshot, outcome, hist>>
    /\ pc'[u] = pc[u] /\ run'[u] = run[u]
    /\ \/ UNCHANGED <<now, serving>>
       \/ now' = now + 1 /\ UNCHANGED serving
       \/ \E b \in Body : serving' = b /\ UNCHANGED now

(* A run that has begun, one that has read the record, one that has        *)
(* decided what to hand over.                                              *)
Began(t) == [NoRun EXCEPT !.in.now = t]

Asked(t, s) == [NoRun EXCEPT !.in.now = t, !.in.prev = s]

Reads(r, s) == [r EXCEPT !.in.prev = s]

Settled(r, snap) == [r EXCEPT !.out = Consumed(r.in, snap)]

(* A step of u, from one point of the run to the next. *)
Moves(u, from, to, r) ==
    /\ pc[u] = from /\ pc'[u] = to /\ run'[u] = r
    /\ UNCHANGED <<now, serving>>

-----------------------------------------------------------------------------
(* What the steps do, told from where u stands. *)

(* Up to the decision nothing is written.                                  *)
LEMMA StepsOf ==
    ASSUME TypeOK, NEW u \in Proc
    PROVE  /\ Start(u) => /\ Moves(u, "idle", "load", Began(now))
                          /\ UNCHANGED <<state, snapshot, outcome, hist>>
           /\ Load(u) => /\ Moves(u, "load", "fetch", Reads(run[u], state))
                         /\ UNCHANGED <<state, snapshot, outcome, hist>>
           /\ FetchError(u) =>
                 /\ Moves(u, "fetch", "decide", WithError(run[u]))
                 /\ UNCHANGED <<state, snapshot, outcome, hist>>
           /\ FetchNotModified(u) =>
                 /\ Moves(u, "fetch", "cached", With304(run[u], serving))
                 /\ MayAnswer304(run[u].in.prev, serving)
                 /\ UNCHANGED <<state, snapshot, outcome, hist>>
           /\ FetchBody(u) =>
                 /\ Moves(u, "fetch", "decide", WithBody(run[u], serving))
                 /\ UNCHANGED <<state, snapshot, outcome, hist>>
           /\ ReadCached(u) =>
                 /\ Moves(u, "cached", "decide",
                          WithCached(run[u], snapshot))
                 /\ UNCHANGED <<state, snapshot, outcome, hist>>
<1>1. u \in DOMAIN run /\ u \in DOMAIN pc
    BY DEF TypeOK
<1> QED
    BY <1>1 DEF Start, Load, FetchError, FetchNotModified, FetchBody,
                ReadCached, Advance, Moves, Began, Reads

(* From the decision on, one thing is written after the other.             *)
LEMMA WritesOf ==
    ASSUME TypeOK, NEW u, Lone(u)
    PROVE  /\ Decide(u) =>
                 /\ Moves(u, "decide", "save", Settled(run[u], snapshot))
                 /\ UNCHANGED <<state, snapshot, outcome>>
                 /\ Verdict(run[u].in) = "OK" /\ ~run[u].in.notModified =>
                       /\ hist'.vettedAt = run[u].in.now
                       /\ hist'.seen = hist.seen /\ hist'.since = hist.since
                 /\ ~(Verdict(run[u].in) = "OK" /\ ~run[u].in.notModified) =>
                       hist' = hist
           /\ Save(u) =>
                 /\ Moves(u, "save",
                          IF Keeps(run[u].in) THEN "keep" ELSE "handover",
                          run[u])
                 /\ state' = ToSave(run[u])
                 /\ hist' = IF run[u].from \in {NoBody, hist.seen} THEN hist
                            ELSE [hist EXCEPT !.seen = run[u].from,
                                              !.since = run[u].in.now]
                 /\ UNCHANGED <<snapshot, outcome>>
           /\ SaveLastGood(u) =>
                 /\ Moves(u, "keep", "handover", run[u])
                 /\ snapshot' = Clean(run[u].in.list)
                 /\ UNCHANGED <<state, outcome, hist>>
           /\ HandOver(u) =>
                 /\ Moves(u, "handover", "idle", NoRun)
                 /\ outcome' = OutcomeOf(run[u])
                 /\ UNCHANGED <<state, snapshot, hist>>
           /\ Abort(u) =>
                 /\ pc'[u] = "idle" /\ run'[u] = NoRun
                 /\ aborts < MaxAborts
                 /\ UNCHANGED <<now, serving, state, snapshot, outcome, hist>>
<1>1. u \in DOMAIN run /\ u \in DOMAIN pc /\ hist \in History
    BY DEF TypeOK, Lone
<1>2. u \notin Rehearsing
    BY DEF Lone
<1>3. ASSUME Decide(u)
      PROVE  /\ Moves(u, "decide", "save", Settled(run[u], snapshot))
             /\ UNCHANGED <<state, snapshot, outcome>>
             /\ Verdict(run[u].in) = "OK" /\ ~run[u].in.notModified =>
                   /\ hist'.vettedAt = run[u].in.now
                   /\ hist'.seen = hist.seen /\ hist'.since = hist.since
             /\ ~(Verdict(run[u].in) = "OK" /\ ~run[u].in.notModified) =>
                   hist' = hist
    <2>1. Vets(u) <=> Verdict(run[u].in) = "OK" /\ ~run[u].in.notModified
        BY <1>2 DEF Vets
    <2>2. Vets(u) => /\ hist'.vettedAt = run[u].in.now
                     /\ hist'.seen = hist.seen /\ hist'.since = hist.since
        BY <1>1, <1>3 DEF Decide, History
    <2>3. ~Vets(u) => hist' = hist
        BY <1>3 DEF Decide
    <2>4. Moves(u, "decide", "save", Settled(run[u], snapshot))
        BY <1>1, <1>2, <1>3 DEF Decide, Advance, Moves, Settled
    <2> QED
        BY <1>3, <2>1, <2>2, <2>3, <2>4 DEF Decide
<1>4. Save(u) => Moves(u, "save",
                       IF Keeps(run[u].in) THEN "keep" ELSE "handover",
                       run[u])
    BY <1>1 DEF Save, Advance, Moves
<1>5. SaveLastGood(u) => Moves(u, "keep", "handover", run[u])
    BY <1>1 DEF SaveLastGood, Advance, Moves
<1>6. HandOver(u) => Moves(u, "handover", "idle", NoRun)
    BY <1>1 DEF HandOver, Advance, Moves
<1>7. Abort(u) => pc'[u] = "idle" /\ run'[u] = NoRun
    BY <1>1 DEF Abort
<1> QED
    BY <1>2, <1>3, <1>4, <1>5, <1>6, <1>7
       DEF Save, SaveLastGood, HandOver, Abort

(* A dry run never stands where files are written. *)
LEMMA Cases ==
    ASSUME TypeOK, RecordInv, [Next]_vars, NEW u, Lone(u)
    PROVE  \/ Elsewhere(u)
           \/ Start(u) \/ Load(u) \/ Fetch(u) \/ ReadCached(u) \/ Decide(u)
           \/ Save(u) \/ SaveLastGood(u) \/ HandOver(u) \/ Abort(u)
<1>1. CASE Tick \/ (\E b \in Body : Publish(b)) \/ UNCHANGED vars
    BY <1>1 DEF Tick, Publish, vars, Elsewhere
<1>2. ASSUME NEW p \in Proc, p # u,
             Start(p) \/ Fetch(p) \/ Proceed(p) \/ Abort(p)
      PROVE  Elsewhere(u)
    <2>1. p \in Rehearsing /\ u \in DOMAIN run /\ u \in DOMAIN pc
        BY <1>2 DEF Lone, TypeOK
    <2>2. ~Save(p) /\ ~SaveLastGood(p) /\ ~Vets(p)
        BY <2>1 DEF RecordInv, Careful, Save, SaveLastGood, Advance, Vets
    <2>3. /\ \E r : run' = [run EXCEPT ![p] = r]
          /\ \E at : pc' = [pc EXCEPT ![p] = at]
        BY <1>2, <2>2 DEF Start, Fetch, FetchError, FetchNotModified,
            FetchBody, Proceed, Load, ReadCached, Decide, HandOver, Abort,
            Advance
    <2>4. pc'[u] = pc[u] /\ run'[u] = run[u]
        BY <1>2, <2>1, <2>3
    <2>5. UNCHANGED <<now, serving, state, snapshot, outcome, hist>>
        BY <1>2, <2>1, <2>2 DEF Start, Fetch, FetchError, FetchNotModified,
            FetchBody, Proceed, Load, ReadCached, Decide, HandOver, Abort
    <2> QED
        BY <2>4, <2>5 DEF Elsewhere
<1> QED
    BY <1>1, <1>2 DEF Next, Proceed

(* With no run to be stopped none is.                                      *)
LEMMA NoAborts ==
    ASSUME TypeOK, MaxAborts = 0, NEW p \in Proc
    PROVE  ~Abort(p)
<1>1. aborts \in Nat
    BY DEF TypeOK
<1> QED
    BY <1>1 DEF Abort

-----------------------------------------------------------------------------
(* The fields of a run, after each of its steps. *)

(* A run before the answer.                                                *)
LEMMA AskedFields ==
    ASSUME NEW t \in Nat, NEW s \in FeedState
    PROVE  /\ Began(t).in.now = t
           /\ Reads(Began(t), s) = Asked(t, s)
           /\ Asked(t, s).in.now = t /\ Asked(t, s).in.prev = s
           /\ Asked(t, s).in.sha = NoBody /\ Asked(t, s).from = NoBody
           /\ ~Asked(t, s).in.notModified /\ ~Asked(t, s).in.fetchErr
BY DEF Began, Reads, Asked, NoRun, Runs, Input, ZeroState, FeedState

(* A run after each kind of answer.                                        *)
LEMMA AnswerFields ==
    ASSUME NEW r \in Runs, NEW b \in Body, NEW snap \in SUBSET Prefix
    PROVE  LET e == WithError(r)
               w == WithBody(r, b)
               n == With304(r, b)
               c == WithCached(r, snap)
           IN  /\ e.in.now = r.in.now /\ e.in.prev = r.in.prev
               /\ e.in.sha = r.in.sha /\ e.in.fetchErr
               /\ e.in.notModified = r.in.notModified /\ e.from = r.from
               /\ w.in.now = r.in.now /\ w.in.prev = r.in.prev
               /\ w.in.sha = b /\ w.from = b
               /\ w.in.notModified = r.in.notModified
               /\ n.in.now = r.in.now /\ n.in.prev = r.in.prev
               /\ n.in.sha = r.in.prev.sha /\ n.from = b
               /\ c.in.now = r.in.now /\ c.in.prev = r.in.prev
               /\ c.in.sha = r.in.sha /\ c.from = r.from
               /\ c.in.fetchErr = r.in.fetchErr
               /\ c.in.notModified = r.in.notModified
<1>1. r.in \in Input
    BY DEF Runs
<1>2. /\ Parsed(r.in, b).now = r.in.now
      /\ Parsed(r.in, b).prev = r.in.prev
      /\ Parsed(r.in, b).sha = b
      /\ Parsed(r.in, b).notModified = r.in.notModified
    BY <1>1 DEF Parsed, Input
<1>3. WithBody(r, b).in = Parsed(r.in, b) /\ WithBody(r, b).from = b
    BY DEF WithBody, Runs
<1> QED
    BY <1>1, <1>2, <1>3 DEF WithError, With304, WithCached, Runs, Input

(* The decision adds what is handed over.                                  *)
LEMMA DecidedFields ==
    ASSUME NEW r \in Runs, NEW snap
    PROVE  LET d == Settled(r, snap)
           IN  /\ d.in = r.in /\ d.tag = r.tag /\ d.from = r.from
               /\ d.out = Consumed(r.in, snap)
BY DEF Settled, Runs

(* The record a run saves, field by field. *)
LEMMA SavedFields ==
    ASSUME NEW r \in Runs
    PROVE  /\ ToSave(r).lastGoodAt =
                 IF Verdict(r.in) = "OK" THEN r.in.now
                 ELSE r.in.prev.lastGoodAt
           /\ ToSave(r).lastGoodCount =
                 IF Verdict(r.in) = "OK" THEN EntryCount(r.in)
                 ELSE r.in.prev.lastGoodCount
           /\ ToSave(r).sha =
                 IF NewBytes(r.in) THEN r.in.sha ELSE r.in.prev.sha
           /\ ToSave(r).unchangedSince =
                 IF NewBytes(r.in) THEN r.in.now
                 ELSE r.in.prev.unchangedSince
<1> DEFINE in   == r.in
           next == NextState(in)
<1>1. in.prev \in FeedState
    BY DEF Runs, Input
<1>2. /\ next.lastGoodAt =
            IF Verdict(in) = "OK" THEN in.now ELSE in.prev.lastGoodAt
      /\ next.lastGoodCount =
            IF Verdict(in) = "OK" THEN EntryCount(in)
            ELSE in.prev.lastGoodCount
      /\ next.sha = IF NewBytes(in) THEN in.sha ELSE in.prev.sha
      /\ next.unchangedSince =
            IF NewBytes(in) THEN in.now ELSE in.prev.unchangedSince
      /\ DOMAIN next = DOMAIN in.prev
    BY <1>1 DEF NextState, FeedState, BaselineMoves
<1>3. /\ [next EXCEPT !.etag = r.tag].lastGoodAt = next.lastGoodAt
      /\ [next EXCEPT !.etag = r.tag].lastGoodCount = next.lastGoodCount
      /\ [next EXCEPT !.etag = r.tag].sha = next.sha
      /\ [next EXCEPT !.etag = r.tag].unchangedSince = next.unchangedSince
    BY <1>1, <1>2 DEF FeedState
<1>4. ToSave(r) = next \/ ToSave(r) = [next EXCEPT !.etag = r.tag]
    BY DEF ToSave
<1> QED
    BY <1>2, <1>3, <1>4

-----------------------------------------------------------------------------
(* A run of u computes from the record that is on disk when it saves, and  *)
(* it began after everything the record tells of.                          *)

Fresh(u) ==
    /\ pc[u] = "load" => run[u] = Began(run[u].in.now)
    /\ pc[u] = "fetch" => run[u] = Asked(run[u].in.now, state)

UpToDate(u) ==
    /\ pc[u] \in {"fetch", "cached", "decide", "save"} =>
          run[u].in.prev = state
    /\ pc[u] \in {"keep", "handover"} => state = ToSave(run[u])

Timely(u) ==
    /\ state.lastGoodAt <= now
    /\ state.unchangedSince <= now
    /\ outcome.now <= now
    /\ pc[u] # "idle" =>
          /\ run[u].in.now <= now
          /\ state.lastGoodAt <= run[u].in.now
          /\ state.unchangedSince <= run[u].in.now
          /\ outcome.now <= run[u].in.now

ClockInv(u) == Fresh(u) /\ UpToDate(u) /\ Timely(u)

(* At first no time has been recorded.                                     *)
LEMMA ClockInit ==
    ASSUME NEW u, Lone(u), Init
    PROVE  ClockInv(u)
<1>1. pc[u] = "idle"
    BY DEF Init, Lone
<1>2. /\ state.lastGoodAt = 0 /\ state.unchangedSince = 0
      /\ outcome.now = 0 /\ now = 1
    BY DEF Init, ZeroState, NoOutcome
<1> QED
    BY <1>1, <1>2 DEF ClockInv, Fresh, UpToDate, Timely

(* Each step keeps the times in order.                                     *)
LEMMA ClockStep ==
    ASSUME IInv, RecordInv, [Next]_vars, NEW u, Lone(u), ClockInv(u)
    PROVE  ClockInv(u)'
<1> DEFINE r == run[u]
<1>1. TypeOK
    BY DEF IInv
<1>2. /\ u \in Proc /\ r \in Runs /\ r.in.now \in Nat
      /\ now \in Nat /\ serving \in Body
      /\ state \in FeedState /\ snapshot \in SUBSET Prefix
      /\ outcome.now \in Nat
      /\ state.lastGoodAt \in Nat /\ state.unchangedSince \in Nat
    BY <1>1 DEF TypeOK, Lone, Runs, Input, FeedState, Outcomes
<1>3. CASE Elsewhere(u)
    BY <1>2, <1>3 DEF Elsewhere, ClockInv, Fresh, UpToDate, Timely
<1>4. CASE Start(u)
    <2>1. /\ pc'[u] = "load" /\ UNCHANGED <<now, state, outcome>>
          /\ run'[u] = Began(now)
        BY <1>1, <1>2, <1>4, StepsOf DEF Moves
    <2>2. run'[u].in.now = now
        BY <1>2, <2>1, AskedFields
    <2> QED
        BY <1>2, <2>1, <2>2 DEF ClockInv, Fresh, UpToDate, Timely
<1>5. CASE Load(u)
    <2>1. /\ pc[u] = "load" /\ pc'[u] = "fetch"
          /\ UNCHANGED <<now, state, outcome>>
          /\ run'[u] = Reads(r, state)
        BY <1>1, <1>2, <1>5, StepsOf DEF Moves
    <2>2. r = Began(r.in.now)
        BY <2>1 DEF ClockInv, Fresh
    <2>3. /\ run'[u] = Asked(r.in.now, state)
          /\ run'[u].in.now = r.in.now /\ run'[u].in.prev = state
        BY <1>2, <2>1, <2>2, AskedFields
    <2> HIDE DEF r
    <2> QED
        BY <1>2, <2>1, <2>3 DEF ClockInv, Fresh, UpToDate, Timely, r
<1>6. CASE Fetch(u) \/ ReadCached(u) \/ Decide(u)
    <2>1. /\ pc[u] \in {"fetch", "cached", "decide"}
          /\ pc'[u] \in {"cached", "decide", "save"}
          /\ UNCHANGED <<now, state, outcome>>
          /\ run'[u].in.now = r.in.now /\ run'[u].in.prev = r.in.prev
        <3>1. CASE Fetch(u) \/ ReadCached(u)
            <4>1. CASE FetchError(u)
                <5>1. /\ pc[u] = "fetch" /\ pc'[u] = "decide"
                      /\ run'[u] = WithError(r)
                      /\ UNCHANGED <<now, state, outcome>>
                    BY <1>1, <1>2, <4>1, StepsOf DEF Moves
                <5> HIDE DEF r
                <5> QED
                    BY <1>2, <5>1, AnswerFields
            <4>2. CASE FetchNotModified(u)
                <5>1. /\ pc[u] = "fetch" /\ pc'[u] = "cached"
                      /\ run'[u] = With304(r, serving)
                      /\ UNCHANGED <<now, state, outcome>>
                    BY <1>1, <1>2, <4>2, StepsOf DEF Moves
                <5> HIDE DEF r
                <5> QED
                    BY <1>2, <5>1, AnswerFields
            <4>3. CASE FetchBody(u)
                <5>1. /\ pc[u] = "fetch" /\ pc'[u] = "decide"
                      /\ run'[u] = WithBody(r, serving)
                      /\ UNCHANGED <<now, state, outcome>>
                    BY <1>1, <1>2, <4>3, StepsOf DEF Moves
                <5> HIDE DEF r
                <5> QED
                    BY <1>2, <5>1, AnswerFields
            <4>4. CASE ReadCached(u)
                <5>1. /\ pc[u] = "cached" /\ pc'[u] = "decide"
                      /\ run'[u] = WithCached(r, snapshot)
                      /\ UNCHANGED <<now, state, outcome>>
                    BY <1>1, <1>2, <4>4, StepsOf DEF Moves
                <5> HIDE DEF r
                <5> QED
                    BY <1>2, <5>1, AnswerFields
            <4> QED
                BY <3>1, <4>1, <4>2, <4>3, <4>4 DEF Fetch
        <3>2. CASE Decide(u)
            <4>1. /\ pc[u] = "decide" /\ pc'[u] = "save"
                  /\ run'[u] = Settled(r, snapshot)
                  /\ UNCHANGED <<now, state, outcome>>
                BY <1>1, <3>2, WritesOf DEF Moves
            <4> HIDE DEF r
            <4> QED
                BY <1>2, <4>1, DecidedFields
        <3> QED
            BY <1>6, <3>1, <3>2
    <2> QED
        BY <1>2, <2>1 DEF ClockInv, Fresh, UpToDate, Timely
<1>7. CASE Save(u)
    <2>1. /\ pc[u] = "save" /\ pc'[u] \in {"keep", "handover"}
          /\ run'[u] = r /\ state' = ToSave(r)
          /\ UNCHANGED <<now, outcome>>
        BY <1>1, <1>7, WritesOf DEF Moves
    <2>2. r.in.prev = state
        BY <2>1 DEF ClockInv, UpToDate
    <2>3. /\ state'.lastGoodAt \in {state.lastGoodAt, r.in.now}
          /\ state'.unchangedSince \in {state.unchangedSince, r.in.now}
        BY <1>2, <2>1, <2>2, SavedFields
    <2> QED
        BY <1>2, <2>1, <2>3 DEF ClockInv, Fresh, UpToDate, Timely
<1>8. CASE SaveLastGood(u)
    <2>1. /\ pc[u] = "keep" /\ pc'[u] = "handover" /\ run'[u] = r
          /\ UNCHANGED <<now, state, outcome>>
        BY <1>1, <1>8, WritesOf DEF Moves
    <2> QED
        BY <1>2, <2>1 DEF ClockInv, Fresh, UpToDate, Timely
<1>9. CASE HandOver(u)
    <2>1. /\ pc[u] = "handover" /\ pc'[u] = "idle"
          /\ outcome' = OutcomeOf(r) /\ UNCHANGED <<now, state>>
        BY <1>1, <1>9, WritesOf DEF Moves
    <2>2. outcome'.now = r.in.now
        BY <2>1 DEF OutcomeOf
    <2> QED
        BY <1>2, <2>1, <2>2 DEF ClockInv, Fresh, UpToDate, Timely
<1>10. CASE Abort(u)
    <2>1. pc'[u] = "idle" /\ UNCHANGED <<now, state, outcome>>
        BY <1>1, <1>10, WritesOf
    <2> QED
        BY <1>2, <2>1 DEF ClockInv, Fresh, UpToDate, Timely
<1> QED
    BY <1>1, <1>3, <1>4, <1>5, <1>6, <1>7, <1>8, <1>9, <1>10, Cases

(* The one updater works on the record as it is on disk, and is later than it.*)
THEOREM ClockInvariance ==
    ASSUME NEW u, Lone(u)
    PROVE  Spec => []ClockInv(u)
<1>1. Init => ClockInv(u)
    BY ClockInit
<1>2. IInv /\ RecordInv /\ ClockInv(u) /\ [Next]_vars => ClockInv(u)'
    BY ClockStep
<1> QED
    BY <1>1, <1>2, Invariance, RecordInvariance, PTL DEF Spec

(* The times in the record never run backwards: the one run that writes    *)
(* took its time after every run whose time the record holds.  Runs may    *)
(* stop half way.                                                          *)
THEOREM ClockIsMonotone ==
    ASSUME OneUpdater
    PROVE  Spec => ClockNeverRunsBack
<1>1. PICK u : Lone(u)
    BY DEF OneUpdater
<1> DEFINE Forward == /\ state'.lastGoodAt >= state.lastGoodAt
                      /\ state'.unchangedSince >= state.unchangedSince
<1>2. IInv /\ RecordInv /\ ClockInv(u) /\ [Next]_vars => [Forward]_state
    <2> SUFFICES ASSUME IInv, RecordInv, ClockInv(u), [Next]_vars,
                        state' # state
                 PROVE  Forward
        OBVIOUS
    <2> DEFINE r == run[u]
    <2>1. TypeOK
        BY DEF IInv
    <2>2. Save(u)
        BY <1>1, <2>1, Cases, StepsOf, WritesOf DEF Elsewhere, Fetch, Lone
    <2>3. pc[u] = "save" /\ state' = ToSave(r)
        BY <1>1, <2>1, <2>2, WritesOf DEF Moves
    <2>4. /\ r \in Runs /\ r.in.now \in Nat
          /\ state.lastGoodAt \in Nat /\ state.unchangedSince \in Nat
        BY <1>1, <2>1 DEF TypeOK, Lone, Runs, Input, FeedState
    <2>5. /\ r.in.prev = state
          /\ state.lastGoodAt <= r.in.now /\ state.unchangedSince <= r.in.now
        BY <2>3 DEF ClockInv, UpToDate, Timely
    <2>6. /\ state'.lastGoodAt \in {state.lastGoodAt, r.in.now}
          /\ state'.unchangedSince \in {state.unchangedSince, r.in.now}
        BY <2>3, <2>4, <2>5, SavedFields
    <2> QED
        BY <2>4, <2>5, <2>6
<1>3. Spec => []ClockInv(u)
    BY <1>1, ClockInvariance
<1> QED
    BY <1>2, <1>3, Invariance, RecordInvariance, PTL
       DEF Spec, ClockNeverRunsBack

-----------------------------------------------------------------------------
(* The staleness clock tells since when the provider has not changed.      *)

(* No body has a validator; or every body has one of its own. *)
NoneTagged == \A b \in Body : TagOf[b] = NoTag

OwnTags == AllTagged /\ \A b, c \in Body : TagOf[b] = TagOf[c] => b = c

(* The hash in the record is that of the body last met, and the clock runs *)
(* from the first of the unbroken row of runs that met it.                 *)
Met ==
    /\ hist.seen = state.sha
    /\ hist.since = IF hist.seen = NoBody THEN 0 ELSE state.unchangedSince
    /\ state.sha # NoBody => state.unchangedSince # 0

(* The hash a run goes on with is that of the body served to it, also when *)
(* the answer was only a 304.                                              *)
Answers(r) ==
    \/ r.from = NoBody /\ r.in.fetchErr /\ r.in.sha = NoBody
    \/ r.from # NoBody /\ r.in.sha = r.from

Answer(u) ==
    pc[u] \in Replied => Answers(run[u])

(* A verdict OK is about content that is not overdue. *)
OkIsNew(u) ==
    Cadence > 0 =>
        /\ (pc[u] \in {"keep", "handover"} /\ Verdict(run[u].in) = "OK") =>
              run[u].in.now - hist.since <= Cadence + StaleMax
        /\ outcome.status = "OK" =>
              outcome.now - hist.since <= Cadence + StaleMax

FrozenInv(u) == Met /\ Answer(u) /\ OkIsNew(u)

(* At first no body has been met.                                          *)
LEMMA FrozenInit ==
    ASSUME NEW u, Lone(u), Init
    PROVE  FrozenInv(u)
<1>1. pc[u] = "idle"
    BY DEF Init, Lone
<1>2. /\ state.sha = NoBody /\ outcome.status = ""
      /\ hist.seen = NoBody /\ hist.since = 0
    BY DEF Init, ZeroState, NoOutcome
<1> QED
    BY <1>1, <1>2 DEF FrozenInv, Met, Answer, OkIsNew, Replied

(* Whatever the provider answers, the run goes on with the right hash. *)
LEMMA FetchAnswers ==
    ASSUME IInv, RecordInv, NEW u, Lone(u), ClockInv(u), Fetch(u),
           NoneTagged \/ OwnTags
    PROVE  Answers(run'[u])
<1> DEFINE r == run[u]
<1>1. TypeOK /\ u \in Proc
    BY DEF IInv, Lone
<1>2. /\ r \in Runs /\ serving \in Body /\ state \in FeedState
      /\ r.in.now \in Nat /\ {} \in SUBSET Prefix
    BY <1>1 DEF TypeOK, Runs, Input
<1>3. pc[u] = "fetch"
    BY DEF Fetch, FetchError, FetchNotModified, FetchBody, Advance
<1>4. r = Asked(r.in.now, state)
    BY <1>3 DEF ClockInv, Fresh
<1>5. r.in.sha = NoBody /\ r.from = NoBody /\ r.in.prev = state
    BY <1>2, <1>4, AskedFields
<1>6. serving # NoBody
    BY <1>2, HealthAssumption
<1>7. CASE FetchError(u)
    <2>1. run'[u] = WithError(r)
        BY <1>1, <1>7, StepsOf DEF Moves
    <2> HIDE DEF r
    <2> QED
        BY <1>2, <1>5, <2>1, AnswerFields DEF Answers
<1>8. CASE FetchBody(u)
    <2>1. run'[u] = WithBody(r, serving)
        BY <1>1, <1>8, StepsOf DEF Moves
    <2> HIDE DEF r
    <2> QED
        BY <1>2, <1>6, <2>1, AnswerFields DEF Answers
<1>9. CASE FetchNotModified(u)
    <2>1. run'[u] = With304(r, serving) /\ MayAnswer304(r.in.prev, serving)
        BY <1>1, <1>9, StepsOf DEF Moves
    <2>2. state.etag # NoTag /\ state.etag = TagOf[serving]
        BY <1>5, <2>1 DEF MayAnswer304
    <2>3. OwnTags
        BY <1>2, <2>2 DEF NoneTagged
    <2>4. state.sha # NoBody /\ state.etag = TagOf[state.sha]
        BY <2>2, <2>3 DEF OwnTags, RecordInv, WellKept, Named
    <2>5. state.sha = serving
        BY <1>2, <2>2, <2>3, <2>4 DEF OwnTags, FeedState
    <2>6. run'[u].in.sha = r.in.prev.sha /\ run'[u].from = serving
        <3> HIDE DEF r
        <3> QED
            BY <1>2, <2>1, AnswerFields
    <2> QED
        BY <1>5, <1>6, <2>5, <2>6 DEF Answers
<1> QED
    BY <1>7, <1>8, <1>9 DEF Fetch

(* Saving keeps the clock, and an OK verdict is not overdue by it. *)
LEMMA FrozenSave ==
    ASSUME IInv, RecordInv, NEW u, Lone(u), ClockInv(u), FrozenInv(u),
           Save(u)
    PROVE  FrozenInv(u)'
<1> DEFINE r == run[u]
<1>1. TypeOK
    BY DEF IInv
<1>2. /\ pc[u] = "save" /\ pc'[u] \in {"keep", "handover"}
      /\ run'[u] = r /\ state' = ToSave(r)
      /\ hist' = IF r.from \in {NoBody, hist.seen} THEN hist
                 ELSE [hist EXCEPT !.seen = r.from, !.since = r.in.now]
      /\ UNCHANGED outcome
    BY <1>1, WritesOf DEF Moves
<1>3. /\ r \in Runs /\ r.in.now \in Nat /\ state \in FeedState
      /\ state.unchangedSince \in Nat /\ outcome.now \in Nat
      /\ hist \in History /\ hist.since \in Nat
      /\ Cadence \in Nat /\ StaleMax \in Nat
    BY <1>1, HealthAssumption
       DEF TypeOK, Lone, Runs, Input, FeedState, Outcomes, History
<1>4. r.in.prev = state /\ outcome.now <= r.in.now
    BY <1>2 DEF ClockInv, UpToDate, Timely
<1>5. r.in.now > 0
    BY <1>2 DEF RecordInv, Careful, Lone
<1>6. /\ state'.sha = IF NewBytes(r.in) THEN r.in.sha ELSE state.sha
      /\ state'.unchangedSince =
            IF NewBytes(r.in) THEN r.in.now ELSE state.unchangedSince
    BY <1>2, <1>3, <1>4, SavedFields
<1>7. NewBytes(r.in) <=> \/ r.in.sha # NoBody /\ r.in.sha # state.sha
                         \/ state.unchangedSince = 0
    BY <1>4 DEF NewBytes
<1>8. Answers(r)
    BY <1>2 DEF FrozenInv, Answer, Replied
<1>9. Met
    BY DEF FrozenInv
<1>10. CASE r.from \in {NoBody, hist.seen}
    <2>1. hist' = hist
        BY <1>2, <1>10
    <2>2. Met'
        BY <1>3, <1>5, <1>6, <1>7, <1>8, <1>9, <1>10, <2>1 DEF Met, Answers
    <2>3. ASSUME Cadence > 0, Verdict(r.in) = "OK"
          PROVE  r.in.now - hist.since <= Cadence + StaleMax
        <3>1. ~FailedRun(r.in) /\ ~Overdue(r.in)
            BY <2>3 DEF Verdict
        <3>2. r.from # NoBody /\ r.in.sha = r.from
            BY <1>8, <3>1 DEF Answers, FailedRun
        <3>3. r.in.sha = state.sha /\ state.sha # NoBody
            BY <1>9, <1>10, <3>2 DEF Met
        <3>4. hist.since = state.unchangedSince /\ state.unchangedSince # 0
            BY <1>9, <3>3 DEF Met
        <3>5. Unchanged(r.in)
            BY <1>4, <3>3 DEF Unchanged
        <3> QED
            BY <1>3, <1>4, <2>3, <3>1, <3>4, <3>5 DEF Overdue
    <2>4. OkIsNew(u)'
        BY <1>2, <2>1, <2>3 DEF OkIsNew, FrozenInv
    <2> QED
        BY <1>2, <1>8, <2>2, <2>4 DEF FrozenInv, Answer, Replied
<1>11. CASE r.from \notin {NoBody, hist.seen}
    <2>1. hist'.seen = r.from /\ hist'.since = r.in.now
        BY <1>2, <1>3, <1>11 DEF History
    <2>2. Met'
        BY <1>3, <1>5, <1>6, <1>7, <1>8, <1>9, <1>11, <2>1 DEF Met, Answers
    <2>3. OkIsNew(u)'
        <3>1. r.in.now - hist'.since <= Cadence + StaleMax
            BY <1>3, <2>1
        <3>2. outcome'.now - hist'.since <= Cadence + StaleMax
            BY <1>2, <1>3, <1>4, <2>1
        <3> QED
            BY <1>2, <3>1, <3>2 DEF OkIsNew
    <2> QED
        BY <1>2, <1>8, <2>2, <2>3 DEF FrozenInv, Answer, Replied
<1> QED
    BY <1>10, <1>11

(* Each step keeps the clock with the body that was met last.              *)
LEMMA FrozenStep ==
    ASSUME IInv, RecordInv, [Next]_vars, NEW u, Lone(u), ClockInv(u),
           NoneTagged \/ OwnTags, FrozenInv(u)
    PROVE  FrozenInv(u)'
<1> DEFINE r == run[u]
<1>1. TypeOK /\ u \in Proc
    BY DEF IInv, Lone
<1>2. r \in Runs /\ serving \in Body /\ snapshot \in SUBSET Prefix
    BY <1>1 DEF TypeOK
<1>3. CASE Elsewhere(u)
    BY <1>3 DEF Elsewhere, FrozenInv, Met, Answer, OkIsNew, Replied
<1>4. CASE Start(u) \/ Load(u) \/ Abort(u)
    <2>1. /\ pc'[u] \in {"idle", "load", "fetch"}
          /\ UNCHANGED <<state, outcome, hist>>
        BY <1>1, <1>4, StepsOf, WritesOf DEF Moves
    <2> QED
        BY <2>1 DEF FrozenInv, Met, Answer, OkIsNew, Replied
<1>5. CASE Fetch(u)
    <2>1. /\ pc'[u] \in {"cached", "decide"}
          /\ UNCHANGED <<state, outcome, hist>>
        BY <1>1, <1>5, StepsOf DEF Fetch, Moves
    <2>2. Answers(run'[u])
        BY <1>5, FetchAnswers
    <2> QED
        BY <2>1, <2>2 DEF FrozenInv, Met, Answer, OkIsNew, Replied
<1>6. CASE ReadCached(u)
    <2>1. /\ pc[u] = "cached" /\ pc'[u] = "decide"
          /\ run'[u] = WithCached(r, snapshot)
          /\ UNCHANGED <<state, outcome, hist>>
        BY <1>1, <1>6, StepsOf DEF Moves
    <2>2. Answers(r)
        BY <2>1 DEF FrozenInv, Answer, Replied
    <2>3. Answers(run'[u])
        <3> HIDE DEF r
        <3> QED
            BY <1>2, <2>1, <2>2, AnswerFields DEF Answers
    <2> QED
        BY <2>1, <2>3 DEF FrozenInv, Met, Answer, OkIsNew, Replied
<1>7. CASE Decide(u)
    <2>1. /\ pc[u] = "decide" /\ pc'[u] = "save"
          /\ run'[u] = Settled(r, snapshot)
          /\ UNCHANGED <<state, outcome>>
          /\ hist'.seen = hist.seen /\ hist'.since = hist.since
        BY <1>1, <1>7, WritesOf DEF Moves
    <2>2. Answers(r)
        BY <2>1 DEF FrozenInv, Answer, Replied
    <2>3. Answers(run'[u])
        <3> HIDE DEF r
        <3> QED
            BY <1>2, <2>1, <2>2, DecidedFields DEF Answers
    <2> QED
        BY <2>1, <2>3 DEF FrozenInv, Met, Answer, OkIsNew, Replied
<1>8. CASE Save(u)
    BY <1>8, FrozenSave
<1>9. CASE SaveLastGood(u)
    <2>1. /\ pc[u] = "keep" /\ pc'[u] = "handover" /\ run'[u] = r
          /\ UNCHANGED <<state, outcome, hist>>
        BY <1>1, <1>9, WritesOf DEF Moves
    <2> QED
        BY <2>1 DEF FrozenInv, Met, Answer, OkIsNew, Replied
<1>10. CASE HandOver(u)
    <2>1. /\ pc[u] = "handover" /\ pc'[u] = "idle"
          /\ outcome' = OutcomeOf(r) /\ UNCHANGED <<state, hist>>
        BY <1>1, <1>10, WritesOf DEF Moves
    <2>2. outcome'.now = r.in.now /\ outcome'.status = Verdict(r.in)
        BY <2>1 DEF OutcomeOf
    <2> QED
        BY <2>1, <2>2 DEF FrozenInv, Met, Answer, OkIsNew, Replied
<1> QED
    BY <1>1, <1>3, <1>4, <1>5, <1>6, <1>7, <1>8, <1>9, <1>10, Cases

(* Content the provider has not changed for longer than the cadence plus   *)
(* StaleMax is never reported OK.  Runs may stop half way: the clock is    *)
(* saved in one write with the hash it belongs to.                         *)
THEOREM FrozenIsNeverOk ==
    ASSUME OneUpdater, NoneTagged \/ OwnTags
    PROVE  Spec => []FrozenIsFlagged
<1>1. PICK u : Lone(u)
    BY DEF OneUpdater
<1>2. Init => FrozenInv(u)
    BY <1>1, FrozenInit
<1>3. IInv /\ RecordInv /\ ClockInv(u) /\ FrozenInv(u) /\ [Next]_vars =>
          FrozenInv(u)'
    BY <1>1, FrozenStep
<1>4. FrozenInv(u) => FrozenIsFlagged
    BY DEF FrozenInv, OkIsNew, FrozenIsFlagged
<1>5. Spec => []ClockInv(u)
    BY <1>1, ClockInvariance
<1> QED
    BY <1>2, <1>3, <1>4, <1>5, Invariance, RecordInvariance, PTL DEF Spec

-----------------------------------------------------------------------------
(* The cached copy during and after a run of u. *)

(* A run that was to replace the copy has done so when it hands over, and  *)
(* after a 304 the copy on disk is still the one the run has read.         *)
CopyInv(u) ==
    /\ (pc[u] = "handover" /\ Keeps(run[u].in)) =>
          snapshot = Clean(run[u].in.list)
    /\ (pc[u] \in {"decide", "save"} /\ run[u].in.notModified) =>
          run[u].in.list = {0} \X snapshot

(* Nobody else replaces the copy the updater has read.                     *)
LEMMA CopyStep ==
    ASSUME IInv, RecordInv, [Next]_vars, NEW u, Lone(u), ClockInv(u),
           CopyInv(u)
    PROVE  CopyInv(u)'
<1> DEFINE r == run[u]
<1>1. TypeOK /\ u \in Proc
    BY DEF IInv, Lone
<1>2. /\ r \in Runs /\ serving \in Body /\ snapshot \in SUBSET Prefix
      /\ state \in FeedState /\ r.in.now \in Nat
    BY <1>1 DEF TypeOK, Runs, Input
<1>3. CASE Elsewhere(u)
    BY <1>3 DEF Elsewhere, CopyInv
<1>4. CASE Start(u) \/ Load(u) \/ Abort(u) \/ HandOver(u)
    <2>1. pc'[u] \in {"idle", "load", "fetch"}
        BY <1>1, <1>4, StepsOf, WritesOf DEF Moves
    <2> QED
        BY <2>1 DEF CopyInv
<1>5. CASE FetchNotModified(u)
    <2>1. pc'[u] = "cached"
        BY <1>1, <1>5, StepsOf DEF Moves
    <2> QED
        BY <2>1 DEF CopyInv
<1>6. CASE FetchError(u) \/ FetchBody(u)
    <2>1. /\ pc[u] = "fetch" /\ pc'[u] = "decide"
          /\ run'[u] \in {WithError(r), WithBody(r, serving)}
        BY <1>1, <1>6, StepsOf DEF Moves
    <2>2. r = Asked(r.in.now, state)
        BY <2>1 DEF ClockInv, Fresh
    <2>3. ~r.in.notModified
        BY <1>2, <2>2, AskedFields
    <2>4. ~run'[u].in.notModified
        <3> HIDE DEF r
        <3> QED
            BY <1>2, <2>1, <2>3, AnswerFields
    <2> QED
        BY <2>1, <2>4 DEF CopyInv
<1>7. CASE ReadCached(u)
    <2>1. /\ pc'[u] = "decide" /\ run'[u] = WithCached(r, snapshot)
          /\ snapshot' = snapshot
        BY <1>1, <1>7, StepsOf DEF Moves
    <2>2. run'[u].in.list = {0} \X snapshot
        BY <1>2, <2>1, WithCachedType
    <2> QED
        BY <2>1, <2>2 DEF CopyInv
<1>8. CASE Decide(u)
    <2>1. /\ pc[u] = "decide" /\ pc'[u] = "save"
          /\ run'[u] = Settled(r, snapshot) /\ snapshot' = snapshot
        BY <1>1, <1>8, WritesOf DEF Moves
    <2>2. run'[u].in = r.in
        BY <1>2, <2>1, DecidedFields
    <2> QED
        BY <2>1, <2>2 DEF CopyInv
<1>9. CASE Save(u)
    <2>1. /\ pc[u] = "save" /\ run'[u] = r /\ snapshot' = snapshot
          /\ pc'[u] = IF Keeps(r.in) THEN "keep" ELSE "handover"
        BY <1>1, <1>9, WritesOf DEF Moves
    <2> QED
        BY <2>1 DEF CopyInv
<1>10. CASE SaveLastGood(u)
    <2>1. /\ pc'[u] = "handover" /\ run'[u] = r
          /\ snapshot' = Clean(r.in.list)
        BY <1>1, <1>10, WritesOf DEF Moves
    <2> QED
        BY <2>1 DEF CopyInv
<1> QED
    BY <1>1, <1>3, <1>4, <1>5, <1>6, <1>7, <1>8, <1>9, <1>10, Cases DEF Fetch

(* The list that a 304 stands for is the copy on disk.                     *)
LEMMA CopyInvariance ==
    ASSUME NEW u, Lone(u)
    PROVE  Spec => []CopyInv(u)
<1>1. Init => CopyInv(u)
    BY DEF Init, Lone, CopyInv
<1>2. IInv /\ RecordInv /\ ClockInv(u) /\ CopyInv(u) /\ [Next]_vars =>
          CopyInv(u)'
    BY CopyStep
<1> QED
    BY <1>1, <1>2, Invariance, RecordInvariance, ClockInvariance, PTL DEF Spec

-----------------------------------------------------------------------------
(* Counting. *)

(* A list without duplicates has as many entries as prefixes. *)
LEMMA ListedOnce ==
    ASSUME NEW list, IsFiniteSet(list),
           \A e, f \in list : e[2] = f[2] => e = f
    PROVE  Cardinality(Kept(list)) = Cardinality(Clean(list))
<1> DEFINE f == [e \in Kept(list) |-> e[2]]
<1>1. IsFiniteSet(Kept(list)) /\ Kept(list) \subseteq list
    BY FS_Subset DEF Kept
<1>2. f \in Surjection(Kept(list), Clean(list))
    BY DEF Surjection, Clean
<1>3. f \in Injection(Kept(list), Clean(list))
    <2>1. f \in [Kept(list) -> Clean(list)]
        BY DEF Clean
    <2>2. \A d, e \in Kept(list) : f[d] = f[e] => d = e
        BY <1>1
    <2> QED
        BY <2>1, <2>2 DEF Injection, IsInjective
<1> QED
    BY <1>1, <1>2, <1>3, FS_Surjection

(* The cached copy, evaluated after a 304, counts its own prefixes. *)
LEMMA CachedCount ==
    ASSUME NEW snap \in SUBSET Prefix
    PROVE  IsFiniteSet(snap) /\ Cardinality({0} \X snap) = Cardinality(snap)
<1>1. IsFiniteSet(snap) /\ Cardinality(snap) \in Nat
    BY FS_Subset, FS_CardinalityType, HealthAssumption
<1>2. IsFiniteSet({0}) /\ Cardinality({0}) = 1
    BY FS_Singleton
<1> QED
    BY <1>1, <1>2, FS_Product

(* A fetched list judged OK has an entry, so it replaces the cached copy. *)
LEMMA OkIsKept ==
    ASSUME NEW r \in Runs, Verdict(r.in) = "OK", ~r.in.notModified
    PROVE  Keeps(r.in)
<1>1. EntryCount(r.in) # 0
    BY DEF Verdict, FailedRun
<1>2. Kept(r.in.list) # {}
    BY <1>1, FS_EmptySet DEF EntryCount
<1>3. Clean(r.in.list) # {}
    BY <1>2 DEF Clean
<1> QED
    BY <1>3 DEF Keeps

-----------------------------------------------------------------------------
(* The two files of the store tell of the same healthy run. *)

(* The feed lists no prefix on two lines. *)
ListsOnce == \A b \in Body : \A e, f \in Lines[b] : e[2] = f[2] => e = f

BaselineInv(u) ==
    pc[u] # "keep" => state.lastGoodCount = Cardinality(snapshot)

(* Count and copy change together, but for the moment between their writes.*)
LEMMA BaselineStep ==
    ASSUME IInv, RecordInv, [Next]_vars, NEW u, Lone(u), ClockInv(u),
           CopyInv(u), MaxAborts = 0, ListsOnce, BaselineInv(u)
    PROVE  BaselineInv(u)'
<1> DEFINE r == run[u]
<1>1. TypeOK /\ u \in Proc
    BY DEF IInv, Lone
<1>2. /\ r \in Runs /\ snapshot \in SUBSET Prefix /\ aborts \in Nat
      /\ Sound(r, pc[u], hist.vetted)
    BY <1>1 DEF TypeOK, IInv, RunsSound
<1>3. CASE Elsewhere(u)
    BY <1>3 DEF Elsewhere, BaselineInv
<1>4. CASE Start(u) \/ Load(u) \/ Fetch(u) \/ ReadCached(u) \/ Decide(u)
             \/ HandOver(u)
    <2>1. UNCHANGED <<state, snapshot>> /\ pc[u] # "keep"
        BY <1>1, <1>4, StepsOf, WritesOf DEF Fetch, Moves
    <2> QED
        BY <2>1 DEF BaselineInv
<1>5. CASE Save(u)
    <2>1. /\ pc[u] = "save" /\ state' = ToSave(r) /\ snapshot' = snapshot
          /\ pc'[u] = IF Keeps(r.in) THEN "keep" ELSE "handover"
        BY <1>1, <1>5, WritesOf DEF Moves
    <2>2. r.in.prev = state
        BY <2>1 DEF ClockInv, UpToDate
    <2>3. state'.lastGoodCount = IF Verdict(r.in) = "OK" THEN EntryCount(r.in)
                                 ELSE state.lastGoodCount
        BY <1>2, <2>1, <2>2, SavedFields
    <2>4. state.lastGoodCount = Cardinality(snapshot)
        BY <2>1 DEF BaselineInv
    <2>5. ASSUME Verdict(r.in) = "OK", ~Keeps(r.in)
          PROVE  EntryCount(r.in) = Cardinality(snapshot)
        <3>1. r.in.notModified
            BY <1>2, <2>5, OkIsKept
        <3>2. r.in.list = {0} \X snapshot
            BY <2>1, <3>1 DEF CopyInv
        <3>3. Kept(r.in.list) = r.in.list
            <4>1. ~Floored(r.in)
                BY <2>5, VerdictType, Zenon
            <4> QED
                BY <4>1 DEF Floored
        <3> QED
            BY <1>2, <3>2, <3>3, CachedCount DEF EntryCount
    <2> QED
        BY <2>1, <2>3, <2>4, <2>5 DEF BaselineInv
<1>6. CASE SaveLastGood(u)
    <2>1. /\ pc[u] = "keep" /\ state' = state
          /\ snapshot' = Clean(r.in.list)
        BY <1>1, <1>6, WritesOf DEF Moves
    <2>2. Keeps(r.in) /\ Faithful(r)
        BY <1>2, <2>1 DEF Sound, Decided
    <2>3. /\ r.in.sha \in Body /\ r.in.list = Lines[r.in.sha]
        BY <1>2, <2>2, OkIsClean DEF Keeps
    <2>4. Cardinality(Kept(r.in.list)) = Cardinality(Clean(r.in.list))
        BY <2>3, CycleAssumption, ListedOnce DEF ListsOnce
    <2>5. state = ToSave(r)
        BY <2>1 DEF ClockInv, UpToDate
    <2>6. state.lastGoodCount = EntryCount(r.in)
        BY <1>2, <2>2, <2>5, SavedFields DEF Keeps
    <2> QED
        BY <2>1, <2>4, <2>6 DEF BaselineInv, EntryCount
<1>7. ~Abort(u)
    BY <1>1, NoAborts
<1> QED
    BY <1>1, <1>3, <1>4, <1>5, <1>6, <1>7, Cases

(* Between runs the baseline of the count check is the size of the cached  *)
(* copy, for a feed that lists nothing twice and runs that are not stopped *)
(* between their two writes.                                               *)
THEOREM BaselineIsOfSnapshot ==
    ASSUME OneUpdater, MaxAborts = 0, ListsOnce
    PROVE  Spec => []BaselineDescribesSnapshot
<1>1. PICK u : Lone(u)
    BY DEF OneUpdater
<1>2. Init => BaselineInv(u)
    <2> SUFFICES ASSUME Init PROVE state.lastGoodCount = Cardinality(snapshot)
        BY DEF BaselineInv
    <2>1. state.lastGoodCount = 0 /\ snapshot = {}
        BY DEF Init, ZeroState
    <2>2. Cardinality(snapshot) = 0
        BY <2>1, FS_EmptySet
    <2> QED
        BY <2>1, <2>2
<1>3. IInv /\ RecordInv /\ ClockInv(u) /\ CopyInv(u) /\ BaselineInv(u)
          /\ [Next]_vars => BaselineInv(u)'
    BY <1>1, BaselineStep
<1>4. BaselineInv(u) => BaselineDescribesSnapshot
    BY <1>1 DEF BaselineInv, BaselineDescribesSnapshot, Lone
<1>5. Spec => []ClockInv(u) /\ []CopyInv(u)
    BY <1>1, ClockInvariance, CopyInvariance
<1> QED
    BY <1>2, <1>3, <1>4, <1>5, Invariance, RecordInvariance, PTL DEF Spec

-----------------------------------------------------------------------------
(* What the record claims is backed by the copy, and served while recent.  *)

(* Without validators, lastGoodAt is the time of the last run that met a   *)
(* healthy body, and it is set exactly when there is a copy.               *)
Vetting(u) ==
    /\ ~run[u].in.notModified
    /\ hist.vettedAt = IF pc[u] = "save" /\ Verdict(run[u].in) = "OK"
                       THEN run[u].in.now ELSE state.lastGoodAt
    /\ pc[u] # "keep" => (state.lastGoodAt # 0 <=> snapshot # {})

(* A FAILED run has decided to hand over something exactly if that is      *)
(* recent enough.                                                          *)
Served(u) ==
    (pc[u] \in {"save", "keep", "handover"}
          /\ Verdict(run[u].in) = "FAILED") =>
        (run[u].out # {} <=>
            /\ hist.vettedAt # 0
            /\ run[u].in.now - hist.vettedAt <= StaleMax)

ServedInv(u) == Vetting(u) /\ Served(u)

(* At first nothing is claimed.                                            *)
LEMMA ServedInit ==
    ASSUME NEW u, Lone(u), Init
    PROVE  ServedInv(u)
<1>1. pc[u] = "idle" /\ run[u] = NoRun
    BY DEF Init, Lone
<1>2. ~NoRun.in.notModified
    BY DEF NoRun
<1>3. state.lastGoodAt = 0 /\ snapshot = {} /\ hist.vettedAt = 0
    BY DEF Init, ZeroState
<1> QED
    BY <1>1, <1>2, <1>3 DEF ServedInv, Vetting, Served

(* The decision of a FAILED run, from the record on disk. *)
LEMMA DecideServes ==
    ASSUME IInv, NEW u, Lone(u), ClockInv(u), ServedInv(u), Decide(u)
    PROVE  ServedInv(u)'
<1> DEFINE r == run[u]
<1>1. TypeOK
    BY DEF IInv
<1>2. /\ pc[u] = "decide" /\ pc'[u] = "save"
      /\ run'[u] = Settled(r, snapshot)
      /\ UNCHANGED <<state, snapshot>>
      /\ Verdict(r.in) = "OK" /\ ~r.in.notModified =>
            hist'.vettedAt = r.in.now
      /\ ~(Verdict(r.in) = "OK" /\ ~r.in.notModified) => hist' = hist
    BY <1>1, WritesOf DEF Moves
<1>3. r \in Runs
    BY <1>1 DEF TypeOK, Lone
<1>4. run'[u].in = r.in /\ run'[u].out = Consumed(r.in, snapshot)
    <2> HIDE DEF r
    <2> QED
        BY <1>2, <1>3, DecidedFields
<1>5. r.in.prev = state
    BY <1>2 DEF ClockInv, UpToDate
<1>6. /\ ~r.in.notModified
      /\ hist.vettedAt = state.lastGoodAt
      /\ state.lastGoodAt # 0 <=> snapshot # {}
    BY <1>2 DEF ServedInv, Vetting
<1>7. Vetting(u)'
    BY <1>2, <1>4, <1>6 DEF Vetting
<1>8. ASSUME Verdict(r.in) = "FAILED"
      PROVE  Consumed(r.in, snapshot) # {} <=>
                 /\ hist'.vettedAt # 0
                 /\ r.in.now - hist'.vettedAt <= StaleMax
    <2>1. FailedRun(r.in)
        BY <1>8, VerdictType, Zenon
    <2>2. hist'.vettedAt = state.lastGoodAt
        BY <1>2, <1>6, <1>8
    <2>3. RecentGood(r.in) <=> /\ hist'.vettedAt # 0
                               /\ r.in.now - hist'.vettedAt <= StaleMax
        BY <1>5, <2>2 DEF RecentGood
    <2>4. RecentGood(r.in) => Consumed(r.in, snapshot) = snapshot
        BY <2>1 DEF Consumed, DropFeed, UseLastGood
    <2>5. ~RecentGood(r.in) => Consumed(r.in, snapshot) = {}
        BY <2>1 DEF Consumed, DropFeed
    <2> QED
        BY <1>6, <2>2, <2>3, <2>4, <2>5
<1>9. Served(u)'
    BY <1>2, <1>4, <1>8 DEF Served
<1> QED
    BY <1>7, <1>9 DEF ServedInv

(* The record that claims a good run is written before its copy.           *)
LEMMA SaveServes ==
    ASSUME IInv, RecordInv, NEW u, Lone(u), ClockInv(u), ServedInv(u),
           Save(u)
    PROVE  ServedInv(u)'
<1> DEFINE r == run[u]
<1>1. TypeOK
    BY DEF IInv
<1>2. /\ pc[u] = "save" /\ run'[u] = r /\ state' = ToSave(r)
      /\ pc'[u] = IF Keeps(r.in) THEN "keep" ELSE "handover"
      /\ hist' = IF r.from \in {NoBody, hist.seen} THEN hist
                 ELSE [hist EXCEPT !.seen = r.from, !.since = r.in.now]
      /\ snapshot' = snapshot
    BY <1>1, WritesOf DEF Moves
<1>3. r \in Runs /\ hist \in History
    BY <1>1 DEF TypeOK, Lone
<1>4. hist'.vettedAt = hist.vettedAt
    BY <1>2, <1>3 DEF History
<1>5. r.in.prev = state
    BY <1>2 DEF ClockInv, UpToDate
<1>6. state'.lastGoodAt =
          IF Verdict(r.in) = "OK" THEN r.in.now ELSE state.lastGoodAt
    BY <1>2, <1>3, <1>5, SavedFields
<1>7. /\ ~r.in.notModified
      /\ hist.vettedAt = IF Verdict(r.in) = "OK" THEN r.in.now
                         ELSE state.lastGoodAt
      /\ state.lastGoodAt # 0 <=> snapshot # {}
    BY <1>2 DEF ServedInv, Vetting
<1>8. Verdict(r.in) = "OK" => Keeps(r.in)
    BY <1>3, <1>7, OkIsKept
<1>9. Vetting(u)'
    BY <1>2, <1>4, <1>6, <1>7, <1>8 DEF Vetting
<1>10. Served(u)'
    BY <1>2, <1>4 DEF ServedInv, Served
<1> QED
    BY <1>9, <1>10 DEF ServedInv

(* Once the copy is written too, the claim is backed.                      *)
LEMMA KeepServes ==
    ASSUME IInv, RecordInv, NEW u, Lone(u), ClockInv(u), ServedInv(u),
           SaveLastGood(u)
    PROVE  ServedInv(u)'
<1> DEFINE r == run[u]
<1>1. TypeOK
    BY DEF IInv
<1>2. /\ pc[u] = "keep" /\ pc'[u] = "handover" /\ run'[u] = r
      /\ snapshot' = Clean(r.in.list)
      /\ UNCHANGED <<state, hist>>
    BY <1>1, WritesOf DEF Moves
<1>3. r \in Runs /\ Keeps(r.in)
    BY <1>1, <1>2 DEF TypeOK, IInv, RunsSound, Sound, Lone
<1>4. snapshot' # {} /\ Verdict(r.in) = "OK"
    BY <1>2, <1>3 DEF Keeps
<1>5. state.lastGoodAt = r.in.now
    BY <1>2, <1>3, <1>4, SavedFields DEF ClockInv, UpToDate
<1>6. r.in.now > 0
    BY <1>2 DEF RecordInv, Careful, Lone
<1>7. Vetting(u)'
    BY <1>2, <1>4, <1>5, <1>6 DEF ServedInv, Vetting
<1>8. Served(u)'
    BY <1>2 DEF ServedInv, Served
<1> QED
    BY <1>7, <1>8 DEF ServedInv

(* Each step keeps claims backed and decisions exact.                      *)
LEMMA ServedStep ==
    ASSUME IInv, RecordInv, [Next]_vars, NEW u, Lone(u), ClockInv(u),
           MaxAborts = 0, NoneTagged, ServedInv(u)
    PROVE  ServedInv(u)'
<1> DEFINE r == run[u]
<1>1. TypeOK /\ u \in Proc
    BY DEF IInv, Lone
<1>2. /\ r \in Runs /\ serving \in Body /\ snapshot \in SUBSET Prefix
      /\ state \in FeedState /\ now \in Nat /\ r.in.now \in Nat
    BY <1>1 DEF TypeOK, Runs, Input
<1>3. CASE Elsewhere(u)
    BY <1>3 DEF Elsewhere, ServedInv, Vetting, Served
<1>4. CASE Start(u) \/ Load(u) \/ FetchError(u) \/ FetchBody(u)
             \/ HandOver(u)
    <2>1. /\ UNCHANGED <<state, snapshot, hist>>
          /\ pc[u] \in {"idle", "load", "fetch", "handover"}
          /\ pc'[u] \in {"idle", "load", "fetch", "decide"}
        BY <1>1, <1>4, StepsOf, WritesOf DEF Moves
    <2>2. ~r.in.notModified
        BY DEF ServedInv, Vetting
    <2>3. ~run'[u].in.notModified
        <3>1. CASE Start(u) \/ HandOver(u)
            <4>1. run'[u] \in {Began(now), NoRun}
                BY <1>1, <3>1, StepsOf, WritesOf DEF Moves
            <4>2. ~Began(now).in.notModified /\ ~NoRun.in.notModified
                BY DEF Began, NoRun
            <4> QED
                BY <4>1, <4>2
        <3>2. CASE Load(u)
            <4>1. run'[u] = Reads(r, state)
                BY <1>1, <3>2, StepsOf DEF Moves
            <4>2. Reads(r, state).in.notModified = r.in.notModified
                BY <1>2 DEF Reads, Runs, Input
            <4> QED
                BY <2>2, <4>1, <4>2
        <3>3. CASE FetchError(u) \/ FetchBody(u)
            <4>1. run'[u] \in {WithError(r), WithBody(r, serving)}
                BY <1>1, <3>3, StepsOf DEF Moves
            <4> HIDE DEF r
            <4> QED
                BY <1>2, <2>2, <4>1, AnswerFields
        <3> QED
            BY <1>4, <3>1, <3>2, <3>3
    <2> QED
        BY <2>1, <2>3 DEF ServedInv, Vetting, Served
<1>5. ~FetchNotModified(u)
    BY <1>2 DEF FetchNotModified, MayAnswer304, NoneTagged
<1>6. ~ReadCached(u)
    BY <1>1 DEF ReadCached, Advance, IInv, RunsSound, Sound, ServedInv, Vetting
<1>7. ~Abort(u)
    BY <1>1, NoAborts
<1> QED
    BY <1>1, <1>3, <1>4, <1>5, <1>6, <1>7, Cases, DecideServes, SaveServes,
       KeepServes DEF Fetch

(* Claims are backed and decisions exact.                                  *)
LEMMA ServedInvariance ==
    ASSUME NEW u, Lone(u), MaxAborts = 0, NoneTagged
    PROVE  Spec => []ServedInv(u)
<1>1. Init => ServedInv(u)
    BY ServedInit
<1>2. IInv /\ RecordInv /\ ClockInv(u) /\ ServedInv(u) /\ [Next]_vars =>
          ServedInv(u)'
    BY ServedStep
<1> QED
    BY <1>1, <1>2, Invariance, RecordInvariance, ClockInvariance, PTL DEF Spec

(* A record claims a last good run only when there is a copy to fall back  *)
(* on.                                                                     *)
THEOREM ClaimsAreBacked ==
    ASSUME OneUpdater, MaxAborts = 0, NoneTagged
    PROVE  Spec => []ClaimIsBacked
<1>1. PICK u : Lone(u)
    BY DEF OneUpdater
<1>2. ServedInv(u) => ClaimIsBacked
    BY <1>1 DEF ServedInv, Vetting, ClaimIsBacked, Lone
<1>3. Spec => []ServedInv(u)
    BY <1>1, ServedInvariance
<1> QED
    BY <1>2, <1>3, PTL

(* A FAILED run hands over a non-empty list exactly while a run that saw a *)
(* healthy body is at most StaleMax old.                                   *)
THEOREM FallbackIsExact ==
    ASSUME OneUpdater, MaxAborts = 0, NoneTagged
    PROVE  Spec => FallbackExactlyWhileRecent
<1>1. PICK u : Lone(u)
    BY DEF OneUpdater
<1> DEFINE Exact ==
        (outcome' # outcome /\ outcome'.status = "FAILED") =>
            (outcome'.prefixes # {} <=>
                /\ hist.vettedAt # 0
                /\ outcome'.now - hist.vettedAt <= StaleMax)
<1>2. IInv /\ RecordInv /\ ServedInv(u) /\ [Next]_vars => [Exact]_vars
    <2> SUFFICES ASSUME IInv, RecordInv, ServedInv(u), [Next]_vars,
                        outcome' # outcome, outcome'.status = "FAILED"
                 PROVE  outcome'.prefixes # {} <=>
                            /\ hist.vettedAt # 0
                            /\ outcome'.now - hist.vettedAt <= StaleMax
        OBVIOUS
    <2>1. TypeOK
        BY DEF IInv
    <2>2. HandOver(u)
        BY <1>1, <2>1, Cases, StepsOf, WritesOf DEF Elsewhere, Fetch, Lone
    <2>3. pc[u] = "handover" /\ outcome' = OutcomeOf(run[u])
        BY <1>1, <2>1, <2>2, WritesOf DEF Moves
    <2>4. /\ outcome'.status = Verdict(run[u].in)
          /\ outcome'.prefixes = run[u].out
          /\ outcome'.now = run[u].in.now
        BY <2>3 DEF OutcomeOf
    <2> QED
        BY <2>3, <2>4 DEF ServedInv, Served
<1>3. Spec => []ServedInv(u)
    BY <1>1, ServedInvariance
<1> QED
    BY <1>2, <1>3, Invariance, RecordInvariance, PTL
       DEF Spec, FallbackExactlyWhileRecent

-----------------------------------------------------------------------------
(* FeedRun implements AtomicFeed.                                          *)

(* AtomicFeed has its own copy of every operator of FeedCycle and Health;  *)
(* each copy means what the original means.                                *)

(* Counting.                                                               *)
LEMMA SameCount == \A S : Atomic!Cardinality(S) = Cardinality(S)
BY Zenon DEF Atomic!Cardinality, Cardinality

(* The verdict and what it is made of.                                     *)
LEMMA SameVerdict ==
    ASSUME NEW in
    PROVE  /\ Atomic!Verdict(in) = Verdict(in)
           /\ Atomic!FailedRun(in) <=> FailedRun(in)
           /\ Atomic!Clean(in.list) = Clean(in.list)
           /\ Atomic!EntryCount(in) = EntryCount(in)
<1>1. /\ Atomic!Kept(in.list) = Kept(in.list)
      /\ Atomic!Drifted(in) <=> Drifted(in)
      /\ Atomic!Unchanged(in) <=> Unchanged(in)
    BY DEF Atomic!Kept, Kept, Atomic!Drifted, Drifted, Atomic!Unchanged,
           Unchanged
<1>2. /\ Atomic!EntryCount(in) = EntryCount(in)
      /\ Atomic!Floored(in) <=> Floored(in)
      /\ Atomic!Clean(in.list) = Clean(in.list)
      /\ Atomic!Overdue(in) <=> Overdue(in)
    <2>1. Atomic!EntryCount(in) = EntryCount(in)
        BY <1>1, SameCount, Zenon DEF Atomic!EntryCount, EntryCount
    <2>2. Atomic!Clean(in.list) = Clean(in.list)
        BY <1>1, Zenon DEF Atomic!Clean, Clean
    <2>3. Atomic!Floored(in) <=> Floored(in)
        BY <1>1, Zenon DEF Atomic!Floored, Floored
    <2>4. Atomic!Overdue(in) <=> Overdue(in)
        BY <1>1, Zenon DEF Atomic!Overdue, Overdue
    <2> QED
        BY <2>1, <2>2, <2>3, <2>4
<1>3. /\ Atomic!FailedRun(in) <=> FailedRun(in)
      /\ Atomic!Swung(in) <=> Swung(in)
    BY <1>2, Zenon DEF Atomic!FailedRun, FailedRun, Atomic!Swung, Swung
<1> QED
    BY <1>1, <1>2, <1>3, Zenon DEF Atomic!Verdict, Verdict

(* The record that is saved.                                               *)
LEMMA SameSaved ==
    ASSUME NEW r
    PROVE  Atomic!ToSave(r) = ToSave(r)
<1>1. Atomic!Verdict(r.in) = Verdict(r.in)
      /\ Atomic!EntryCount(r.in) = EntryCount(r.in)
    BY SameVerdict, Zenon
<1>2. /\ Atomic!NewBytes(r.in) <=> NewBytes(r.in)
      /\ Atomic!FailingSince(r.in) = FailingSince(r.in)
      /\ Atomic!BaselineMoves(r.in) <=> BaselineMoves(r.in)
    BY <1>1, Zenon DEF Atomic!NewBytes, NewBytes, Atomic!FailingSince, FailingSince,
                Atomic!BaselineMoves, BaselineMoves
<1>3. Atomic!NextState(r.in) = NextState(r.in)
    BY <1>1, <1>2, Zenon DEF Atomic!NextState, NextState
<1> QED
    BY <1>3, Zenon DEF Atomic!ToSave, ToSave

(* What is handed over.                                                    *)
LEMMA SameOutcome ==
    ASSUME NEW r, NEW snap
    PROVE  /\ Atomic!Consumed(r.in, snap) = Consumed(r.in, snap)
           /\ Atomic!Keeps(r.in) <=> Keeps(r.in)
           /\ Atomic!Clean(r.in.list) = Clean(r.in.list)
           /\ Atomic!OutcomeOf(r) = OutcomeOf(r)
<1>1. /\ Atomic!Verdict(r.in) = Verdict(r.in)
      /\ Atomic!FailedRun(r.in) <=> FailedRun(r.in)
      /\ Atomic!Clean(r.in.list) = Clean(r.in.list)
    BY SameVerdict, Zenon
<1>2. Atomic!RecentGood(r.in) <=> RecentGood(r.in)
    BY DEF Atomic!RecentGood, RecentGood
<1>3. /\ Atomic!UseLastGood(r.in) = UseLastGood(r.in)
      /\ Atomic!DropFeed(r.in) = DropFeed(r.in)
    BY <1>1, <1>2 DEF Atomic!UseLastGood, UseLastGood, Atomic!DropFeed, DropFeed
<1>4. /\ Atomic!Consumed(r.in, snap) = Consumed(r.in, snap)
      /\ Atomic!Keeps(r.in) <=> Keeps(r.in)
    BY <1>1, <1>3, Zenon DEF Atomic!Consumed, Consumed, Atomic!Keeps, Keeps
<1> QED
    BY <1>1, <1>3, <1>4, Zenon DEF Atomic!OutcomeOf, OutcomeOf

(* The stages of a run.                                                    *)
LEMMA SameRuns ==
    /\ Atomic!NoRun = NoRun
    /\ Atomic!ZeroState = ZeroState
    /\ Atomic!NoOutcome = NoOutcome
    /\ \A r : Atomic!WithError(r) = WithError(r)
    /\ \A r, b : Atomic!WithBody(r, b) = WithBody(r, b)
    /\ \A r, b : Atomic!With304(r, b) = With304(r, b)
    /\ \A r, s : Atomic!WithCached(r, s) = WithCached(r, s)
    /\ \A s, b : Atomic!MayAnswer304(s, b) <=> MayAnswer304(s, b)
<1>1. Atomic!ZeroState = ZeroState
    BY DEF Atomic!ZeroState, ZeroState
<1>2. Atomic!NoRun = NoRun
    BY <1>1 DEF Atomic!NoRun, NoRun
<1>3. \A in, b : Atomic!Parsed(in, b) = Parsed(in, b)
    BY SameCount, Zenon DEF Atomic!Parsed, Parsed
<1>4. \A r, b : Atomic!WithBody(r, b) = WithBody(r, b)
    BY <1>3, Zenon DEF Atomic!WithBody, WithBody
<1> QED
    BY <1>1, <1>2, <1>4, Zenon DEF Atomic!NoOutcome, NoOutcome, Atomic!WithError,
       WithError, Atomic!With304, With304, Atomic!WithCached, WithCached,
       Atomic!MayAnswer304, MayAnswer304

(* From the provider's answer on, the mapping shows the run of u as it     *)
(* will be when it has decided.                                            *)
Shows(u) ==
    /\ stateBar = IF pc[u] \in Replied THEN ToSave(Completed(u)) ELSE state
    /\ snapshotBar = IF pc[u] \in Replied /\ Keeps(Completed(u).in)
                     THEN Clean(Completed(u).in.list) ELSE snapshot
    /\ outcomeBar = IF pc[u] \in Replied THEN OutcomeOf(Completed(u))
                    ELSE outcome

(* The mapping shows the one updater's run.                                *)
LEMMA Mapping ==
    ASSUME NEW u, Lone(u)
    PROVE  Shows(u)
<1>1. CASE pc[u] \in Replied
    <2>1. Answered = {u}
        BY <1>1 DEF Answered, Lone, Replied
    <2>2. (CHOOSE p \in Answered : TRUE) = u
        BY <2>1
    <2>3. Pending = Completed(u)
        BY <2>2, Zenon DEF Pending
    <2>4. Answered # {}
        BY <2>1
    <2> QED
        BY <1>1, <2>3, <2>4 DEF Shows, stateBar, snapshotBar, outcomeBar
<1>2. CASE pc[u] \notin Replied
    <2>1. Answered = {}
        BY <1>2 DEF Answered, Lone, Replied
    <2> QED
        BY <1>2, <2>1 DEF Shows, stateBar, snapshotBar, outcomeBar
<1> QED
    BY <1>1, <1>2

(* Deciding what to hand over does not change what is saved. *)
LEMMA SettledSaves ==
    ASSUME NEW r \in Runs, NEW snap
    PROVE  ToSave(Settled(r, snap)) = ToSave(r)
BY DecidedFields, Zenon DEF ToSave

(* The whole of an update takes place when the provider answers. *)
LEMMA AnswerUpdates ==
    ASSUME IInv, RecordInv, NEW u, Lone(u), ClockInv(u),
           Shows(u), Shows(u)', Fetch(u)
    PROVE  Atomic!Update
<1> DEFINE q == run[u]
           t == q.in.now
<1>1. TypeOK /\ u \in Proc
    BY DEF IInv, Lone
<1>2. /\ q \in Runs /\ t \in Nat /\ serving \in Body
      /\ state \in FeedState /\ snapshot \in SUBSET Prefix
      /\ now \in Nat /\ outcome.now \in Nat /\ IsFiniteSet(q.in.list)
    BY <1>1 DEF TypeOK, Runs, Input, Outcomes, IInv, RunsSound, Sound
<1>3. pc[u] = "fetch"
    BY DEF Fetch, FetchError, FetchNotModified, FetchBody, Advance
<1>4. /\ q = Asked(t, state)
      /\ t > 0 /\ outcome.now <= t /\ t <= now
    BY <1>1, <1>3 DEF ClockInv, Fresh, Timely, RecordInv, Careful
<1>5. q.in.prev = state
    BY <1>2, <1>4, AskedFields
<1>6. stateBar = state /\ snapshotBar = snapshot /\ outcomeBar = outcome
    BY <1>3 DEF Shows, Replied
<1>7. UNCHANGED <<now, serving, state, snapshot>>
    BY <1>1, StepsOf DEF Fetch, Moves
<1>8. \E r \in Runs :
          /\ \/ r = WithError(q) \/ r = WithBody(q, serving)
             \/ /\ r = WithCached(With304(q, serving), snapshot)
                /\ MayAnswer304(state, serving)
          /\ pc'[u] \in {"cached", "decide"}
          /\ Completed(u)' = Settled(r, snapshot)
    <2>1. CASE FetchError(u)
        <3>1. pc'[u] = "decide" /\ run'[u] = WithError(q)
            BY <1>1, <2>1, StepsOf DEF Moves
        <3>2. Completed(u)' = Settled(WithError(q), snapshot)
            BY <1>7, <3>1 DEF Completed, Settled
        <3> QED
            BY <1>2, <3>1, <3>2, WithErrorType
    <2>2. CASE FetchBody(u)
        <3>1. pc'[u] = "decide" /\ run'[u] = WithBody(q, serving)
            BY <1>1, <2>2, StepsOf DEF Moves
        <3>2. Completed(u)' = Settled(WithBody(q, serving), snapshot)
            BY <1>7, <3>1 DEF Completed, Settled
        <3> QED
            BY <1>2, <3>1, <3>2, WithBodyType
    <2>3. CASE FetchNotModified(u)
        <3> DEFINE n == With304(q, serving)
        <3>1. /\ pc'[u] = "cached" /\ run'[u] = n
              /\ MayAnswer304(q.in.prev, serving)
            BY <1>1, <2>3, StepsOf DEF Moves
        <3>2. Completed(u)' = Settled(WithCached(n, snapshot), snapshot)
            BY <1>7, <3>1 DEF Completed, Settled
        <3>3. WithCached(n, snapshot) \in Runs
            BY <1>2, With304Type, WithCachedType
        <3> HIDE DEF n
        <3> QED
            BY <1>5, <3>1, <3>2, <3>3 DEF n
    <2> QED
        BY <2>1, <2>2, <2>3 DEF Fetch
<1>9. PICK r \in Runs :
          /\ \/ r = WithError(q) \/ r = WithBody(q, serving)
             \/ /\ r = WithCached(With304(q, serving), snapshot)
                /\ MayAnswer304(state, serving)
          /\ pc'[u] \in {"cached", "decide"}
          /\ Completed(u)' = Settled(r, snapshot)
    BY <1>8
<1>10. /\ stateBar' = ToSave(r)
       /\ snapshotBar' = IF Keeps(r.in) THEN Clean(r.in.list) ELSE snapshot
       /\ outcomeBar' = OutcomeOf(Settled(r, snapshot))
    BY <1>7, <1>9, SettledSaves, DecidedFields DEF Shows, Replied
<1>11. r \in Atomic!Gathered(t)
    BY <1>4, <1>6, <1>9, SameRuns DEF Atomic!Gathered, Asked
<1>12. /\ stateBar' = Atomic!ToSave(r)
       /\ snapshotBar' = IF Atomic!Keeps(r.in) THEN Atomic!Clean(r.in.list)
                         ELSE snapshotBar
       /\ outcomeBar' = Atomic!OutcomeOf(
              [r EXCEPT !.out = Atomic!Consumed(r.in, snapshotBar)])
    BY <1>6, <1>10, SameSaved, SameOutcome DEF Settled
<1>13. t \in outcomeBar.now .. now
    BY <1>2, <1>4, <1>6
<1> QED
    BY <1>4, <1>7, <1>11, <1>12, <1>13 DEF Atomic!Update

Bars == <<stateBar, snapshotBar, outcomeBar>>

(* Every other step of u shows nothing new. *)
LEMMA RestStutters ==
    ASSUME IInv, NEW u, Lone(u), ClockInv(u), CopyInv(u),
           Shows(u), Shows(u)',
           \/ Start(u) \/ Load(u) \/ ReadCached(u) \/ Decide(u) \/ Save(u)
           \/ SaveLastGood(u) \/ HandOver(u)
    PROVE  UNCHANGED <<now, serving>> /\ UNCHANGED Bars
<1> DEFINE r == run[u]
<1>1. TypeOK /\ u \in Proc
    BY DEF IInv, Lone
<1>2. r \in Runs /\ snapshot \in SUBSET Prefix
    BY <1>1 DEF TypeOK
<1>3. UNCHANGED <<now, serving>>
    BY <1>1, StepsOf, WritesOf DEF Moves
<1>4. CASE Start(u) \/ Load(u)
    <2>1. /\ pc[u] \in {"idle", "load"} /\ pc'[u] \in {"load", "fetch"}
          /\ UNCHANGED <<state, snapshot, outcome>>
        BY <1>1, <1>4, StepsOf DEF Moves
    <2> QED
        BY <1>3, <2>1 DEF Shows, Replied, Bars
<1>5. CASE ReadCached(u) \/ Decide(u)
    <2>1. /\ pc[u] \in Replied /\ pc'[u] \in Replied
          /\ UNCHANGED <<state, snapshot, outcome>>
        BY <1>1, <1>5, StepsOf, WritesOf DEF Moves, Replied
    <2>2. Completed(u)' = Completed(u)
        <3>1. CASE ReadCached(u)
            <4>1. /\ pc[u] = "cached" /\ pc'[u] = "decide"
                  /\ run'[u] = WithCached(r, snapshot)
                BY <1>1, <3>1, StepsOf DEF Moves
            <4> QED
                BY <2>1, <4>1 DEF Completed
        <3>2. CASE Decide(u)
            <4>1. /\ pc[u] = "decide" /\ pc'[u] = "save"
                  /\ run'[u] = Settled(r, snapshot)
                BY <1>1, <3>2, WritesOf DEF Moves
            <4> QED
                BY <2>1, <4>1 DEF Completed, Settled
        <3> QED
            BY <1>5, <3>1, <3>2
    <2> QED
        BY <1>3, <2>1, <2>2 DEF Shows, Bars
<1>6. CASE Save(u)
    <2>1. /\ pc[u] = "save" /\ run'[u] = r
          /\ pc'[u] \in {"keep", "handover"}
          /\ UNCHANGED snapshot
        BY <1>1, <1>6, WritesOf DEF Moves
    <2>2. Completed(u) = r /\ Completed(u)' = r
        BY <2>1 DEF Completed
    <2> QED
        BY <1>3, <2>1, <2>2 DEF Shows, Replied, Bars
<1>7. CASE SaveLastGood(u)
    <2>1. /\ pc[u] = "keep" /\ run'[u] = r /\ pc'[u] = "handover"
          /\ snapshot' = Clean(r.in.list)
        BY <1>1, <1>7, WritesOf DEF Moves
    <2>2. Keeps(r.in)
        BY <1>1, <2>1 DEF IInv, RunsSound, Sound
    <2>3. Completed(u) = r /\ Completed(u)' = r
        BY <2>1 DEF Completed
    <2> QED
        BY <1>3, <2>1, <2>2, <2>3 DEF Shows, Replied, Bars
<1>8. CASE HandOver(u)
    <2>1. /\ pc[u] = "handover" /\ pc'[u] = "idle"
          /\ outcome' = OutcomeOf(r) /\ UNCHANGED <<state, snapshot>>
        BY <1>1, <1>8, WritesOf DEF Moves
    <2>2. Completed(u) = r
        BY <2>1 DEF Completed
    <2>3. state = ToSave(r)
        BY <2>1 DEF ClockInv, UpToDate
    <2>4. Keeps(r.in) => snapshot = Clean(r.in.list)
        BY <2>1 DEF CopyInv
    <2> QED
        BY <1>3, <2>1, <2>2, <2>3, <2>4 DEF Shows, Replied, Bars
<1> QED
    BY <1>3, <1>4, <1>5, <1>6, <1>7, <1>8

(* A step of another process shows as none.                                *)
LEMMA ElsewhereShows ==
    ASSUME TypeOK, NEW u, Lone(u), Shows(u), Shows(u)', Elsewhere(u)
    PROVE  UNCHANGED Bars
<1>1. /\ pc'[u] = pc[u] /\ run'[u] = run[u]
      /\ UNCHANGED <<state, snapshot, outcome>>
    BY DEF Elsewhere
<1>2. Completed(u)' = Completed(u)
    BY <1>1 DEF Completed
<1> QED
    BY <1>1, <1>2 DEF Shows, Bars

(* A lone update is atomic: however its reads and writes are spread over   *)
(* time, and whatever dry runs read in between, what it leaves behind is   *)
(* what a single step would have left when the provider answered.          *)
THEOREM LoneUpdateIsAtomic ==
    ASSUME OneUpdater, MaxAborts = 0
    PROVE  Spec => ImplementsAtomicFeed
<1>1. PICK u : Lone(u)
    BY DEF OneUpdater
<1>2. Init => Atomic!Init
    <2> SUFFICES ASSUME Init PROVE Atomic!Init
        OBVIOUS
    <2>1. Shows(u) /\ pc[u] = "idle"
        BY <1>1, Mapping DEF Init, Lone
    <2>2. stateBar = state /\ snapshotBar = snapshot /\ outcomeBar = outcome
        BY <2>1 DEF Shows, Replied
    <2> QED
        BY <2>2, SameRuns DEF Init, Atomic!Init
<1>3. Shows(u)
    BY <1>1, Mapping
<1>4. IInv /\ RecordInv /\ ClockInv(u) /\ CopyInv(u) /\ Shows(u) /\ Shows(u)'
          /\ [Next]_vars => [Atomic!Next]_(Atomic!vars)
    <2> SUFFICES ASSUME IInv, RecordInv, ClockInv(u), CopyInv(u), Shows(u),
                        Shows(u)', [Next]_vars
                 PROVE  Atomic!Next \/ UNCHANGED Atomic!vars
        OBVIOUS
    <2>1. TypeOK /\ u \in Proc
        BY <1>1 DEF IInv, Lone
    <2>2. CASE Elsewhere(u)
        <3>1. UNCHANGED Bars
            BY <1>1, <2>1, <2>2, ElsewhereShows
        <3>2. CASE UNCHANGED <<now, serving>>
            BY <3>1, <3>2 DEF Bars, Atomic!vars
        <3>3. CASE now' = now + 1 /\ UNCHANGED serving
            BY <3>1, <3>3 DEF Bars, Atomic!Next, Atomic!Tick
        <3>4. CASE \E b \in Body : serving' = b /\ UNCHANGED now
            BY <3>1, <3>4 DEF Bars, Atomic!Next, Atomic!Publish
        <3> QED
            BY <2>2, <3>2, <3>3, <3>4 DEF Elsewhere
    <2>3. CASE Fetch(u)
        BY <1>1, <2>3, AnswerUpdates DEF Atomic!Next
    <2>4. CASE \/ Start(u) \/ Load(u) \/ ReadCached(u) \/ Decide(u)
               \/ Save(u) \/ SaveLastGood(u) \/ HandOver(u)
        BY <1>1, <2>4, RestStutters DEF Bars, Atomic!vars
    <2>5. ~Abort(u)
        BY <2>1, NoAborts
    <2> QED
        BY <1>1, <2>1, <2>2, <2>3, <2>4, <2>5, Cases
<1>5. Spec => []ClockInv(u) /\ []CopyInv(u)
    BY <1>1, ClockInvariance, CopyInvariance
<1> QED
    BY <1>2, <1>3, <1>4, <1>5, Invariance, RecordInvariance, PTL
       DEF Spec, ImplementsAtomicFeed, Atomic!Spec
=============================================================================
