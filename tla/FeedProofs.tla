----------------------------- MODULE FeedProofs -----------------------------
(***************************************************************************)
(* What FeedRun promises for every number of processes, every provider,    *)
(* every threshold and every bound: the proofs of type correctness and of  *)
(* the invariants that hold although updates overlap and stop half way.    *)
(***************************************************************************)
EXTENDS FeedSafety, FiniteSetTheorems, TLAPS

-----------------------------------------------------------------------------
(* The verdict and what follows from it. *)

(* What passes the sanity floor is part of the list and holds no poison.   *)
LEMMA CleanList ==
    ASSUME NEW list \in SUBSET (Nat \X Prefix)
    PROVE  /\ Kept(list) \in SUBSET list
           /\ Clean(list) \in SUBSET Prefix
           /\ Clean(list) \intersect Poison = {}
BY DEF Kept, Clean

(* A finite list has a count.                                              *)
LEMMA CountType ==
    ASSUME NEW in \in Input, IsFiniteSet(in.list)
    PROVE  EntryCount(in) \in Nat
<1>1. Kept(in.list) \in SUBSET in.list
    BY DEF Kept
<1> QED
    BY <1>1, FS_Subset, FS_CardinalityType DEF EntryCount

(* There are three verdicts, and what is OK has met no floor.              *)
LEMMA VerdictType ==
    ASSUME NEW in
    PROVE  /\ Verdict(in) \in Status
           /\ Verdict(in) = "FAILED" <=> FailedRun(in)
           /\ Verdict(in) = "OK" => ~Floored(in)
BY DEF Verdict, Status

(* Evaluate makes records of records.                                      *)
LEMMA NextStateType ==
    ASSUME NEW in \in Input, IsFiniteSet(in.list)
    PROVE  NextState(in) \in FeedState
<1>1. EntryCount(in) \in Nat
    BY CountType
<1>2. FailingSince(in) \in Nat
    BY DEF FailingSince, Input, FeedState
<1>3. Verdict(in) \in Status
    BY VerdictType
<1> QED
    BY <1>1, <1>2, <1>3 DEF NextState, Input, FeedState

(* What a run saves is a record.                                           *)
LEMMA ToSaveType ==
    ASSUME NEW r \in Runs, IsFiniteSet(r.in.list)
    PROVE  ToSave(r) \in FeedState
<1>1. r.in \in Input /\ r.tag \in Tag \union {NoTag}
    BY DEF Runs
<1>2. NextState(r.in) \in FeedState
    BY <1>1, NextStateType
<1> QED
    BY <1>1, <1>2 DEF ToSave, FeedState

(* What aliases consume is a set of prefixes.                              *)
LEMMA ConsumedType ==
    ASSUME NEW in \in Input, NEW snap \in SUBSET Prefix
    PROVE  Consumed(in, snap) \in SUBSET Prefix
<1>1. Clean(in.list) \in SUBSET Prefix
    BY CleanList DEF Input
<1> QED
    BY <1>1 DEF Consumed

(* What a run hands on is an outcome.                                      *)
LEMMA OutcomeType ==
    ASSUME NEW r \in Runs
    PROVE  OutcomeOf(r) \in Outcomes
<1>1. Verdict(r.in) \in Status
    BY VerdictType
<1>2. UseLastGood(r.in) \in BOOLEAN /\ DropFeed(r.in) \in BOOLEAN
    BY DEF UseLastGood, DropFeed
<1> QED
    BY <1>1, <1>2 DEF OutcomeOf, Outcomes, Runs, Input

-----------------------------------------------------------------------------
(* What a run gathers is of the right type, whatever the provider answers. *)

(* A process that has not begun.                                           *)
LEMMA NoRunType == NoRun \in Runs
BY DEF NoRun, Runs, Input, ZeroState, FeedState

(* A run that has taken its time.                                          *)
LEMMA StartedType ==
    ASSUME NEW t \in Nat
    PROVE  LET r == [NoRun EXCEPT !.in.now = t]
           IN  r \in Runs /\ r.in.list = {}
BY DEF NoRun, Runs, Input, ZeroState, FeedState

(* A run that has loaded the record.                                       *)
LEMMA LoadedType ==
    ASSUME NEW r \in Runs, NEW s \in FeedState
    PROVE  LET l == [r EXCEPT !.in.prev = s]
           IN  l \in Runs /\ l.in.list = r.in.list
BY DEF Runs, Input

(* A run whose fetch has failed.                                           *)
LEMMA WithErrorType ==
    ASSUME NEW r \in Runs
    PROVE  /\ WithError(r) \in Runs
           /\ WithError(r).in.fetchErr
           /\ WithError(r).in.list = r.in.list
BY DEF WithError, Runs, Input

(* A run that was told that nothing is new.                                *)
LEMMA With304Type ==
    ASSUME NEW r \in Runs, NEW b \in Body
    PROVE  /\ With304(r, b) \in Runs
           /\ With304(r, b).in.notModified
           /\ With304(r, b).in.list = r.in.list
<1>1. TagOf[b] \in Tag \union {NoTag}
    BY CycleAssumption
<1>2. r.in.prev.sha \in Body \union {NoBody}
    BY DEF Runs, Input, FeedState
<1> QED
    BY <1>1, <1>2 DEF With304, Runs, Input

(* A run that has read the copy a 304 stands for.                          *)
LEMMA WithCachedType ==
    ASSUME NEW r \in Runs, NEW snap \in SUBSET Prefix
    PROVE  /\ WithCached(r, snap) \in Runs
           /\ WithCached(r, snap).in.list = {0} \X snap
           /\ WithCached(r, snap).in.notModified = r.in.notModified
BY DEF WithCached, Runs, Input

(* Parsing gives the lines of the body, or an error.                       *)
LEMMA ParsedType ==
    ASSUME NEW in \in Input, NEW b \in Body, IsFiniteSet(in.list)
    PROVE  LET w == Parsed(in, b)
           IN  /\ w \in Input
               /\ IsFiniteSet(w.list)
               /\ w.sha = b
               /\ w.fetchErr \/ w.list = Lines[b]
<1>1. Lines[b] \in SUBSET (Nat \X Prefix) /\ IsFiniteSet(Lines[b])
    BY CycleAssumption
<1>2. Cardinality({e[1] : e \in Lines[b]}) \in Nat
    <2> DEFINE L == {e[1] : e \in Lines[b]}
               g == [e \in Lines[b] |-> e[1]]
    <2>1. g \in Surjection(Lines[b], L)
        BY DEF Surjection
    <2>2. IsFiniteSet(L)
        BY <1>1, <2>1, FS_Surjection
    <2> QED
        BY <2>2, FS_CardinalityType
<1>3. Rejected[b] \in Nat
    BY CycleAssumption
<1>4. CASE b \in Unreadable
    BY <1>4 DEF Parsed, Input
<1>5. CASE b \notin Unreadable
    BY <1>1, <1>2, <1>3, <1>5 DEF Parsed, Input
<1> QED
    BY <1>4, <1>5

(* A run that was answered with a body.                                    *)
LEMMA WithBodyType ==
    ASSUME NEW r \in Runs, NEW b \in Body, IsFiniteSet(r.in.list)
    PROVE  LET w == WithBody(r, b)
           IN  /\ w \in Runs
               /\ IsFiniteSet(w.in.list)
               /\ w.in.sha = b
               /\ w.in.fetchErr \/ w.in.list = Lines[b]
<1>1. TagOf[b] \in Tag \union {NoTag}
    BY CycleAssumption
<1>2. r.in \in Input
    BY DEF Runs
<1>3. WithBody(r, b).in = Parsed(r.in, b)
    BY DEF WithBody, Runs
<1>4. WithBody(r, b) \in Runs
    BY <1>1, <1>2, ParsedType DEF WithBody, Runs
<1> QED
    BY <1>2, <1>3, <1>4, ParsedType

-----------------------------------------------------------------------------
(* The state of a run in flight. *)

(* The content to be judged is what the provider sent, or the cached copy. *)
Faithful(r) ==
    \/ r.in.fetchErr
    \/ r.in.notModified
    \/ r.in.sha \in Body /\ r.in.list = Lines[r.in.sha]

(* What is about to be handed over is the clean content of one body, of a  *)
(* vetted one if the run FAILED.                                           *)
Backed(prefixes, failed, vetted) ==
    prefixes # {} =>
        \E b \in Body : /\ prefixes = Clean(Lines[b])
                        /\ failed => b \in vetted

Decided == {"save", "keep", "handover"}

(* A run at step `at', when the bodies in `vetted' have been judged OK. *)
Sound(r, at, vetted) ==
    /\ IsFiniteSet(r.in.list)
    /\ at = "cached" => r.in.notModified
    /\ at \in Decided \union {"decide"} => Faithful(r)
    /\ at \in Decided =>
          Backed(r.out, Verdict(r.in) = "FAILED", vetted)
    /\ (at \in {"save", "keep"} /\ Verdict(r.in) = "OK"
          /\ ~r.in.notModified) => r.in.sha \in vetted
    /\ at = "keep" => Keeps(r.in)

RunsSound == \A p \in Proc : Sound(run[p], pc[p], hist.vetted)

(* The inductive invariant. *)
IInv ==
    /\ TypeOK
    /\ RunsSound
    /\ SnapshotVetted
    /\ Backed(outcome.prefixes, outcome.status = "FAILED", hist.vetted)

(* What a run knows to be vetted stays vetted.                             *)
LEMMA MoreVetted ==
    ASSUME NEW r, NEW at, NEW V, NEW W, V \subseteq W, Sound(r, at, V)
    PROVE  Sound(r, at, W)
BY DEF Sound, Backed

(* A judgement OK on a fetched body is about the whole, clean body. *)
LEMMA OkIsClean ==
    ASSUME NEW r \in Runs, Faithful(r), Verdict(r.in) = "OK",
           ~r.in.notModified
    PROVE  /\ r.in.sha \in Body
           /\ r.in.list = Lines[r.in.sha]
           /\ Kept(Lines[r.in.sha]) = Lines[r.in.sha]
<1>1. ~FailedRun(r.in) /\ ~Floored(r.in)
    BY VerdictType, Zenon
<1> QED
    BY <1>1 DEF Faithful, FailedRun, Floored

(* The decision hands over nothing, the cached copy, or what was fetched. *)
LEMMA ConsumedBacked ==
    ASSUME NEW r \in Runs, Faithful(r), NEW snap, NEW V \in SUBSET Body,
           snap # {} => \E b \in V : snap = Clean(Lines[b])
    PROVE  Backed(Consumed(r.in, snap), Verdict(r.in) = "FAILED", V)
<1>1. CASE DropFeed(r.in)
    BY <1>1 DEF Consumed, Backed
<1>2. CASE ~DropFeed(r.in) /\ (UseLastGood(r.in) \/ r.in.notModified)
    BY <1>2 DEF Consumed, Backed
<1>3. CASE ~DropFeed(r.in) /\ ~UseLastGood(r.in) /\ ~r.in.notModified
    <2>1. ~FailedRun(r.in)
        BY <1>3 DEF DropFeed, UseLastGood
    <2>2. Verdict(r.in) # "FAILED"
        BY <2>1, VerdictType, Zenon
    <2>3. r.in.sha \in Body /\ r.in.list = Lines[r.in.sha]
        BY <1>3, <2>1 DEF Faithful, FailedRun
    <2> QED
        BY <1>3, <2>2, <2>3 DEF Consumed, Backed
<1> QED
    BY <1>1, <1>2, <1>3

-----------------------------------------------------------------------------
(* Inductiveness. *)

(* A step of process p leaves the other runs sound. *)
LEMMA OneRun ==
    ASSUME TypeOK, RunsSound, NEW p \in Proc,
           NEW at \in Step \union {"idle"}, NEW r \in Runs,
           pc' = [pc EXCEPT ![p] = at],
           run' = [run EXCEPT ![p] = r],
           hist.vetted \subseteq hist'.vetted,
           Sound(r, at, hist'.vetted)
    PROVE  /\ pc' \in [Proc -> Step \union {"idle"}]
           /\ run' \in [Proc -> Runs]
           /\ RunsSound'
<1>1. pc' \in [Proc -> Step \union {"idle"}] /\ run' \in [Proc -> Runs]
    BY DEF TypeOK
<1>2. ASSUME NEW q \in Proc
      PROVE  Sound(run'[q], pc'[q], hist'.vetted)
    <2>1. CASE q = p
        <3>1. run'[q] = r /\ pc'[q] = at
            BY <2>1 DEF TypeOK
        <3> QED
            BY <3>1
    <2>2. CASE q # p
        <3>1. run'[q] = run[q] /\ pc'[q] = pc[q]
            BY <2>2 DEF TypeOK
        <3>2. Sound(run[q], pc[q], hist.vetted)
            BY DEF RunsSound
        <3> QED
            BY <3>1, <3>2, MoreVetted
    <2> QED
        BY <2>1, <2>2
<1> QED
    BY <1>1, <1>2 DEF RunsSound

(* The rest of the invariant, when the store and the output do not move. *)
LEMMA StoreStays ==
    ASSUME IInv, UNCHANGED <<now, serving, state, snapshot, outcome, aborts>>,
           hist' \in History, hist.vetted \subseteq hist'.vetted
    PROVE  /\ now' \in Nat /\ serving' \in Body /\ state' \in FeedState
           /\ snapshot' \in SUBSET Prefix /\ outcome' \in Outcomes
           /\ aborts' \in Nat
           /\ SnapshotVetted'
           /\ Backed(outcome'.prefixes, outcome'.status = "FAILED",
                     hist'.vetted)
<1>1. SnapshotVetted'
    BY DEF IInv, SnapshotVetted
<1>2. Backed(outcome'.prefixes, outcome'.status = "FAILED", hist'.vetted)
    BY DEF IInv, Backed
<1> QED
    BY <1>1, <1>2 DEF IInv, TypeOK

(* A step that only moves one run on keeps the invariant. *)
LEMMA Gathers ==
    ASSUME IInv, NEW p \in Proc,
           NEW at \in Step \union {"idle"}, NEW r \in Runs,
           pc' = [pc EXCEPT ![p] = at],
           run' = [run EXCEPT ![p] = r],
           Sound(r, at, hist.vetted),
           UNCHANGED <<now, serving, state, snapshot, outcome, aborts, hist>>
    PROVE  IInv'
<1>1. hist' \in History /\ hist.vetted \subseteq hist'.vetted
    BY DEF IInv, TypeOK
<1>2. Sound(r, at, hist'.vetted)
    BY DEF IInv
<1>3. TypeOK /\ RunsSound
    BY DEF IInv
<1>4. /\ pc' \in [Proc -> Step \union {"idle"}]
      /\ run' \in [Proc -> Runs]
      /\ RunsSound'
    BY <1>1, <1>2, <1>3, OneRun
<1>5. TypeOK'
    BY <1>1, <1>4, StoreStays DEF TypeOK
<1> QED
    BY <1>1, <1>4, <1>5, StoreStays DEF IInv

(* At first nothing is on its way and nothing is stored.                   *)
LEMMA InitInv == Init => IInv
<1> SUFFICES ASSUME Init PROVE IInv
    OBVIOUS
<1>1. ZeroState \in FeedState
    BY DEF ZeroState, FeedState
<1>2. NoOutcome \in Outcomes
    BY DEF NoOutcome, Outcomes
<1>3. TypeOK
    BY <1>1, <1>2, NoRunType DEF Init, TypeOK, History
<1>4. ASSUME NEW p \in Proc
      PROVE  Sound(run[p], pc[p], hist.vetted)
    <2>1. run[p] = NoRun /\ pc[p] = "idle"
        BY DEF Init
    <2>2. IsFiniteSet(NoRun.in.list)
        BY FS_EmptySet DEF NoRun
    <2> QED
        BY <2>1, <2>2 DEF Sound, Decided
<1>5. RunsSound
    BY <1>4 DEF RunsSound
<1>6. SnapshotVetted
    BY DEF Init, SnapshotVetted
<1>7. outcome.prefixes = {}
    BY DEF Init, NoOutcome
<1> QED
    BY <1>3, <1>5, <1>6, <1>7 DEF IInv, Backed

(* Steps that gather: the store and the output are left alone. *)
LEMMA GatherSteps ==
    ASSUME IInv, NEW p \in Proc,
           Start(p) \/ Load(p) \/ Fetch(p) \/ ReadCached(p) \/ Abort(p)
    PROVE  IInv'
<1>1. /\ run[p] \in Runs
      /\ Sound(run[p], pc[p], hist.vetted)
      /\ run \in [Proc -> Runs]
      /\ now \in Nat /\ serving \in Body /\ state \in FeedState
      /\ snapshot \in SUBSET Prefix
    BY DEF IInv, TypeOK, RunsSound
<1>2. IsFiniteSet(run[p].in.list)
    BY <1>1 DEF Sound
<1>3. CASE Start(p)
    <2> DEFINE r == [NoRun EXCEPT !.in.now = now]
    <2>1. r \in Runs /\ r.in.list = {}
        BY <1>1, StartedType
    <2>2. Sound(r, "load", hist.vetted)
        BY <2>1, FS_EmptySet DEF Sound, Decided
    <2>3. run' = [run EXCEPT ![p] = r] /\ pc' = [pc EXCEPT ![p] = "load"]
        BY <1>3 DEF Start, Advance
    <2> HIDE DEF r
    <2> QED
        BY <1>3, <2>1, <2>2, <2>3, Gathers DEF Start, Step, vars
<1>4. CASE Load(p)
    <2> DEFINE r == [run[p] EXCEPT !.in.prev = state]
    <2>1. r \in Runs /\ r.in.list = run[p].in.list
        BY <1>1, LoadedType
    <2>2. Sound(r, "fetch", hist.vetted)
        BY <1>2, <2>1 DEF Sound, Decided
    <2>3. run' = [run EXCEPT ![p] = r] /\ pc' = [pc EXCEPT ![p] = "fetch"]
        BY <1>1, <1>4 DEF Load, Advance
    <2> HIDE DEF r
    <2> QED
        BY <1>4, <2>1, <2>2, <2>3, Gathers DEF Load, Step
<1>5. CASE FetchError(p)
    <2> DEFINE r == WithError(run[p])
    <2>1. r \in Runs /\ r.in.fetchErr /\ r.in.list = run[p].in.list
        BY <1>1, WithErrorType
    <2>2. Sound(r, "decide", hist.vetted)
        BY <1>2, <2>1 DEF Sound, Decided, Faithful
    <2>3. run' = [run EXCEPT ![p] = r] /\ pc' = [pc EXCEPT ![p] = "decide"]
        BY <1>1, <1>5 DEF FetchError, Advance
    <2> HIDE DEF r
    <2> QED
        BY <1>5, <2>1, <2>2, <2>3, Gathers DEF FetchError, Step
<1>6. CASE FetchNotModified(p)
    <2> DEFINE r == With304(run[p], serving)
    <2>1. r \in Runs /\ r.in.notModified /\ r.in.list = run[p].in.list
        BY <1>1, With304Type
    <2>2. Sound(r, "cached", hist.vetted)
        BY <1>2, <2>1 DEF Sound, Decided
    <2>3. run' = [run EXCEPT ![p] = r] /\ pc' = [pc EXCEPT ![p] = "cached"]
        BY <1>1, <1>6 DEF FetchNotModified, Advance
    <2> HIDE DEF r
    <2> QED
        BY <1>6, <2>1, <2>2, <2>3, Gathers DEF FetchNotModified, Step
<1>7. CASE FetchBody(p)
    <2> DEFINE r == WithBody(run[p], serving)
    <2>1. /\ r \in Runs
          /\ IsFiniteSet(r.in.list)
          /\ r.in.sha = serving
          /\ r.in.fetchErr \/ r.in.list = Lines[serving]
        BY <1>1, <1>2, WithBodyType
    <2>2. Sound(r, "decide", hist.vetted)
        BY <1>1, <2>1 DEF Sound, Decided, Faithful
    <2>3. run' = [run EXCEPT ![p] = r] /\ pc' = [pc EXCEPT ![p] = "decide"]
        BY <1>1, <1>7 DEF FetchBody, Advance
    <2> HIDE DEF r
    <2> QED
        BY <1>7, <2>1, <2>2, <2>3, Gathers DEF FetchBody, Step
<1>8. CASE ReadCached(p)
    <2> DEFINE r == WithCached(run[p], snapshot)
    <2>1. /\ r \in Runs
          /\ r.in.list = {0} \X snapshot
          /\ r.in.notModified = run[p].in.notModified
        BY <1>1, WithCachedType
    <2>2. run[p].in.notModified
        BY <1>1, <1>8 DEF ReadCached, Advance, Sound
    <2>3. IsFiniteSet({0} \X snapshot)
        <3>1. IsFiniteSet(snapshot)
            BY <1>1, FS_Subset, HealthAssumption
        <3> QED
            BY <3>1, FS_Singleton, FS_Product
    <2>4. Sound(r, "decide", hist.vetted)
        BY <2>1, <2>2, <2>3 DEF Sound, Decided, Faithful
    <2>5. run' = [run EXCEPT ![p] = r] /\ pc' = [pc EXCEPT ![p] = "decide"]
        BY <1>1, <1>8 DEF ReadCached, Advance
    <2> HIDE DEF r
    <2> QED
        BY <1>8, <2>1, <2>4, <2>5, Gathers DEF ReadCached, Step
<1>9. CASE Abort(p)
    <2>1. Sound(NoRun, "idle", hist.vetted)
        BY FS_EmptySet DEF Sound, Decided, NoRun
    <2>2. TypeOK /\ RunsSound
        BY DEF IInv
    <2>3. /\ run' = [run EXCEPT ![p] = NoRun]
          /\ pc' = [pc EXCEPT ![p] = "idle"]
          /\ UNCHANGED <<now, serving, state, snapshot, outcome, hist>>
          /\ aborts' = aborts + 1
        BY <1>9 DEF Abort
    <2>4. /\ pc' \in [Proc -> Step \union {"idle"}]
          /\ run' \in [Proc -> Runs]
          /\ RunsSound'
        BY <2>1, <2>2, <2>3, OneRun, NoRunType
    <2>5. TypeOK'
        BY <2>2, <2>3, <2>4 DEF TypeOK
    <2>6. SnapshotVetted'
        BY <2>3 DEF IInv, SnapshotVetted
    <2> QED
        BY <2>3, <2>4, <2>5, <2>6 DEF IInv
<1> QED
    BY <1>3, <1>4, <1>5, <1>6, <1>7, <1>8, <1>9 DEF Fetch

(* The decision: what it hands over is backed, what it vets is clean. *)
LEMMA DecideStep ==
    ASSUME IInv, NEW p \in Proc, Decide(p)
    PROVE  IInv'
<1> DEFINE old == run[p]
           out == Consumed(old.in, snapshot)
           r   == [old EXCEPT !.out = out]
           at  == IF p \in Rehearsing THEN "handover" ELSE "save"
<1>1. /\ old \in Runs
      /\ IsFiniteSet(old.in.list)
      /\ Faithful(old)
    BY DEF IInv, TypeOK, RunsSound, Sound, Decide, Advance
<1>2. /\ run \in [Proc -> Runs] /\ pc \in [Proc -> Step \union {"idle"}]
      /\ snapshot \in SUBSET Prefix
      /\ hist \in History /\ hist.vetted \in SUBSET Body
    BY DEF IInv, TypeOK, History
<1>3. old.in \in Input
    BY <1>1 DEF Runs
<1>4. out \in SUBSET Prefix
    BY <1>2, <1>3, ConsumedType
<1>5. r \in Runs /\ r.in = old.in /\ r.out = out
    BY <1>1, <1>4 DEF Runs
<1>6. run' = [run EXCEPT ![p] = r] /\ pc' = [pc EXCEPT ![p] = at]
    BY <1>1, <1>2 DEF Decide, Advance
<1>7. UNCHANGED <<now, serving, state, snapshot, outcome, aborts>>
    BY DEF Decide
<1>8. /\ hist' \in History /\ hist.vetted \subseteq hist'.vetted
      /\ Vets(p) => old.in.sha \in hist'.vetted
    <2>1. CASE Vets(p)
        <3>1. old.in.sha \in Body
            BY <1>1, <2>1, OkIsClean DEF Vets
        <3>2. old.in.now \in Nat
            BY <1>3 DEF Input
        <3>3. hist' = [hist EXCEPT !.vetted = @ \union {old.in.sha},
                                   !.vettedAt = old.in.now]
            BY <2>1 DEF Decide
        <3> QED
            BY <1>2, <3>1, <3>2, <3>3 DEF History
    <2>2. CASE ~Vets(p)
        BY <1>2, <2>2 DEF Decide
    <2> QED
        BY <2>1, <2>2
<1>9. Backed(out, Verdict(old.in) = "FAILED", hist.vetted)
    <2>1. snapshot # {} => \E b \in hist.vetted : snapshot = Clean(Lines[b])
        BY DEF IInv, SnapshotVetted
    <2> QED
        BY <1>1, <1>2, <2>1, ConsumedBacked
<1>10. Backed(out, Verdict(old.in) = "FAILED", hist'.vetted)
    BY <1>8, <1>9 DEF Backed
<1>11. Faithful(r)
    BY <1>1, <1>5 DEF Faithful
<1>12. (at = "save" /\ Verdict(r.in) = "OK" /\ ~r.in.notModified)
          => r.in.sha \in hist'.vetted
    BY <1>5, <1>8 DEF Vets
<1>13. Sound(r, at, hist'.vetted)
    BY <1>1, <1>5, <1>10, <1>11, <1>12 DEF Sound, Decided
<1>14. TypeOK /\ RunsSound
    BY DEF IInv
<1>15. at \in Step \union {"idle"}
    BY DEF Step
<1> HIDE DEF old, out, r, at
<1>16. /\ pc' \in [Proc -> Step \union {"idle"}]
       /\ run' \in [Proc -> Runs]
       /\ RunsSound'
    BY <1>5, <1>6, <1>8, <1>13, <1>14, <1>15, OneRun
<1>17. TypeOK'
    BY <1>7, <1>8, <1>16, StoreStays DEF TypeOK
<1> QED
    BY <1>7, <1>8, <1>16, <1>17, StoreStays DEF IInv

(* The record is replaced; nothing the invariant says of it but its type. *)
LEMMA SaveStep ==
    ASSUME IInv, NEW p \in Proc, Save(p)
    PROVE  IInv'
<1> DEFINE r  == run[p]
           at == IF Keeps(r.in) THEN "keep" ELSE "handover"
<1>1. r \in Runs /\ Sound(r, "save", hist.vetted)
    BY DEF IInv, TypeOK, RunsSound, Save, Advance
<1>2. TypeOK /\ RunsSound
    BY DEF IInv
<1>3. /\ hist' \in History /\ hist'.vetted = hist.vetted
    <2>1. r.from \in Body \union {NoBody} /\ r.in.now \in Nat
        BY <1>1 DEF Runs, Input
    <2> QED
        BY <1>2, <2>1 DEF Save, TypeOK, History
<1>4. Sound(r, at, hist'.vetted)
    BY <1>1, <1>3 DEF Sound, Decided
<1>5. run' = [run EXCEPT ![p] = r] /\ pc' = [pc EXCEPT ![p] = at]
    BY <1>2 DEF Save, Advance, TypeOK
<1>6. state' \in FeedState
    BY <1>1, ToSaveType DEF Save, Sound
<1>7. at \in Step \union {"idle"}
    BY DEF Step
<1> HIDE DEF r, at
<1>8. /\ pc' \in [Proc -> Step \union {"idle"}]
      /\ run' \in [Proc -> Runs]
      /\ RunsSound'
    BY <1>1, <1>2, <1>3, <1>4, <1>5, <1>7, OneRun
<1>9. UNCHANGED <<now, serving, snapshot, outcome, aborts>>
    BY DEF Save
<1>10. TypeOK'
    BY <1>2, <1>3, <1>6, <1>8, <1>9 DEF TypeOK
<1>11. SnapshotVetted'
    BY <1>3, <1>9 DEF IInv, SnapshotVetted
<1>12. Backed(outcome'.prefixes, outcome'.status = "FAILED", hist'.vetted)
    BY <1>3, <1>9 DEF IInv
<1> QED
    BY <1>8, <1>10, <1>11, <1>12 DEF IInv

(* The cached copy becomes the content of the body just vetted. *)
LEMMA SaveLastGoodStep ==
    ASSUME IInv, NEW p \in Proc, SaveLastGood(p)
    PROVE  IInv'
<1> DEFINE r == run[p]
<1>1. r \in Runs /\ Sound(r, "keep", hist.vetted)
    BY DEF IInv, TypeOK, RunsSound, SaveLastGood, Advance
<1>2. TypeOK /\ RunsSound
    BY DEF IInv
<1>3. Faithful(r) /\ Verdict(r.in) = "OK" /\ ~r.in.notModified
    BY <1>1 DEF Sound, Decided, Keeps
<1>4. /\ r.in.sha \in hist.vetted
      /\ Kept(Lines[r.in.sha]) = Lines[r.in.sha]
      /\ snapshot' = Clean(Lines[r.in.sha])
    BY <1>1, <1>3, OkIsClean DEF SaveLastGood, Sound
<1>5. UNCHANGED <<now, serving, state, outcome, aborts, hist>>
    BY DEF SaveLastGood
<1>6. SnapshotVetted'
    BY <1>4, <1>5 DEF SnapshotVetted
<1>7. snapshot' \in SUBSET Prefix
    <2>1. r.in.list \in SUBSET (Nat \X Prefix)
        BY <1>1 DEF Runs, Input
    <2> QED
        BY <2>1, CleanList DEF SaveLastGood
<1>8. Sound(r, "handover", hist'.vetted)
    BY <1>1, <1>5 DEF Sound, Decided
<1>9. run' = [run EXCEPT ![p] = r] /\ pc' = [pc EXCEPT ![p] = "handover"]
    BY <1>2 DEF SaveLastGood, Advance, TypeOK
<1> HIDE DEF r
<1>10. /\ pc' \in [Proc -> Step \union {"idle"}]
       /\ run' \in [Proc -> Runs]
       /\ RunsSound'
    BY <1>1, <1>2, <1>5, <1>8, <1>9, OneRun DEF Step
<1>11. TypeOK'
    BY <1>2, <1>5, <1>7, <1>10 DEF TypeOK
<1>12. Backed(outcome'.prefixes, outcome'.status = "FAILED", hist'.vetted)
    BY <1>5 DEF IInv
<1> QED
    BY <1>6, <1>10, <1>11, <1>12 DEF IInv

(* What was backed at the decision is backed when it reaches the target. *)
LEMMA HandOverStep ==
    ASSUME IInv, NEW p \in Proc, HandOver(p)
    PROVE  IInv'
<1>1. run[p] \in Runs /\ Sound(run[p], "handover", hist.vetted)
    BY DEF IInv, TypeOK, RunsSound, HandOver, Advance
<1>2. TypeOK /\ RunsSound
    BY DEF IInv
<1>3. UNCHANGED <<now, serving, state, snapshot, aborts, hist>>
    BY DEF HandOver
<1>4. outcome' = outcome \/ outcome' = OutcomeOf(run[p])
    BY DEF HandOver
<1>5. outcome' \in Outcomes
    BY <1>1, <1>2, <1>4, OutcomeType DEF TypeOK
<1>6. Backed(outcome'.prefixes, outcome'.status = "FAILED", hist'.vetted)
    <2>1. Backed(run[p].out, Verdict(run[p].in) = "FAILED", hist.vetted)
        BY <1>1 DEF Sound, Decided
    <2>2. /\ OutcomeOf(run[p]).prefixes = run[p].out
          /\ OutcomeOf(run[p]).status = Verdict(run[p].in)
        BY DEF OutcomeOf
    <2>3. Backed(outcome.prefixes, outcome.status = "FAILED", hist.vetted)
        BY DEF IInv
    <2> QED
        BY <1>3, <1>4, <2>1, <2>2, <2>3
<1>7. Sound(NoRun, "idle", hist'.vetted)
    BY FS_EmptySet DEF Sound, Decided, NoRun
<1>8. run' = [run EXCEPT ![p] = NoRun] /\ pc' = [pc EXCEPT ![p] = "idle"]
    BY DEF HandOver, Advance
<1>9. /\ pc' \in [Proc -> Step \union {"idle"}]
      /\ run' \in [Proc -> Runs]
      /\ RunsSound'
    BY <1>2, <1>3, <1>7, <1>8, OneRun, NoRunType
<1>10. TypeOK'
    BY <1>2, <1>3, <1>5, <1>9 DEF TypeOK
<1>11. SnapshotVetted'
    BY <1>3 DEF IInv, SnapshotVetted
<1> QED
    BY <1>6, <1>9, <1>10, <1>11 DEF IInv

(* The environment touches neither the store nor the runs. *)
LEMMA EnvironmentStep ==
    ASSUME IInv, Tick \/ (\E b \in Body : Publish(b)) \/ UNCHANGED vars
    PROVE  IInv'
<1>1. UNCHANGED <<state, snapshot, pc, run, outcome, aborts, hist>>
    BY DEF Tick, Publish, vars
<1>2. now' \in Nat /\ serving' \in Body
    BY DEF IInv, TypeOK, Tick, Publish, vars
<1>3. TypeOK'
    BY <1>1, <1>2 DEF IInv, TypeOK
<1> QED
    BY <1>1, <1>3 DEF IInv, RunsSound, SnapshotVetted

(* The invariant, for any runs that overlap and may stop anywhere.          *)
THEOREM Invariance == Spec => []IInv
<1>1. Init => IInv
    BY InitInv
<1>2. IInv /\ [Next]_vars => IInv'
    <2> SUFFICES ASSUME IInv, [Next]_vars PROVE IInv'
        OBVIOUS
    <2>1. CASE Tick \/ (\E b \in Body : Publish(b)) \/ UNCHANGED vars
        BY <2>1, EnvironmentStep
    <2>2. ASSUME NEW p \in Proc,
                 Start(p) \/ Fetch(p) \/ Proceed(p) \/ Abort(p)
          PROVE  IInv'
        <3>1. CASE Start(p) \/ Load(p) \/ Fetch(p) \/ ReadCached(p) \/ Abort(p)
            BY <3>1, GatherSteps
        <3>2. CASE Decide(p)
            BY <3>2, DecideStep
        <3>3. CASE Save(p)
            BY <3>3, SaveStep
        <3>4. CASE SaveLastGood(p)
            BY <3>4, SaveLastGoodStep
        <3>5. CASE HandOver(p)
            BY <3>5, HandOverStep
        <3> QED
            BY <2>2, <3>1, <3>2, <3>3, <3>4, <3>5 DEF Proceed
    <2> QED
        BY <2>1, <2>2 DEF Next
<1> QED
    BY <1>1, <1>2, PTL DEF Spec

-----------------------------------------------------------------------------
(* What a reader should know of. *)

(* Every variable keeps its type. *)
THEOREM TypeCorrect == Spec => []TypeOK
<1>1. IInv => TypeOK
    BY DEF IInv
<1> QED
    BY <1>1, Invariance, PTL

(* The cached copy is always one whole vetted body, whatever overlaps or   *)
(* stops half way.                                                         *)
THEOREM SnapshotIsVetted == Spec => []SnapshotVetted
<1>1. IInv => SnapshotVetted
    BY DEF IInv
<1> QED
    BY <1>1, Invariance, PTL

(* What reaches a target is nothing or the clean content of one body. *)
THEOREM HandedOverIsWhole == Spec => []HandedOverWhole
<1>1. IInv => HandedOverWhole
    <2> SUFFICES ASSUME IInv, outcome.prefixes # {}
                 PROVE  /\ outcome.prefixes \intersect Poison = {}
                        /\ \E b \in Body : outcome.prefixes = Clean(Lines[b])
        BY DEF HandedOverWhole
    <2>1. PICK b \in Body : outcome.prefixes = Clean(Lines[b])
        BY DEF IInv, Backed
    <2>2. Lines[b] \in SUBSET (Nat \X Prefix)
        BY CycleAssumption
    <2> QED
        BY <2>1, <2>2, CleanList
<1> QED
    BY <1>1, Invariance, PTL

(* A FAILED run hands over nothing or a body that was found healthy. *)
THEOREM FailedIsVetted == Spec => []FailedServesVetted
<1>1. IInv => FailedServesVetted
    BY DEF IInv, Backed, FailedServesVetted
<1> QED
    BY <1>1, Invariance, PTL

-----------------------------------------------------------------------------
(* The feed's record: its fields agree with each other, its validator      *)
(* names its hash, and dry runs leave it alone.                            *)

(* The provider sends a validator with every body. *)
AllTagged == \A b \in Body : TagOf[b] \in Tag

(* A record as a run leaves it.  A hash that has been replaced by the      *)
(* empty one (a first run that failed) comes without a validator.          *)
WellKept(rec) ==
    /\ Coherent(rec)
    /\ AllTagged => Named(rec)
    /\ rec.etag # NoTag => rec.unchangedSince > 0

(* The validator a run will save is that of the hash it will save. *)
Paired(r) ==
    AllTagged =>
        r.tag = IF r.in.sha = NoBody THEN NoTag ELSE TagOf[r.in.sha]

Careful(p) ==
    /\ WellKept(run[p].in.prev)
    /\ Paired(run[p])
    /\ pc[p] # "idle" => run[p].in.now > 0
    /\ p \in Rehearsing => pc[p] \notin {"save", "keep"}

RecordInv ==
    /\ now > 0
    /\ WellKept(state)
    /\ \A p \in Proc : Careful(p)

-----------------------------------------------------------------------------

(* The record of a feed that was never fetched.                            *)
LEMMA ZeroIsWellKept == WellKept(ZeroState)
BY DEF WellKept, Coherent, Named, ZeroState

(* A run that starts from a well-kept record saves one. *)
LEMMA SavedIsWellKept ==
    ASSUME NEW r \in Runs, IsFiniteSet(r.in.list),
           WellKept(r.in.prev), Paired(r), r.in.now > 0
    PROVE  WellKept(ToSave(r))
<1> DEFINE in == r.in
           prev == r.in.prev
           next == NextState(in)
<1>1. in \in Input /\ prev \in FeedState /\ in.now \in Nat
    BY DEF Runs, Input
<1>2. EntryCount(in) \in Nat /\ Verdict(in) \in Status
    BY <1>1, CountType, VerdictType
<1>3. next \in FeedState
    BY <1>1, NextStateType
<1>4. /\ next.failingSince = FailingSince(in)
      /\ next.lastStatus = Verdict(in)
      /\ next.etag = prev.etag
      /\ next.sha = IF NewBytes(in) THEN in.sha ELSE prev.sha
      /\ next.unchangedSince =
            IF NewBytes(in) THEN in.now ELSE prev.unchangedSince
      /\ next.lastGoodAt =
            IF Verdict(in) = "OK" THEN in.now ELSE prev.lastGoodAt
      /\ next.lastGoodCount =
            IF Verdict(in) = "OK" THEN EntryCount(in) ELSE prev.lastGoodCount
    BY <1>1 DEF NextState, FeedState, BaselineMoves
<1>5. ToSave(r) = [next EXCEPT !.etag = IF r.tag = NoTag THEN @ ELSE r.tag]
    BY <1>3 DEF ToSave, FeedState
<1>6. /\ ToSave(r).etag = IF r.tag = NoTag THEN prev.etag ELSE r.tag
      /\ ToSave(r).sha = next.sha
      /\ ToSave(r).failingSince = next.failingSince
      /\ ToSave(r).lastStatus = next.lastStatus
      /\ ToSave(r).unchangedSince = next.unchangedSince
      /\ ToSave(r).lastGoodAt = next.lastGoodAt
      /\ ToSave(r).lastGoodCount = next.lastGoodCount
    BY <1>3, <1>4, <1>5 DEF FeedState
<1>7. FailingSince(in) # 0 <=> Verdict(in) = "FAILED"
    BY <1>1 DEF FailingSince
<1>8. next.unchangedSince > 0
    <2>1. prev.unchangedSince \in Nat
        BY <1>1 DEF FeedState
    <2>2. CASE NewBytes(in)
        BY <1>1, <1>4, <2>2
    <2>3. CASE ~NewBytes(in)
        BY <1>4, <2>1, <2>3 DEF NewBytes
    <2> QED
        BY <2>2, <2>3
<1>9. next.lastStatus # ""
    BY <1>2, <1>4 DEF Status
<1>10. /\ next.lastGoodCount > 0 => next.lastGoodAt > 0
       /\ next.lastStatus = "OK" => next.lastGoodAt > 0
    BY <1>1, <1>4 DEF WellKept, Coherent
<1>11. Coherent(ToSave(r))
    BY <1>4, <1>6, <1>7, <1>8, <1>9, <1>10 DEF Coherent
<1>12. ASSUME AllTagged PROVE Named(ToSave(r))
    <2>1. CASE in.sha = NoBody
        <3>1. ToSave(r).etag = prev.etag
            BY <1>6, <1>12, <2>1 DEF Paired
        <3>2. ASSUME prev.etag # NoTag
              PROVE  prev.sha # NoBody /\ prev.etag = TagOf[prev.sha]
                     /\ ~NewBytes(in)
            BY <1>12, <2>1, <3>2 DEF WellKept, Named, NewBytes
        <3> QED
            BY <1>4, <1>6, <3>1, <3>2 DEF Named
    <2>2. CASE in.sha # NoBody
        <3>1. in.sha \in Body /\ r.tag = TagOf[in.sha]
            BY <1>1, <1>12, <2>2 DEF Paired, Input
        <3>2. r.tag # NoTag
            BY <1>12, <3>1, HealthAssumption DEF AllTagged
        <3>3. next.sha = in.sha
            BY <1>4, <2>2 DEF NewBytes
        <3> QED
            BY <1>6, <2>2, <3>1, <3>2, <3>3 DEF Named
    <2> QED
        BY <2>1, <2>2
<1> QED
    BY <1>6, <1>8, <1>11, <1>12 DEF WellKept

(* The steps of a run keep what it carries. *)
LEMMA StartedCareful ==
    ASSUME NEW t \in Nat, t > 0
    PROVE  LET r == [NoRun EXCEPT !.in.now = t]
           IN  /\ WellKept(r.in.prev) /\ Paired(r)
               /\ r.in.now > 0
BY ZeroIsWellKept DEF NoRun, Paired

(* A run that has loaded a well-kept record.                               *)
LEMMA LoadedCareful ==
    ASSUME NEW r \in Runs, NEW s \in FeedState, WellKept(s), Paired(r)
    PROVE  LET l == [r EXCEPT !.in.prev = s]
           IN  /\ WellKept(l.in.prev) /\ Paired(l)
               /\ l.in.now = r.in.now
BY DEF Paired, Runs, Input

(* Whatever the answer, its validator is kept with its hash.               *)
LEMMA AnsweredCareful ==
    ASSUME NEW r \in Runs, NEW b \in Body, WellKept(r.in.prev), Paired(r)
    PROVE  /\ WithError(r).in.prev = r.in.prev
           /\ WithError(r).in.now = r.in.now
           /\ Paired(WithError(r))
           /\ WithBody(r, b).in.prev = r.in.prev
           /\ WithBody(r, b).in.now = r.in.now
           /\ Paired(WithBody(r, b))
           /\ With304(r, b).in.prev = r.in.prev
           /\ With304(r, b).in.now = r.in.now
           /\ MayAnswer304(r.in.prev, b) => Paired(With304(r, b))
<1>1. r.in \in Input
    BY DEF Runs
<1>2. /\ WithError(r).in.prev = r.in.prev
      /\ WithError(r).in.now = r.in.now
      /\ Paired(WithError(r))
    BY <1>1 DEF WithError, Paired, Runs, Input
<1>3. /\ Parsed(r.in, b).prev = r.in.prev
      /\ Parsed(r.in, b).now = r.in.now
      /\ Parsed(r.in, b).sha = b
    BY <1>1 DEF Parsed, Input
<1>4. /\ WithBody(r, b).in = Parsed(r.in, b)
      /\ WithBody(r, b).tag = TagOf[b]
    BY DEF WithBody, Runs
<1>5. Paired(WithBody(r, b))
    BY <1>3, <1>4, HealthAssumption DEF Paired
<1>6. /\ With304(r, b).in.prev = r.in.prev
      /\ With304(r, b).in.now = r.in.now
      /\ With304(r, b).in.sha = r.in.prev.sha
      /\ With304(r, b).tag = TagOf[b]
    BY <1>1 DEF With304, Runs, Input
<1>7. MayAnswer304(r.in.prev, b) => Paired(With304(r, b))
    BY <1>6 DEF MayAnswer304, Paired, WellKept, Named
<1> QED
    BY <1>2, <1>3, <1>4, <1>5, <1>6, <1>7

-----------------------------------------------------------------------------

(* One process moves on; the others stay as careful as they were. *)
LEMMA OneCareful ==
    ASSUME TypeOK, RecordInv, NEW p \in Proc, NEW r, NEW at,
           run' = [run EXCEPT ![p] = r], pc' = [pc EXCEPT ![p] = at],
           WellKept(r.in.prev), Paired(r), at # "idle" => r.in.now > 0,
           p \in Rehearsing => at \notin {"save", "keep"}
    PROVE  \A q \in Proc : Careful(q)'
<1> TAKE q \in Proc
<1>1. run \in [Proc -> Runs] /\ DOMAIN pc = Proc
    BY DEF TypeOK
<1>2. CASE q = p
    <2>1. run'[q] = r /\ pc'[q] = at
        BY <1>1, <1>2
    <2> QED
        BY <1>2, <2>1 DEF Careful, WellKept, Paired
<1>3. CASE q # p
    <2>1. run'[q] = run[q] /\ pc'[q] = pc[q]
        BY <1>1, <1>3
    <2>2. Careful(q)
        BY DEF RecordInv
    <2> QED
        BY <2>1, <2>2 DEF Careful
<1> QED
    BY <1>2, <1>3

(* At first there are only empty records.                                  *)
LEMMA RecordInit == Init => RecordInv
<1> SUFFICES ASSUME Init PROVE RecordInv
    OBVIOUS
<1>1. ASSUME NEW p \in Proc PROVE Careful(p)
    <2>1. run[p] = NoRun /\ pc[p] = "idle"
        BY DEF Init
    <2>2. NoRun.in.prev = ZeroState /\ Paired(NoRun)
        BY DEF NoRun, Paired
    <2> QED
        BY <2>1, <2>2, ZeroIsWellKept DEF Careful
<1> QED
    BY <1>1, ZeroIsWellKept DEF Init, RecordInv

(* A step of p that leaves the clock and the record alone. *)
LEMMA RunStep ==
    ASSUME TypeOK, RecordInv, NEW p \in Proc,
           \/ Start(p) \/ Load(p) \/ Fetch(p) \/ ReadCached(p) \/ Decide(p)
           \/ SaveLastGood(p) \/ HandOver(p) \/ Abort(p)
    PROVE  RecordInv'
<1> DEFINE old == run[p]
<1>1. /\ old \in Runs /\ old.in \in Input
      /\ run \in [Proc -> Runs]
      /\ now \in Nat /\ serving \in Body /\ state \in FeedState
      /\ snapshot \in SUBSET Prefix
    BY DEF TypeOK, Runs
<1>2. now > 0 /\ WellKept(state)
    BY DEF RecordInv
<1>3. /\ WellKept(old.in.prev) /\ Paired(old)
      /\ pc[p] # "idle" => old.in.now > 0
      /\ p \in Rehearsing => pc[p] \notin {"save", "keep"}
    BY DEF RecordInv, Careful
<1>4. /\ WellKept(NoRun.in.prev) /\ Paired(NoRun)
    BY ZeroIsWellKept DEF NoRun, Paired
<1>5. UNCHANGED <<now, state>>
    BY DEF Start, Load, Fetch, FetchError, FetchNotModified, FetchBody,
           ReadCached, Decide, SaveLastGood, HandOver, Abort
<1>6. \A q \in Proc : Careful(q)'
    <2>1. CASE Start(p)
        <3> DEFINE r == [NoRun EXCEPT !.in.now = now]
        <3>1. WellKept(r.in.prev) /\ Paired(r) /\ r.in.now > 0
            BY <1>1, <1>2, StartedCareful
        <3>2. run' = [run EXCEPT ![p] = r] /\ pc' = [pc EXCEPT ![p] = "load"]
            BY <2>1 DEF Start, Advance
        <3> HIDE DEF r
        <3> QED
            BY <3>1, <3>2, OneCareful
    <2>2. CASE Load(p)
        <3> DEFINE r == [old EXCEPT !.in.prev = state]
        <3>1. WellKept(r.in.prev) /\ Paired(r) /\ r.in.now = old.in.now
            BY <1>1, <1>2, <1>3, LoadedCareful
        <3>2. run' = [run EXCEPT ![p] = r] /\ pc' = [pc EXCEPT ![p] = "fetch"]
            BY <1>1, <2>2 DEF Load, Advance
        <3>3. old.in.now > 0
            BY <1>3, <2>2 DEF Load, Advance
        <3> HIDE DEF r, old
        <3> QED
            BY <3>1, <3>2, <3>3, OneCareful
    <2>3. CASE Fetch(p)
        <3>1. pc[p] = "fetch"
            BY <2>3 DEF Fetch, FetchError, FetchNotModified, FetchBody, Advance
        <3>2. CASE FetchError(p)
            <4>1. /\ run' = [run EXCEPT ![p] = WithError(old)]
                  /\ pc' = [pc EXCEPT ![p] = "decide"]
                BY <1>1, <3>2 DEF FetchError, Advance
            <4> QED
                BY <1>1, <1>3, <3>1, <4>1, AnsweredCareful, OneCareful
        <3>3. CASE FetchNotModified(p)
            <4>1. /\ run' = [run EXCEPT ![p] = With304(old, serving)]
                  /\ pc' = [pc EXCEPT ![p] = "cached"]
                  /\ MayAnswer304(old.in.prev, serving)
                BY <1>1, <3>3 DEF FetchNotModified, Advance
            <4> QED
                BY <1>1, <1>3, <3>1, <4>1, AnsweredCareful, OneCareful
        <3>4. CASE FetchBody(p)
            <4>1. /\ run' = [run EXCEPT ![p] = WithBody(old, serving)]
                  /\ pc' = [pc EXCEPT ![p] = "decide"]
                BY <1>1, <3>4 DEF FetchBody, Advance
            <4> QED
                BY <1>1, <1>3, <3>1, <4>1, AnsweredCareful, OneCareful
        <3> QED
            BY <2>3, <3>2, <3>3, <3>4 DEF Fetch
    <2>4. CASE ReadCached(p)
        <3> DEFINE r == WithCached(old, snapshot)
        <3>1. /\ r.in.prev = old.in.prev /\ r.in.now = old.in.now
              /\ r.in.sha = old.in.sha /\ r.tag = old.tag
            BY <1>1 DEF WithCached, Runs, Input
        <3>2. Paired(r)
            BY <1>3, <3>1 DEF Paired
        <3>3. /\ run' = [run EXCEPT ![p] = r]
              /\ pc' = [pc EXCEPT ![p] = "decide"]
              /\ pc[p] = "cached"
            BY <1>1, <2>4 DEF ReadCached, Advance
        <3> HIDE DEF r, old
        <3> QED
            BY <1>3, <3>1, <3>2, <3>3, OneCareful
    <2>5. CASE Decide(p)
        <3> DEFINE r  == [old EXCEPT !.out = Consumed(old.in, snapshot)]
                   at == IF p \in Rehearsing THEN "handover" ELSE "save"
        <3>1. r.in = old.in /\ r.tag = old.tag
            BY <1>1 DEF Runs
        <3>2. Paired(r)
            BY <1>3, <3>1 DEF Paired
        <3>3. /\ run' = [run EXCEPT ![p] = r]
              /\ pc' = [pc EXCEPT ![p] = at]
              /\ pc[p] = "decide"
            BY <1>1, <2>5 DEF Decide, Advance
        <3>4. p \in Rehearsing => at \notin {"save", "keep"}
            OBVIOUS
        <3> HIDE DEF r, old, at
        <3> QED
            BY <1>3, <3>1, <3>2, <3>3, <3>4, OneCareful
    <2>6. CASE SaveLastGood(p)
        <3>1. /\ run' = [run EXCEPT ![p] = old]
              /\ pc' = [pc EXCEPT ![p] = "handover"]
              /\ pc[p] = "keep"
            BY <1>1, <2>6 DEF SaveLastGood, Advance
        <3> QED
            BY <1>3, <3>1, OneCareful
    <2>7. CASE HandOver(p) \/ Abort(p)
        <3>1. /\ run' = [run EXCEPT ![p] = NoRun]
              /\ pc' = [pc EXCEPT ![p] = "idle"]
            BY <2>7 DEF HandOver, Abort, Advance
        <3> QED
            BY <1>4, <3>1, OneCareful
    <2> QED
        BY <2>1, <2>2, <2>3, <2>4, <2>5, <2>6, <2>7
<1> QED
    BY <1>2, <1>5, <1>6 DEF RecordInv, WellKept

(* Saving replaces the record by a well-kept one. *)
LEMMA RecordSaved ==
    ASSUME IInv, RecordInv, NEW p \in Proc, Save(p)
    PROVE  RecordInv'
<1> DEFINE r  == run[p]
           at == IF Keeps(r.in) THEN "keep" ELSE "handover"
<1>1. TypeOK /\ r \in Runs /\ IsFiniteSet(r.in.list)
    BY DEF IInv, TypeOK, RunsSound, Sound
<1>2. /\ WellKept(r.in.prev) /\ Paired(r) /\ r.in.now > 0
      /\ p \notin Rehearsing
    BY DEF RecordInv, Careful, Save, Advance
<1>3. WellKept(ToSave(r))
    BY <1>1, <1>2, SavedIsWellKept
<1>4. state' = ToSave(r) /\ now' = now
    BY DEF Save
<1>5. run' = [run EXCEPT ![p] = r] /\ pc' = [pc EXCEPT ![p] = at]
    BY <1>1 DEF Save, Advance, TypeOK
<1> HIDE DEF r, at
<1>6. \A q \in Proc : Careful(q)'
    BY <1>1, <1>2, <1>5, OneCareful
<1>7. WellKept(state)'
    BY <1>3, <1>4 DEF WellKept
<1> QED
    BY <1>4, <1>6, <1>7 DEF RecordInv

(* Records are well kept, on disk and in every run on its way.             *)
THEOREM RecordInvariance == Spec => []RecordInv
<1>1. Init => RecordInv
    BY RecordInit
<1>2. IInv /\ RecordInv /\ [Next]_vars => RecordInv'
    <2> SUFFICES ASSUME IInv, RecordInv, [Next]_vars PROVE RecordInv'
        OBVIOUS
    <2>1. TypeOK
        BY DEF IInv
    <2>2. CASE Tick \/ (\E b \in Body : Publish(b)) \/ UNCHANGED vars
        <3>1. UNCHANGED <<state, pc, run>>
            BY <2>1, <2>2 DEF Tick, Publish, vars, TypeOK
        <3>2. now' > 0
            BY <2>1, <2>2 DEF Tick, Publish, vars, RecordInv, TypeOK
        <3> QED
            BY <3>1, <3>2 DEF RecordInv, Careful, WellKept
    <2>3. ASSUME NEW p \in Proc,
                 Start(p) \/ Fetch(p) \/ Proceed(p) \/ Abort(p)
          PROVE  RecordInv'
        <3>1. CASE Save(p)
            BY <3>1, RecordSaved
        <3>2. CASE ~Save(p)
            BY <2>1, <2>3, <3>2, RunStep DEF Proceed
        <3> QED
            BY <3>1, <3>2
    <2> QED
        BY <2>2, <2>3 DEF Next
<1> QED
    BY <1>1, <1>2, Invariance, PTL DEF Spec

-----------------------------------------------------------------------------

(* The fields of the record agree with each other after every save, by     *)
(* whichever run, from however old a copy it was computed.                 *)
THEOREM RecordIsCoherent == Spec => []RecordCoherent
<1>1. RecordInv => RecordCoherent
    BY DEF RecordInv, WellKept, RecordCoherent
<1> QED
    BY <1>1, RecordInvariance, PTL

(* With a provider that tags every body, always with the same of the two   *)
(* validators, the stored one names the stored hash.                       *)
THEOREM ValidatorIsOfBody == Spec => [](AllTagged => ValidatorNamesBody)
<1>1. RecordInv => (AllTagged => ValidatorNamesBody)
    BY DEF RecordInv, WellKept, ValidatorNamesBody
<1> QED
    BY <1>1, RecordInvariance, PTL

(* A dry run changes neither file of the store, nor the output. *)
THEOREM RehearsalsWriteNothing == Spec => RehearsalWritesNothing
<1> DEFINE Quiet == \A p \in Rehearsing : pc[p] # pc'[p] =>
                        UNCHANGED <<store, outcome>>
<1>1. TypeOK /\ RecordInv /\ [Next]_vars => [Quiet]_vars
    <2> SUFFICES ASSUME TypeOK, RecordInv, Next, NEW p \in Rehearsing,
                        pc[p] # pc'[p]
                 PROVE  UNCHANGED <<store, outcome>>
        OBVIOUS
    <2>1. p \in Proc /\ DOMAIN pc = Proc
        BY FeedAssumption DEF TypeOK
    <2>2. pc[p] \notin {"save", "keep"}
        BY <2>1 DEF RecordInv, Careful
    <2>3. PICK q \in Proc : Start(q) \/ Fetch(q) \/ Proceed(q) \/ Abort(q)
        BY DEF Next, Tick, Publish
    <2>4. \E at : pc' = [pc EXCEPT ![q] = at]
        BY <2>3 DEF Start, Fetch, FetchError, FetchNotModified, FetchBody,
            Proceed, Load, ReadCached, Decide, Save, SaveLastGood, HandOver,
            Abort, Advance
    <2>5. q = p
        BY <2>1, <2>4
    <2>6. ~Save(p) /\ ~SaveLastGood(p)
        BY <2>2 DEF Save, SaveLastGood, Advance
    <2> QED
        BY <2>3, <2>5, <2>6 DEF Start, Fetch, FetchError, FetchNotModified,
            FetchBody, Proceed, Load, ReadCached, Decide, HandOver, Abort,
            store
<1> QED
    BY <1>1, TypeCorrect, RecordInvariance, PTL DEF Spec, RehearsalWritesNothing
=============================================================================
