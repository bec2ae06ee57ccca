------------------------------- MODULE Health -------------------------------
(***************************************************************************)
(* internal/health: the verdict on one run of one feed, as a pure function *)
(* of what the run fetched and of the record kept from earlier runs.       *)
(*                                                                         *)
(* A parsed list is a set of <<line, prefix>> pairs, so that the same      *)
(* prefix on two lines counts twice, as it does in the slice the parser    *)
(* returns; the order of the slice is never looked at.  Times are natural  *)
(* numbers and 0 is Go's zero time.  A body stands for its own SHA-256 and *)
(* NoBody for the empty hash.  One tag stands for the pair of validators   *)
(* (ETag, Last-Modified), NoTag for both of them empty.                    *)
(***************************************************************************)
EXTENDS Integers, FiniteSets

CONSTANTS
    Prefix,       \* the network prefixes a feed can list
    Poison,       \* those the sanity floor removes
    Body,         \* the bodies a provider can serve
    NoBody,       \* the empty hash
    Tag,          \* the validators a provider can attach to a body
    NoTag,        \* no validator
    DeltaPct,     \* count swing, in percent, above which a run is SUSPECT
    RejectedPct,  \* share of rejected lines, in percent, above which it is
    StaleMax,     \* Thresholds.StaleMax
    Cadence       \* the feed's stated cadence; 0 when the catalog has none

ASSUME HealthAssumption ==
    /\ IsFiniteSet(Prefix)
    /\ NoBody \notin Body
    /\ NoTag \notin Tag
    /\ DeltaPct \in Nat /\ RejectedPct \in Nat
    /\ StaleMax \in Nat /\ Cadence \in Nat

-----------------------------------------------------------------------------

Status == {"OK", "SUSPECT", "STALE", "FAILED"}

(* The durable record of one feed. *)
FeedState == [etag           : Tag \union {NoTag},
              lastGoodAt     : Nat,
              lastGoodCount  : Nat,
              sha            : Body \union {NoBody},
              unchangedSince : Nat,
              failingSince   : Nat,
              lastStatus     : Status \union {""}]

ZeroState == [etag |-> NoTag, lastGoodAt |-> 0, lastGoodCount |-> 0,
              sha |-> NoBody, unchangedSince |-> 0, failingSince |-> 0,
              lastStatus |-> ""]

(* What the pipeline knows about the run it asks a verdict on. *)
Input == [fetchErr    : BOOLEAN,
          notModified : BOOLEAN,
          sha         : Body \union {NoBody},
          list        : SUBSET (Nat \X Prefix),
          parsed      : Nat,
          rejected    : Nat,
          prev        : FeedState,
          now         : Nat]

-----------------------------------------------------------------------------

(* Check 6, the sanity floor: poisoned entries are dropped. *)
Kept(list) == {e \in list : e[2] \notin Poison}

Clean(list) == {e[2] : e \in Kept(list)}

(* Mutant: the header line is taken off the count. *)
EntryCountNoHeader(in) == Cardinality(Kept(in.list)) - 1

(* Entries are counted as listed, duplicates included. *)
EntryCount(in) == Cardinality(Kept(in.list))

Floored(in) == Kept(in.list) # in.list

(* Checks 1 and 2: no body, or a body without a usable entry.  A 304 is    *)
(* exempt from the second check.                                           *)
FailedRun(in) ==
    \/ in.fetchErr
    \/ EntryCount(in) = 0 /\ ~in.notModified

(* Check 3: the count moved by more than DeltaPct against the baseline. *)
Swung(in) ==
    LET base == in.prev.lastGoodCount
        move == 100 * (EntryCount(in) - base)
    IN  base > 0 /\ (move > DeltaPct * base \/ -move > DeltaPct * base)

(* Check 4: rejected / (parsed + rejected) is above the threshold. *)
Drifted(in) == 100 * in.rejected > RejectedPct * (in.parsed + in.rejected)

(* Check 5: the same content for longer than cadence plus StaleMax. *)
Unchanged(in) ==
    in.notModified \/ (in.sha # NoBody /\ in.sha = in.prev.sha)

Overdue(in) ==
    /\ Unchanged(in)
    /\ in.prev.unchangedSince # 0
    /\ Cadence > 0
    /\ in.now - in.prev.unchangedSince > Cadence + StaleMax

(* The verdict is the most severe of the findings. *)
Verdict(in) ==
    IF FailedRun(in) THEN "FAILED"
    ELSE IF Overdue(in) THEN "STALE"
    ELSE IF Floored(in) \/ Swung(in) \/ Drifted(in) THEN "SUSPECT"
    ELSE "OK"

(* Mutant: an age of exactly StaleMax is too old. *)
RecentGoodStrict(in) ==
    in.prev.lastGoodAt # 0 /\ in.now - in.prev.lastGoodAt < StaleMax

(* A FAILED run serves the cached copy while the last good run is recent   *)
(* enough, and nothing afterwards.                                         *)
RecentGood(in) ==
    in.prev.lastGoodAt # 0 /\ in.now - in.prev.lastGoodAt <= StaleMax

UseLastGood(in) == FailedRun(in) /\ RecentGood(in)

DropFeed(in) == FailedRun(in) /\ ~RecentGood(in)

(* Mutant: a recovery does not clear the mark. *)
FailingSinceKept(in) ==
    IF Verdict(in) = "FAILED" /\ in.prev.failingSince = 0 THEN in.now
    ELSE in.prev.failingSince

(* Set by the first of a row of FAILED runs, cleared by any other run. *)
FailingSince(in) ==
    IF Verdict(in) # "FAILED" THEN 0
    ELSE IF in.prev.failingSince = 0 THEN in.now
    ELSE in.prev.failingSince

(* Mutant: a run without a body counts as a change of content. *)
NewBytesUnguarded(in) ==
    in.sha # in.prev.sha \/ in.prev.unchangedSince = 0

(* The staleness clock restarts on new bytes and on the very first run. *)
NewBytes(in) ==
    (in.sha # NoBody /\ in.sha # in.prev.sha) \/ in.prev.unchangedSince = 0

(* Mutant: any usable run moves the baseline. *)
BaselineMovesIfUsable(in) == Verdict(in) # "FAILED"

(* The baseline advances only on a fully healthy run. *)
BaselineMoves(in) == Verdict(in) = "OK"

NextState(in) ==
    [in.prev EXCEPT
        !.failingSince   = FailingSince(in),
        !.sha            = IF NewBytes(in) THEN in.sha ELSE @,
        !.unchangedSince = IF NewBytes(in) THEN in.now ELSE @,
        !.lastGoodAt     = IF BaselineMoves(in) THEN in.now ELSE @,
        !.lastGoodCount  = IF BaselineMoves(in) THEN EntryCount(in) ELSE @,
        !.lastStatus     = Verdict(in)]
=============================================================================
