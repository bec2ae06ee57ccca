----------------------------- MODULE UpdateCycle -----------------------------
(***************************************************************************)
(* internal/pipeline Run over several feeds, aliases and targets, with the *)
(* retry loop of internal/fetch inside it and the exit code of the command *)
(* around it.  One run after the other; any of them may be a dry run, be   *)
(* stopped, or meet a store or a target that fails.                        *)
(*                                                                         *)
(* FeedRefinement shows that the many steps of one feed amount to one, so  *)
(* judging and saving a feed is one step here, or two when the second file *)
(* of it cannot be written.  The clock stands still: what time does to a   *)
(* feed is the subject of FeedRun.  A file target writes an alias in one   *)
(* step (FileTarget), and no alias is added or removed.                    *)
(***************************************************************************)
EXTENDS FeedCycle, Sequences, SequencesExt

CONSTANTS
    Feed,        \* the feeds
    Aliases,     \* the configured aliases in order, each a sequence of feeds
    Target,      \* the targets, a sequence of names
    Retries,     \* how often an attempt is repeated
    MaxFaults    \* bound on crashes and on failures of stores and targets

ASSUME CycleOfManyAssumption ==
    /\ Aliases \in Seq(Seq(Feed))
    /\ Target \in Seq(ToSet(Target))
    /\ Retries \in Nat /\ MaxFaults \in Nat

Alias == DOMAIN Aliases
FeedsOf(a) == ToSet(Aliases[a])
Used == UNION {FeedsOf(a) : a \in Alias}

VARIABLES
    state,      \* state[f]: the durable record of f
    snapshot,   \* snapshot[f]: its last-good list
    published,  \* published[t][a]: the list of alias a on target t
    pc,         \* what the run does: "idle", "feeds", "fetch" or "targets"
    dry,        \* it is a dry run
    alias,      \* the alias whose feeds it goes through, 0 before the first
    todo,       \* the feeds of that alias it has not come to
    attempt,    \* the attempts at the feed it fetches that have failed
    outcomes,   \* what each feed it has done contributes
    target,     \* the target it applies, 0 before the first
    written,    \* how many lists it has written there
    exit,       \* the exit code of the last run, "none" when it has none
    faults,     \* how many faults there have been
    asked,      \* history: the requests of this run, by feed
    met,        \* history: the bodies this run was served
    unmodified, \* history: the feeds whose copy a 304 confirmed to it
    fallback    \* history: the last-good lists when it began

vars == <<state, snapshot, published, pc, dry, alias, todo, attempt,
          outcomes, target, written, exit, faults, asked, met, unmodified,
          fallback>>

store == <<state, snapshot>>
history == <<asked, met, unmodified, fallback>>

-----------------------------------------------------------------------------

Init ==
    /\ state = [f \in Feed |-> ZeroState]
    /\ snapshot = [f \in Feed |-> {}]
    /\ published = [t \in ToSet(Target) |-> [a \in Alias |-> {}]]
    /\ pc = "idle" /\ dry = FALSE
    /\ alias = 0 /\ todo = << >> /\ attempt = 0 /\ outcomes = << >>
    /\ target = 0 /\ written = 0
    /\ exit = "none" /\ faults = 0
    /\ asked = [f \in Feed |-> 0] /\ met = [f \in Feed |-> NoBody]
    /\ unmodified = {} /\ fallback = snapshot

-----------------------------------------------------------------------------
(* The run leaves with an exit code, or is killed without one. *)
End(code) ==
    /\ pc' = "idle" /\ exit' = code
    /\ alias' = 0 /\ todo' = << >> /\ attempt' = 0
    /\ outcomes' = << >> /\ target' = 0 /\ written' = 0

Fault == faults < MaxFaults /\ faults' = faults + 1

Start(rehearse) ==
    /\ pc = "idle"
    /\ pc' = "feeds" /\ dry' = rehearse /\ exit' = "none"
    /\ asked' = [f \in Feed |-> 0] /\ met' = [f \in Feed |-> NoBody]
    /\ unmodified' = {} /\ fallback' = snapshot
    /\ UNCHANGED <<store, published, alias, todo, attempt, outcomes, target,
                   written, faults>>

NextAlias ==
    /\ pc = "feeds" /\ todo = << >> /\ alias < Len(Aliases)
    /\ alias' = alias + 1
    /\ todo' = Aliases[alias + 1]
    /\ UNCHANGED <<store, published, pc, dry, attempt, outcomes, target,
                   written, exit, faults, history>>

(* A feed that an earlier alias has in common is done. *)
Skip ==
    /\ pc = "feeds" /\ todo # << >>
    /\ Head(todo) \in DOMAIN outcomes
    /\ todo' = Tail(todo)
    /\ UNCHANGED <<store, published, pc, dry, alias, attempt, outcomes,
                   target, written, exit, faults, history>>

Load ==
    /\ pc = "feeds" /\ todo # << >>
    /\ Head(todo) \notin DOMAIN outcomes
    /\ pc' = "fetch"
    /\ UNCHANGED <<store, published, dry, alias, todo, attempt, outcomes,
                   target, written, exit, faults, history>>

(* The record cannot be read. *)
LoadFails ==
    /\ pc = "feeds" /\ todo # << >>
    /\ Head(todo) \notin DOMAIN outcomes
    /\ Fault /\ End("hard error")
    /\ UNCHANGED <<store, published, dry, history>>

-----------------------------------------------------------------------------
(* One feed. *)

(* What the run knows of a feed before the answer. *)
Asked(f) == [NoRun EXCEPT !.in.now = 1, !.in.prev = state[f]]

Contributes(f, r) ==
    [prefixes |-> Consumed(r.in, snapshot[f]), status |-> Verdict(r.in)]

(* The verdict, then, unless it is a dry run, the record and perhaps the   *)
(* copy.                                                                   *)
Judge(f, r) ==
    /\ pc' = "feeds" /\ attempt' = 0
    /\ todo' = Tail(todo)
    /\ outcomes' = [g \in DOMAIN outcomes \union {f} |->
                       IF g = f THEN Contributes(f, r) ELSE outcomes[g]]
    /\ IF dry THEN UNCHANGED store
       ELSE /\ state' = [state EXCEPT ![f] = ToSave(r)]
            /\ snapshot' = IF Keeps(r.in)
                           THEN [snapshot EXCEPT ![f] = Clean(r.in.list)]
                           ELSE snapshot
    /\ UNCHANGED <<published, dry, alias, target, written, exit, faults,
                   fallback>>

Request(f) ==
    /\ pc = "fetch" /\ f = Head(todo)
    /\ asked' = [asked EXCEPT ![f] = @ + 1]

(* A provider may serve any body at any time. *)
Answered(f, b) ==
    /\ Request(f)
    /\ met' = [met EXCEPT ![f] = b]
    /\ Judge(f, WithBody(Asked(f), b))
    /\ UNCHANGED unmodified

(* It may answer 304 for the body whose validator it was sent.  The copy   *)
(* is judged and goes out again, whichever body it is of.                  *)
NotModified(f, b) ==
    /\ Request(f) /\ MayAnswer304(state[f], b)
    /\ unmodified' = unmodified \union {f}
    /\ Judge(f, WithCached(With304(Asked(f), b), snapshot[f]))
    /\ UNCHANGED met

(* A 4xx, a body that is too large, a redirect to http. *)
Refused(f) ==
    /\ Request(f)
    /\ Judge(f, WithError(Asked(f)))
    /\ UNCHANGED <<met, unmodified>>

(* Mutants: one attempt more than configured; after the last the count     *)
(* starts again.                                                           *)
TimedOutOnceMore(f) ==
    /\ Request(f)
    /\ IF asked[f] <= Retries
       THEN /\ attempt' = IF attempt < Retries THEN attempt + 1 ELSE attempt
            /\ UNCHANGED <<store, published, pc, dry, alias, todo, outcomes,
                           target, written, exit, faults, fallback>>
       ELSE Judge(f, WithError(Asked(f)))
    /\ UNCHANGED <<met, unmodified>>

TimedOutForEver(f) ==
    /\ pc = "fetch" /\ f = Head(todo)
    /\ attempt' = (attempt + 1) % (Retries + 1)
    /\ UNCHANGED <<store, published, pc, dry, alias, todo, outcomes, target,
                   written, exit, faults, history>>

(* A 5xx, a timeout, a broken connection: wait and try again, so many      *)
(* times.                                                                  *)
TimedOut(f) ==
    /\ Request(f)
    /\ IF attempt < Retries
       THEN /\ attempt' = attempt + 1
            /\ UNCHANGED <<store, published, pc, dry, alias, todo, outcomes,
                           target, written, exit, faults, fallback>>
       ELSE Judge(f, WithError(Asked(f)))
    /\ UNCHANGED <<met, unmodified>>

(* The cached copy cannot be read, the record cannot be written, or the    *)
(* copy behind it, which a 304 never gets to.  That ends the run, with the *)
(* records of the feeds before it saved.                                   *)
StoreFails(f, b) ==
    /\ Request(f)
    /\ Fault /\ End("hard error")
    /\ LET r == WithBody(Asked(f), b)
       IN  state' \in {state} \union
               (IF ~dry /\ Keeps(r.in)
                THEN {[state EXCEPT ![f] = ToSave(r)]} ELSE {})
    /\ UNCHANGED <<snapshot, published, dry, met, unmodified, fallback>>

-----------------------------------------------------------------------------
(* Aliases and targets. *)

(* Mutant: a feed that is not healthy contributes nothing. *)
ListOfHealthy(a) ==
    UNION {IF outcomes[f].status = "OK" THEN outcomes[f].prefixes ELSE {} :
               f \in FeedsOf(a)}

ListOf(a) ==
    UNION {outcomes[f].prefixes : f \in DOMAIN outcomes \intersect FeedsOf(a)}

Build ==
    /\ pc = "feeds" /\ todo = << >> /\ alias = Len(Aliases)
    /\ pc' = "targets" /\ target' = 1 /\ written' = 0
    /\ UNCHANGED <<store, published, dry, alias, todo, attempt, outcomes,
                   exit, faults, history>>

(* The next list of the target, if it has one to come. *)
Writing ==
    /\ pc = "targets"
    /\ target <= Len(Target) /\ written < Len(Aliases)

Published(t, a) == [published EXCEPT ![Target[t]][a] = ListOf(a)]

(* Mutant: the targets are applied although the run is a rehearsal. *)
WriteAlways ==
    /\ Writing
    /\ written' = written + 1
    /\ published' = Published(target, written + 1)
    /\ UNCHANGED <<store, pc, dry, alias, todo, attempt, outcomes, target,
                   exit, faults, history>>

(* A dry run asks the target what it would do. *)
Write ==
    /\ Writing
    /\ written' = written + 1
    /\ published' = IF dry THEN published ELSE Published(target, written + 1)
    /\ UNCHANGED <<store, pc, dry, alias, todo, attempt, outcomes, target,
                   exit, faults, history>>

NextTarget ==
    /\ pc = "targets"
    /\ target <= Len(Target) /\ written = Len(Aliases)
    /\ target' = target + 1 /\ written' = 0
    /\ UNCHANGED <<store, published, pc, dry, alias, todo, attempt, outcomes,
                   exit, faults, history>>

(* Mutant: the run goes on without the list. *)
WriteFailsQuietly ==
    /\ Writing
    /\ Fault /\ written' = written + 1
    /\ UNCHANGED <<store, published, pc, dry, alias, todo, attempt, outcomes,
                   target, exit, history>>

(* A target that fails ends the run; what was written stays. *)
WriteFails ==
    /\ pc = "targets" /\ target <= Len(Target)
    /\ Fault /\ End("hard error")
    /\ UNCHANGED <<store, published, dry, history>>

Healthy == \A f \in DOMAIN outcomes : outcomes[f].status = "OK"

Finish ==
    /\ pc = "targets" /\ target > Len(Target)
    /\ End(IF Healthy THEN "ok" ELSE "unhealthy")
    /\ UNCHANGED <<store, published, dry, faults, history>>

(* The process is killed. *)
Crash ==
    /\ pc # "idle"
    /\ Fault /\ End("none")
    /\ UNCHANGED <<store, published, dry, history>>

-----------------------------------------------------------------------------

Fetch(f) ==
    \/ \E b \in Body : Answered(f, b) \/ NotModified(f, b)
    \/ Refused(f) \/ TimedOut(f)

Proceed ==
    \/ NextAlias \/ Skip \/ Load \/ Build \/ Write \/ NextTarget \/ Finish
    \/ \E f \in Feed : Fetch(f)

Next ==
    \/ \E rehearse \in BOOLEAN : Start(rehearse)
    \/ Proceed
    \/ LoadFails \/ WriteFails \/ Crash
    \/ \E f \in Feed, b \in Body : StoreFails(f, b)

Spec == Init /\ [][Next]_vars

(* A run goes on.  Nothing is asked of providers: a request that is not    *)
(* answered times out.                                                     *)
FairSpec == Spec /\ WF_vars(Proceed)
=============================================================================
