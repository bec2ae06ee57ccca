----------------------------- MODULE FileTarget -----------------------------
(***************************************************************************)
(* internal/target's file target: one <alias>.txt per alias set in an      *)
(* output directory that every run of framedrag may write to at once and   *)
(* that the HTTP server reads at any moment.  A run first plans, reading   *)
(* one file after the other, then applies the plan one file at a time.     *)
(*                                                                         *)
(* An open file keeps its content when its name is replaced or removed, so *)
(* what a reader sees is the value of dir[f] when it opened f.  Files that *)
(* the target never touches (directories, names without .txt, temporary    *)
(* files a crash has left) are not part of dir.                            *)
(***************************************************************************)
EXTENDS Integers, Sequences, SequencesExt, FiniteSets

CONSTANTS
    Name,        \* alias names, numbered in the order sort.Strings gives
    Content,     \* the lists a file can hold
    Absent,      \* there is no such file
    Partial,     \* a file that is not completely written
    Sets,        \* the alias sets a run may be given
    Proc,        \* the processes that may run on the directory
    MaxStops     \* bound on the runs that stop half way

AliasSet == [name : Name, content : Content]

ASSUME TargetAssumption ==
    /\ Name \subseteq Nat /\ IsFiniteSet(Name)
    /\ Absent \notin Content /\ Partial \notin Content /\ Absent # Partial
    /\ \A sets \in Sets :
          /\ sets \in Seq(AliasSet)
          /\ \A i, j \in DOMAIN sets :
                sets[i].name = sets[j].name => i = j
    /\ Proc # {} /\ MaxStops \in Nat

VARIABLES
    dir,     \* dir[f]: what <f>.txt holds
    temp,    \* temp[p]: the temporary file of process p
    pc,      \* pc[p]: what p is doing
    dry,     \* the processes whose run is a dry run
    sets,    \* sets[p]: the alias sets p was given
    plans,   \* plans[p]: the changes p has planned so far
    report,  \* report[p]: the changes p reports
    stops,   \* how many runs have stopped half way
    before,  \* history: the directory when the run of p began
    alone    \* history: no other run has written since then

vars == <<dir, temp, pc, dry, sets, plans, report, stops, before, alone>>

-----------------------------------------------------------------------------

Kinds == {"create", "update", "delete", "unchanged"}

Change == [file : Name, kind : Kinds, content : Content \union {Absent}]

(* Part of the plan is still to be carried out. *)
Applying(p) == pc[p] = "apply" /\ Len(report[p]) < Len(plans[p])

TypeOK ==
    /\ dir \in [Name -> Content \union {Absent, Partial}]
    /\ temp \in [Proc -> Content \union {Absent, Partial}]
    /\ \A p \in Proc : temp[p] # Absent => Applying(p)
    /\ pc \in [Proc -> {"idle", "plan", "apply", "done", "stopped"}]
    /\ dry \in SUBSET Proc
    /\ sets \in [Proc -> Sets \union {<< >>}]
    /\ plans \in [Proc -> Seq(Change)]
    /\ report \in [Proc -> Seq(Change)]
    /\ stops \in Nat
    /\ before \in [Proc -> [Name -> Content \union {Absent}]]
    /\ alone \in [Proc -> BOOLEAN]

Init ==
    /\ dir \in [Name -> Content \union {Absent}]
    /\ temp = [p \in Proc |-> Absent]
    /\ pc = [p \in Proc |-> "idle"]
    /\ dry = {}
    /\ sets = [p \in Proc |-> << >>]
    /\ plans = [p \in Proc |-> << >>]
    /\ report = [p \in Proc |-> << >>]
    /\ stops = 0
    /\ before = [p \in Proc |-> dir]
    /\ alone = [p \in Proc |-> FALSE]

Active == {p \in Proc : pc[p] \in {"plan", "apply"}}
Writing == Active \ dry

-----------------------------------------------------------------------------
(* Planning only reads. *)

Begin(p, given, rehearse) ==
    /\ p \notin Active
    /\ pc' = [pc EXCEPT ![p] = "plan"]
    /\ dry' = IF rehearse THEN dry \union {p} ELSE dry \ {p}
    /\ sets' = [sets EXCEPT ![p] = given]
    /\ plans' = [plans EXCEPT ![p] = << >>]
    /\ report' = [report EXCEPT ![p] = << >>]
    /\ before' = [before EXCEPT ![p] = dir]
    /\ alone' = [q \in Proc |->
                    IF q = p THEN Writing = {}
                    ELSE alone[q] /\ rehearse]
    /\ UNCHANGED <<dir, temp, stops>>

(* Mutant: a list that is there is taken to be up to date. *)
KindIfThere(old, new) ==
    IF old = Absent THEN "create" ELSE "unchanged"

Kind(old, new) ==
    IF old = Absent THEN "create"
    ELSE IF old = new THEN "unchanged"
    ELSE "update"

(* The next alias set is compared with the file of its name. *)
PlanSet(p) ==
    /\ pc[p] = "plan"
    /\ Len(plans[p]) < Len(sets[p])
    /\ LET s == sets[p][Len(plans[p]) + 1]
       IN  plans' = [plans EXCEPT ![p] = Append(@,
               [file    |-> s.name,
                kind    |-> Kind(dir[s.name], s.content),
                content |-> s.content])]
    /\ UNCHANGED <<dir, temp, pc, dry, sets, report, stops, before, alone>>

NamesOf(given) == {given[i].name : i \in DOMAIN given}

(* Files that no alias set names are stale; they are removed in order. *)
StaleFiles(given) == {f \in Name : dir[f] # Absent} \ NamesOf(given)

InOrder(files) ==
    {s \in [1 .. Cardinality(files) -> files] :
        /\ Range(s) = files
        /\ \A i, j \in DOMAIN s : i < j => s[i] < s[j]}

Removals(order) ==
    [i \in DOMAIN order |->
        [file |-> order[i], kind |-> "delete", content |-> Absent]]

(* The directory is listed last.  A dry run reports the plan and is done. *)
PlanStale(p) ==
    /\ pc[p] = "plan"
    /\ Len(plans[p]) = Len(sets[p])
    /\ \E order \in InOrder(StaleFiles(sets[p])) :
          LET all == plans[p] \o Removals(order)
          IN  /\ plans' = [plans EXCEPT ![p] = all]
              /\ report' = IF p \in dry
                           THEN [report EXCEPT ![p] = all] ELSE report
    /\ pc' = [pc EXCEPT ![p] = IF p \in dry THEN "done" ELSE "apply"]
    /\ UNCHANGED <<dir, temp, dry, sets, stops, before, alone>>

-----------------------------------------------------------------------------
(* Applying: the plan is carried out in order, and reported as it goes. *)

Current(p) == plans[p][Len(report[p]) + 1]

Report(p) == report' = [report EXCEPT ![p] = Append(@, Current(p))]

Skip(p) ==
    /\ Applying(p)
    /\ Current(p).kind = "unchanged"
    /\ Report(p)
    /\ UNCHANGED <<dir, temp, pc, dry, sets, plans, stops, before, alone>>

(* Mutants: the file itself is opened for writing; the old file is removed *)
(* before the new one is prepared.                                         *)
CreateInPlace(p) ==
    /\ Applying(p)
    /\ Current(p).kind \in {"create", "update"}
    /\ temp[p] = Absent
    /\ temp' = [temp EXCEPT ![p] = Partial]
    /\ dir' = [dir EXCEPT ![Current(p).file] = Partial]
    /\ UNCHANGED <<pc, dry, sets, plans, report, stops, before, alone>>

CreateAfterRemove(p) ==
    /\ Applying(p)
    /\ Current(p).kind \in {"create", "update"}
    /\ temp[p] = Absent
    /\ temp' = [temp EXCEPT ![p] = Partial]
    /\ dir' = [dir EXCEPT ![Current(p).file] = Absent]
    /\ UNCHANGED <<pc, dry, sets, plans, report, stops, before, alone>>

(* A new list is written to a temporary file and renamed into place. *)
CreateTemp(p) ==
    /\ Applying(p)
    /\ Current(p).kind \in {"create", "update"}
    /\ temp[p] = Absent
    /\ temp' = [temp EXCEPT ![p] = Partial]
    /\ UNCHANGED <<dir, pc, dry, sets, plans, report, stops, before, alone>>

WriteTemp(p) ==
    /\ Applying(p)
    /\ temp[p] = Partial
    /\ temp' = [temp EXCEPT ![p] = Current(p).content]
    /\ UNCHANGED <<dir, pc, dry, sets, plans, report, stops, before, alone>>

(* Mutant: the temporary file is copied and stays. *)
RenameAsCopy(p) ==
    /\ Applying(p)
    /\ temp[p] \in Content
    /\ dir' = [dir EXCEPT ![Current(p).file] = temp[p]]
    /\ Report(p)
    /\ UNCHANGED <<temp, pc, dry, sets, plans, stops, before, alone>>

Rename(p) ==
    /\ Applying(p)
    /\ temp[p] \in Content
    /\ dir' = [dir EXCEPT ![Current(p).file] = temp[p]]
    /\ temp' = [temp EXCEPT ![p] = Absent]
    /\ Report(p)
    /\ UNCHANGED <<pc, dry, sets, plans, stops, before, alone>>

(* Removing a file that another run has removed already is no error. *)
RemoveStale(p) ==
    /\ Applying(p)
    /\ Current(p).kind = "delete"
    /\ dir' = [dir EXCEPT ![Current(p).file] = Absent]
    /\ Report(p)
    /\ UNCHANGED <<temp, pc, dry, sets, plans, stops, before, alone>>

Finish(p) ==
    /\ pc[p] = "apply"
    /\ Len(report[p]) = Len(plans[p])
    /\ pc' = [pc EXCEPT ![p] = "done"]
    /\ UNCHANGED <<dir, temp, dry, sets, plans, report, stops, before, alone>>

(* A cancelled context, an error or a crash.  The temporary file is        *)
(* removed or stays behind under a name nobody reads.                      *)
Stop(p) ==
    /\ p \in Active
    /\ stops < MaxStops
    /\ stops' = stops + 1
    /\ pc' = [pc EXCEPT ![p] = "stopped"]
    /\ temp' = [temp EXCEPT ![p] = Absent]
    /\ UNCHANGED <<dir, dry, sets, plans, report, before, alone>>

-----------------------------------------------------------------------------

Next ==
    \E p \in Proc :
        \/ \E given \in Sets, rehearse \in BOOLEAN : Begin(p, given, rehearse)
        \/ PlanSet(p) \/ PlanStale(p)
        \/ Skip(p) \/ CreateTemp(p) \/ WriteTemp(p) \/ Rename(p) \/ RemoveStale(p)
        \/ Finish(p) \/ Stop(p)

Spec == Init /\ [][Next]_vars
=============================================================================
