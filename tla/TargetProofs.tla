---------------------------- MODULE TargetProofs ----------------------------
(***************************************************************************)
(* What readers of the output directory may rely on, for any names, lists, *)
(* configurations and number of runs at a time.                            *)
(*                                                                         *)
(* The invariant adds to the types that a plan deletes no file of its own  *)
(* configuration and writes complete lists only, and that a temporary file *)
(* belongs to the change that is being carried out.                        *)
(***************************************************************************)
EXTENDS TargetSafety, FiniteSetTheorems, TLAPS

Sound(c, given) ==
    /\ c.kind = "delete" => c.file \notin NamesOf(given)
    /\ c.kind \in {"create", "update"} => c.content \in Content

Planned(p) ==
    /\ pc[p] \in {"plan", "apply"} => sets[p] \in Sets
    /\ \A i \in DOMAIN plans[p] : Sound(plans[p][i], sets[p])
    /\ temp[p] # Absent => Applying(p) /\ Current(p).kind \in {"create", "update"}

Types ==
    /\ dir \in [Name -> Content \union {Absent}]
    /\ temp \in [Proc -> Content \union {Absent, Partial}]
    /\ pc \in [Proc -> {"idle", "plan", "apply", "done", "stopped"}]
    /\ dry \in SUBSET Proc
    /\ sets \in [Proc -> Sets \union {<< >>}]
    /\ plans \in [Proc -> Seq(Change)]
    /\ report \in [Proc -> Seq(Change)]
    /\ stops \in Nat
    /\ before \in [Proc -> [Name -> Content \union {Absent}]]
    /\ alone \in [Proc -> BOOLEAN]

IInv == Types /\ \A p \in Proc : Planned(p)

-----------------------------------------------------------------------------
(* The initial states. *)

(* Nothing is planned and nothing is written.                              *)
LEMMA InitInvariant == Init => IInv
<1> SUFFICES ASSUME Init PROVE IInv
  OBVIOUS
<1>1. << >> \in Seq(Change)
  OBVIOUS
<1>2. Types
  BY <1>1 DEF Init, Types
<1>3. ASSUME NEW p \in Proc PROVE Planned(p)
  BY DEF Init, Planned
<1> QED
  BY <1>2, <1>3 DEF IInv

-----------------------------------------------------------------------------
(* Planning. *)

(* A new run starts with an empty plan.                                    *)
LEMMA Begins ==
    ASSUME IInv, NEW p \in Proc, NEW given \in Sets, NEW rehearse \in BOOLEAN,
           Begin(p, given, rehearse)
    PROVE  IInv'
<1>1. << >> \in Seq(Change)
  OBVIOUS
<1>2. temp[p] = Absent
  BY DEF IInv, Types, Planned, Applying, Begin, Active
<1>3. Types'
  <2>1. alone' \in [Proc -> BOOLEAN]
    BY DEF Begin, IInv, Types
  <2>2. dry' \in SUBSET Proc
    BY DEF Begin, IInv, Types
  <2>3. before' \in [Proc -> [Name -> Content \union {Absent}]]
    BY DEF Begin, IInv, Types
  <2> QED
    BY <1>1, <2>1, <2>2, <2>3 DEF Begin, IInv, Types
<1>4. ASSUME NEW q \in Proc PROVE Planned(q)'
  <2>1. CASE q = p
    BY <1>2, <2>1 DEF Begin, IInv, Types, Planned
  <2>2. CASE q # p
    BY <2>2 DEF Begin, IInv, Types, Planned, Applying, Current
  <2> QED
    BY <2>1, <2>2
<1> QED
  BY <1>3, <1>4 DEF IInv

(* A set is planned as a change to its own file, with its complete list.   *)
LEMMA PlansSet ==
    ASSUME IInv, NEW p \in Proc, PlanSet(p)
    PROVE  IInv'
<1> DEFINE s == sets[p][Len(plans[p]) + 1]
           c == [file |-> s.name, kind |-> Kind(dir[s.name], s.content),
                 content |-> s.content]
<1>1. plans[p] \in Seq(Change) /\ sets[p] \in Sets
  BY DEF IInv, Types, Planned, PlanSet
<1>2. sets[p] \in Seq(AliasSet)
  BY <1>1, TargetAssumption
<1>3. s \in AliasSet
  BY <1>1, <1>2 DEF PlanSet
<1>4. c.kind \in {"create", "update", "unchanged"} /\ c.content \in Content
  BY <1>3 DEF AliasSet, Kind
<1>5. c \in Change
  BY <1>3, <1>4 DEF AliasSet, Change, Kinds
<1> HIDE DEF c
<1>6. plans' = [plans EXCEPT ![p] = Append(plans[p], c)]
  BY DEF PlanSet, c
<1>7. Types'
  BY <1>1, <1>5, <1>6 DEF PlanSet, IInv, Types
<1>8. ASSUME NEW q \in Proc PROVE Planned(q)'
  <2>1. CASE q = p
    <3>1. plans'[p] = Append(plans[p], c) /\ sets' = sets /\ pc[p] = "plan"
          /\ pc' = pc /\ temp' = temp
      BY <1>6 DEF PlanSet, IInv, Types
    <3>2. ASSUME NEW i \in DOMAIN plans'[p] PROVE Sound(plans'[p][i], sets[p])
      <4>1. CASE i = Len(plans[p]) + 1
        <5>1. plans'[p][i] = c
          BY <1>1, <1>5, <3>1, <4>1
        <5> QED
          BY <1>4, <5>1 DEF Sound
      <4>2. CASE i # Len(plans[p]) + 1
        <5>1. i \in DOMAIN plans[p] /\ plans'[p][i] = plans[p][i]
          BY <1>1, <1>5, <3>1, <3>2, <4>2
        <5> QED
          BY <5>1 DEF IInv, Planned
      <4> QED
        BY <4>1, <4>2
    <3>3. temp[p] = Absent
      BY <3>1 DEF IInv, Planned, Applying
    <3> QED
      BY <1>1, <2>1, <3>1, <3>2, <3>3 DEF Planned
  <2>2. CASE q # p
    BY <1>6, <2>2 DEF PlanSet, IInv, Types, Planned, Applying, Current
  <2> QED
    BY <2>1, <2>2
<1> QED
  BY <1>7, <1>8 DEF IInv

(* The stale files that are planned to be deleted are not of this          *)
(* configuration.                                                          *)
LEMMA PlansStale ==
    ASSUME IInv, NEW p \in Proc, PlanStale(p)
    PROVE  IInv'
<1> DEFINE files == StaleFiles(sets[p])
<1>1. files \subseteq Name /\ \A f \in files : f \notin NamesOf(sets[p])
  BY DEF StaleFiles
<1>2. Cardinality(files) \in Nat
  BY <1>1, TargetAssumption, FS_Subset, FS_CardinalityType
<1>3. PICK order \in InOrder(files) :
         /\ plans' = [plans EXCEPT ![p] = plans[p] \o Removals(order)]
         /\ report' = IF p \in dry
                      THEN [report EXCEPT ![p] = plans[p] \o Removals(order)]
                      ELSE report
  BY DEF PlanStale
<1> HIDE DEF files
<1>4. order \in [1 .. Cardinality(files) -> files]
  BY DEF InOrder
<1>5. Removals(order) \in Seq(Change)
  <2>1. DOMAIN order = 1 .. Cardinality(files)
    BY <1>4
  <2>2. ASSUME NEW i \in 1 .. Cardinality(files)
        PROVE  [file |-> order[i], kind |-> "delete", content |-> Absent] \in Change
    <3>1. order[i] \in Name
      BY <1>1, <1>4
    <3> QED
      BY <3>1 DEF Change, Kinds
  <2>3. Removals(order) \in [1 .. Cardinality(files) -> Change]
    BY <2>1, <2>2 DEF Removals
  <2> QED
    BY <1>2, <2>3
<1>6. \A i \in DOMAIN Removals(order) : Sound(Removals(order)[i], sets[p])
  BY <1>1, <1>4 DEF Removals, Sound
<1>7. plans[p] \in Seq(Change)
  BY DEF IInv, Types
<1> DEFINE all == plans[p] \o Removals(order)
<1>8. all \in Seq(Change) /\ \A i \in DOMAIN all : Sound(all[i], sets[p])
  <2>1. all \in Seq(Change)
    BY <1>5, <1>7
  <2>2. ASSUME NEW i \in DOMAIN all PROVE Sound(all[i], sets[p])
    <3>1. i \in 1 .. Len(plans[p]) + Len(Removals(order))
      BY <1>5, <1>7
    <3>2. CASE i <= Len(plans[p])
      <4>1. i \in DOMAIN plans[p] /\ all[i] = plans[p][i]
        BY <1>5, <1>7, <3>1, <3>2
      <4> QED
        BY <4>1 DEF IInv, Planned
    <3>3. CASE i > Len(plans[p])
      <4>1. /\ i - Len(plans[p]) \in DOMAIN Removals(order)
            /\ all[i] = Removals(order)[i - Len(plans[p])]
        BY <1>5, <1>7, <3>1, <3>3
      <4> QED
        BY <1>6, <4>1
    <3> QED
      BY <1>7, <3>1, <3>2, <3>3
  <2> QED
    BY <2>1, <2>2
<1> HIDE DEF all
<1>9. Types'
  BY <1>3, <1>8 DEF PlanStale, IInv, Types, all
<1>10. ASSUME NEW q \in Proc PROVE Planned(q)'
  <2>1. CASE q = p
    <3>1. /\ plans'[p] = all /\ sets'[p] = sets[p] /\ sets[p] \in Sets
          /\ temp'[p] = temp[p]
      BY <1>3 DEF PlanStale, IInv, Types, Planned, all
    <3>2. temp[p] = Absent
      BY DEF PlanStale, IInv, Planned, Applying
    <3> QED
      BY <1>8, <2>1, <3>1, <3>2 DEF Planned
  <2>2. CASE q # p
    <3>1. /\ plans'[q] = plans[q] /\ report'[q] = report[q]
          /\ pc'[q] = pc[q] /\ sets' = sets /\ temp' = temp
      BY <1>3, <2>2 DEF PlanStale, IInv, Types
    <3> QED
      BY <3>1 DEF IInv, Planned, Applying, Current
  <2> QED
    BY <2>1, <2>2
<1> QED
  BY <1>9, <1>10 DEF IInv
-----------------------------------------------------------------------------
(* Applying. *)

(* The change that is being carried out is one of the plan.                *)
LEMMA CurrentIsPlanned ==
    ASSUME IInv, NEW p \in Proc, Applying(p)
    PROVE  Current(p) \in Change /\ Sound(Current(p), sets[p]) /\ sets[p] \in Sets
<1>1. plans[p] \in Seq(Change) /\ report[p] \in Seq(Change)
  BY DEF IInv, Types
<1>2. Len(report[p]) + 1 \in DOMAIN plans[p]
  BY <1>1 DEF Applying
<1> QED
  BY <1>1, <1>2 DEF Current, Applying, IInv, Planned

(* A change that is done is reported, and its temporary file is gone.      *)
LEMMA Reports ==
    ASSUME IInv, NEW p \in Proc, Applying(p), Report(p),
           temp'[p] = Absent,
           temp' \in [Proc -> Content \union {Absent, Partial}],
           \A q \in Proc \ {p} : temp'[q] = temp[q],
           dir' \in [Name -> Content \union {Absent}],
           UNCHANGED <<pc, dry, sets, plans, stops, before, alone>>
    PROVE  IInv'
<1>1. Current(p) \in Change /\ report[p] \in Seq(Change)
  BY CurrentIsPlanned DEF IInv, Types
<1>2. Append(report[p], Current(p)) \in Seq(Change)
  BY <1>1
<1>3. report' = [report EXCEPT ![p] = Append(report[p], Current(p))]
  BY DEF Report
<1>4. Types'
  BY <1>2, <1>3 DEF IInv, Types
<1>5. ASSUME NEW q \in Proc PROVE Planned(q)'
  <2>1. CASE q = p
    BY <2>1 DEF IInv, Planned
  <2>2. CASE q # p
    BY <1>3, <2>2 DEF IInv, Types, Planned, Applying, Current
  <2> QED
    BY <2>1, <2>2
<1> QED
  BY <1>4, <1>5 DEF IInv

(* Only the temporary file changes, and it belongs to a new list.          *)
LEMMA Prepares ==
    ASSUME IInv, NEW p \in Proc, Applying(p),
           NEW c \in Content \union {Absent, Partial},
           Current(p).kind \in {"create", "update"},
           temp' = [temp EXCEPT ![p] = c],
           UNCHANGED <<dir, pc, dry, sets, plans, report, stops, before, alone>>
    PROVE  IInv'
<1>1. Types'
  BY DEF IInv, Types
<1>2. ASSUME NEW q \in Proc PROVE Planned(q)'
  BY DEF IInv, Types, Planned, Applying, Current
<1> QED
  BY <1>1, <1>2 DEF IInv

(* Every step keeps the invariant.                                         *)
LEMMA Step == IInv /\ [Next]_vars => IInv'
<1> SUFFICES ASSUME IInv, [Next]_vars PROVE IInv'
  OBVIOUS
<1>0. temp \in [Proc -> Content \union {Absent, Partial}] /\ Types
  BY DEF IInv, Types
<1>1. ASSUME NEW p \in Proc, NEW given \in Sets, NEW rehearse \in BOOLEAN,
             Begin(p, given, rehearse)
      PROVE  IInv'
  BY <1>1, Begins
<1>2. ASSUME NEW p \in Proc, PlanSet(p) \/ PlanStale(p) PROVE IInv'
  BY <1>2, PlansSet, PlansStale
<1>3. ASSUME NEW p \in Proc, Skip(p) PROVE IInv'
  <2>1. temp[p] = Absent
    BY <1>3 DEF Skip, IInv, Planned
  <2> QED
    BY <1>0, <1>3, <2>1, Reports DEF Skip, Types
<1>4. ASSUME NEW p \in Proc, CreateTemp(p) PROVE IInv'
  BY <1>4, Prepares DEF CreateTemp
<1>5. ASSUME NEW p \in Proc, WriteTemp(p) PROVE IInv'
  <2>1. Current(p).content \in Content \union {Absent}
    BY <1>5, CurrentIsPlanned DEF WriteTemp, Change
  <2>2. temp[p] # Absent
    BY <1>5, TargetAssumption DEF WriteTemp
  <2>3. Current(p).kind \in {"create", "update"}
    BY <2>2, <1>5 DEF IInv, Planned
  <2> QED
    BY <1>5, <2>1, <2>3, Prepares DEF WriteTemp
<1>6. ASSUME NEW p \in Proc, Rename(p) PROVE IInv'
  <2>1. Current(p).file \in Name
    BY <1>6, CurrentIsPlanned DEF Rename, Change
  <2>2. dir' \in [Name -> Content \union {Absent}]
    BY <1>0, <1>6, <2>1 DEF Rename, Types
  <2>3. temp' = [temp EXCEPT ![p] = Absent]
    BY <1>6 DEF Rename
  <2>4. /\ temp'[p] = Absent
        /\ temp' \in [Proc -> Content \union {Absent, Partial}]
        /\ \A q \in Proc \ {p} : temp'[q] = temp[q]
    BY <1>0, <2>3
  <2> QED
    BY <1>6, <2>2, <2>4, Reports DEF Rename
<1>7. ASSUME NEW p \in Proc, RemoveStale(p) PROVE IInv'
  <2>1. Current(p).file \in Name
    BY <1>7, CurrentIsPlanned DEF RemoveStale, Change
  <2>2. dir' \in [Name -> Content \union {Absent}]
    BY <1>0, <1>7, <2>1 DEF RemoveStale, Types
  <2>3. temp[p] = Absent
    BY <1>7 DEF RemoveStale, IInv, Planned
  <2> QED
    BY <1>0, <1>7, <2>2, <2>3, Reports DEF RemoveStale
<1>8. ASSUME NEW p \in Proc, Finish(p) PROVE IInv'
  <2>1. temp[p] = Absent
    BY <1>8 DEF Finish, IInv, Planned, Applying
  <2>2. Types'
    BY <1>0, <1>8 DEF Finish, Types
  <2>3. ASSUME NEW q \in Proc PROVE Planned(q)'
    BY <1>8, <2>1 DEF Finish, IInv, Types, Planned, Applying, Current
  <2> QED
    BY <2>2, <2>3 DEF IInv
<1>9. ASSUME NEW p \in Proc, Stop(p) PROVE IInv'
  <2>1. Types'
    BY <1>0, <1>9 DEF Stop, Types
  <2>2. ASSUME NEW q \in Proc PROVE Planned(q)'
    BY <1>9 DEF Stop, IInv, Types, Planned, Applying, Current
  <2> QED
    BY <2>1, <2>2 DEF IInv
<1>10. CASE UNCHANGED vars
  BY <1>10 DEF vars, IInv, Types, Planned, Applying, Current
<1> QED
  BY <1>1, <1>2, <1>3, <1>4, <1>5, <1>6, <1>7, <1>8, <1>9, <1>10 DEF Next

-----------------------------------------------------------------------------
(* The theorems. *)

(* The invariant holds throughout.                                         *)
THEOREM Invariance == Spec => []IInv
BY InitInvariant, Step, PTL DEF Spec

(* Every variable of FileTarget keeps its type, and a temporary file       *)
(* belongs to a run that is applying its plan.                             *)
THEOREM TypeCorrect == Spec => []TypeOK
<1>1. IInv => TypeOK
  BY DEF IInv, Types, Planned, TypeOK
<1> QED
  BY <1>1, Invariance, PTL

(* "readers never observe a partial list" (file.go:257), however many runs *)
(* write to the directory and wherever they stop.                          *)
THEOREM ReadersSeeWholeLists == Spec => []NeverPartial
<1>1. IInv => NeverPartial
  BY TargetAssumption DEF IInv, Types, NeverPartial
<1> QED
  BY <1>1, Invariance, PTL

(* A list that every configuration has is never missing once it is there.  *)
THEOREM ListsStay == Spec => PublishedStays
<1>1. ASSUME IInv, [Next]_vars, NEW f \in Name, dir[f] # Absent,
             \A given \in Sets : f \in NamesOf(given)
      PROVE  dir'[f] # Absent
  <2>1. ASSUME NEW p \in Proc, Rename(p) PROVE dir'[f] # Absent
    BY <1>1, <2>1, TargetAssumption DEF Rename, IInv, Types
  <2>2. ASSUME NEW p \in Proc, RemoveStale(p) PROVE dir'[f] # Absent
    <3>1. Current(p).file # f
      BY <1>1, <2>2, CurrentIsPlanned DEF RemoveStale, Sound
    <3> QED
      BY <1>1, <2>2, <3>1 DEF RemoveStale, IInv, Types
  <2>3. ASSUME NEW p \in Proc,
               \/ \E given \in Sets, rehearse \in BOOLEAN : Begin(p, given, rehearse)
               \/ PlanSet(p) \/ PlanStale(p) \/ Skip(p) \/ CreateTemp(p)
               \/ WriteTemp(p) \/ Finish(p) \/ Stop(p)
        PROVE  dir' = dir
    BY <2>3 DEF Begin, PlanSet, PlanStale, Skip, CreateTemp, WriteTemp, Finish, Stop
  <2>4. CASE UNCHANGED vars
    BY <1>1, <2>4 DEF vars
  <2> QED
    BY <1>1, <2>1, <2>2, <2>3, <2>4 DEF Next
<1>2. IInv /\ [Next]_vars =>
        [\A f \in Name :
            (dir[f] # Absent /\ \A given \in Sets : f \in NamesOf(given)) =>
                dir'[f] # Absent]_dir
  BY <1>1
<1> QED
  BY <1>2, Invariance, PTL DEF PublishedStays, Spec
=============================================================================
