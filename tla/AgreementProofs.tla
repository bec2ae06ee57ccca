--------------------------- MODULE AgreementProofs ---------------------------
(***************************************************************************)
(* Runs that overlap leave, for each file, what one of them wanted, and a  *)
(* run that no other disturbs does and reports exactly what it should, for *)
(* any names, lists, configurations and number of runs at a time.          *)
(*                                                                         *)
(* A run has settled a file when it has looked at it and has no change of  *)
(* it left to make.  The run that is the last to settle a file finds it as *)
(* it wants it, or makes it so; after that nobody changes it.              *)
(*                                                                         *)
(* A run that is alone finds the directory that was there when it began    *)
(* until it changes it itself, change by change of its plan.               *)
(***************************************************************************)
EXTENDS TargetProofs

Matches(c, p) ==
    c.kind # "delete" =>
        c.file \in NamesOf(sets[p]) /\ c.content = Wanted(p, c.file)

Linked(p) ==
    /\ \A i \in DOMAIN plans[p] : Matches(plans[p][i], p)
    /\ Len(report[p]) <= Len(plans[p])
    /\ pc[p] = "plan" =>
          /\ Len(report[p]) = 0
          /\ Len(plans[p]) <= Len(sets[p])
          /\ \A i \in 1 .. Len(plans[p]) : plans[p][i].file = sets[p][i].name
    /\ (pc[p] = "done" /\ p \notin dry) => Len(report[p]) = Len(plans[p])
    /\ temp[p] \in Content => temp[p] = Current(p).content

Pending(p, f) ==
    \E i \in DOMAIN plans[p] :
        i > Len(report[p]) /\ plans[p][i].file = f /\ plans[p][i].kind # "unchanged"

Planning(p, f) == pc[p] = "plan" /\ \E i \in DOMAIN plans[p] : plans[p][i].file = f

Settled(p, f) ==
    /\ p \notin dry
    /\ pc[p] \in {"apply", "done"} \/ Planning(p, f)
    /\ ~Pending(p, f)

AgreedOn(f) ==
    (\A p \in Proc : Settled(p, f)) => \E p \in Proc : dir[f] = Wanted(p, f)

AInv ==
    /\ IInv
    /\ \A p \in Proc : Linked(p)
    /\ \A f \in Name : AgreedOn(f)
-----------------------------------------------------------------------------
(* What a run wants, and what is left alone. *)

(* Names are unique in a configuration, so what is wanted of one is what   *)
(* is given for it.                                                        *)
LEMMA WantedIsGiven ==
    ASSUME NEW p \in Proc, sets[p] \in Sets, NEW i \in DOMAIN sets[p]
    PROVE  /\ sets[p][i].name \in NamesOf(sets[p])
           /\ Wanted(p, sets[p][i].name) = sets[p][i].content
<1> DEFINE n == sets[p][i].name
           s == CHOOSE t \in Range(sets[p]) : t.name = n
<1>1. n \in NamesOf(sets[p])
  BY DEF NamesOf
<1>2. sets[p][i] \in Range(sets[p]) /\ sets[p][i].name = n
  BY DEF Range
<1>3. s \in Range(sets[p]) /\ s.name = n
  BY <1>2
<1>4. PICK j \in DOMAIN sets[p] : s = sets[p][j]
  BY <1>3 DEF Range
<1>5. j = i
  BY <1>3, <1>4, TargetAssumption
<1> QED
  BY <1>1, <1>4, <1>5 DEF Wanted

(* A run that a step does not touch.                                       *)
Untouched(q) ==
    /\ plans'[q] = plans[q] /\ report'[q] = report[q] /\ sets'[q] = sets[q]
    /\ pc'[q] = pc[q] /\ temp'[q] = temp[q]
    /\ (q \in dry)' <=> q \in dry

(* It stays as it was.                                                     *)
LEMMA UntouchedStays ==
    ASSUME NEW q \in Proc, Untouched(q)
    PROVE  /\ Linked(q) => Linked(q)'
           /\ \A f \in Name : Settled(q, f)' <=> Settled(q, f)
           /\ \A f \in Name : Wanted(q, f)' = Wanted(q, f)
<1>1. \A f \in Name : Wanted(q, f)' = Wanted(q, f)
  BY DEF Untouched, Wanted
<1>2. \A f \in Name : Settled(q, f)' <=> Settled(q, f)
  BY DEF Untouched, Settled, Planning, Pending
<1>3. ASSUME Linked(q) PROVE Linked(q)'
  <2>1. ASSUME NEW i \in DOMAIN plans'[q] PROVE Matches(plans[q][i], q)'
    BY <1>3, <2>1 DEF Untouched, Linked, Matches, Wanted
  <2> QED
    BY <1>3, <2>1 DEF Untouched, Linked, Current, Matches, Wanted
<1> QED
  BY <1>1, <1>2, <1>3

(* The run that acts has made the file what it wants.                      *)
LEMMA AgreesWith ==
    ASSUME NEW p \in Proc, NEW f \in Name, dir'[f] = Wanted(p, f)'
    PROVE  AgreedOn(f)'
BY DEF AgreedOn

(* The run that acts has something left to do with the file.               *)
LEMMA AgreesLater ==
    ASSUME NEW p \in Proc, NEW f \in Name, ~Settled(p, f)'
    PROVE  AgreedOn(f)'
BY DEF AgreedOn

(* The step has nothing to do with the file.                               *)
LEMMA AgreesStill ==
    ASSUME NEW p \in Proc, NEW f \in Name, AgreedOn(f),
           \A q \in Proc \ {p} : Untouched(q),
           dir'[f] = dir[f], sets'[p] = sets[p],
           Settled(p, f)' => Settled(p, f)
    PROVE  AgreedOn(f)'
<1>1. \A q \in Proc : Wanted(q, f)' = Wanted(q, f)
  <2>1. Wanted(p, f)' = Wanted(p, f)
    BY DEF Wanted
  <2> QED
    BY <2>1, UntouchedStays
<1>2. \A q \in Proc : Settled(q, f)' => Settled(q, f)
  BY UntouchedStays
<1> QED
  BY <1>1, <1>2 DEF AgreedOn

(* With the run that acts accounted for, the others follow.                *)
LEMMA Together ==
    ASSUME AInv, IInv', NEW p \in Proc, Linked(p)',
           \A q \in Proc \ {p} : Untouched(q),
           \A f \in Name : AgreedOn(f)'
    PROVE  AInv'
<1>1. \A q \in Proc : Linked(q)'
  BY UntouchedStays DEF AInv
<1> QED
  BY <1>1 DEF AInv

-----------------------------------------------------------------------------
(* The steps. *)

(* At first nobody has looked at anything.                                 *)
LEMMA AgreementInit == Init => AInv
<1> SUFFICES ASSUME Init PROVE AInv
  OBVIOUS
<1>1. \A p \in Proc : Linked(p)
  BY TargetAssumption DEF Init, Linked
<1>2. ASSUME NEW f \in Name PROVE AgreedOn(f)
  <2>1. PICK p \in Proc : TRUE
    BY TargetAssumption
  <2>2. ~Settled(p, f)
    BY DEF Init, Settled, Planning
  <2> QED
    BY <2>2 DEF AgreedOn
<1> QED
  BY <1>1, <1>2, InitInvariant DEF AInv

(* A new run has not looked at anything.                                   *)
LEMMA AgreementBegin ==
    ASSUME AInv, IInv', NEW p \in Proc, NEW given \in Sets,
           NEW rehearse \in BOOLEAN, Begin(p, given, rehearse)
    PROVE  AInv'
<1>1. /\ plans'[p] = << >> /\ report'[p] = << >> /\ pc'[p] = "plan"
      /\ temp'[p] = Absent
      /\ \A q \in Proc \ {p} : Untouched(q)
  BY DEF Begin, Active, AInv, IInv, Types, Planned, Applying, Untouched
<1>2. Linked(p)'
  <2>1. sets'[p] \in Seq(AliasSet)
    BY TargetAssumption DEF Begin, AInv, IInv, Types
  <2> QED
    BY <1>1, <2>1, TargetAssumption DEF Linked
<1>3. \A f \in Name : ~Settled(p, f)'
  BY <1>1 DEF Settled, Planning
<1> QED
  BY <1>1, <1>2, <1>3, AgreesLater, Together

(* One change is planned, for the next set.                                *)
NextSet(p) == sets[p][Len(plans[p]) + 1]

ChangeFor(s) == [file |-> s.name, kind |-> Kind(dir[s.name], s.content),
                 content |-> s.content]

(* The plan grows by the change for that set.                              *)
LEMMA SetIsPlanned ==
    ASSUME AInv, NEW p \in Proc, PlanSet(p)
    PROVE  LET s == NextSet(p)
               n == Len(plans[p]) + 1
           IN  /\ Len(sets[p]) \in Nat /\ s \in AliasSet /\ Len(plans[p]) \in Nat
               /\ s.name \in NamesOf(sets[p]) /\ Wanted(p, s.name) = s.content
               /\ plans'[p] = Append(plans[p], ChangeFor(s))
               /\ report'[p] = report[p] /\ sets'[p] = sets[p] /\ dir' = dir
               /\ pc[p] = "plan" /\ pc'[p] = "plan"
               /\ temp'[p] = temp[p] /\ dry' = dry
               /\ Len(plans[p]) < Len(sets[p])
               /\ \A q \in Proc \ {p} : Untouched(q)
               /\ Len(plans'[p]) = n
               /\ DOMAIN plans'[p] = 1 .. n /\ DOMAIN plans[p] = 1 .. n - 1
               /\ plans'[p][n] = ChangeFor(s)
               /\ \A i \in 1 .. n - 1 : plans'[p][i] = plans[p][i]
<1> DEFINE s == NextSet(p)
           n == Len(plans[p]) + 1
<1>1. plans[p] \in Seq(Change) /\ sets[p] \in Sets /\ sets[p] \in Seq(AliasSet)
  BY TargetAssumption DEF AInv, IInv, Types, Planned, PlanSet
<1>2. n \in DOMAIN sets[p] /\ s \in AliasSet
  BY <1>1 DEF PlanSet, NextSet
<1>3. s.name \in NamesOf(sets[p]) /\ Wanted(p, s.name) = s.content
  BY <1>1, <1>2, WantedIsGiven DEF NextSet
<1>4. /\ plans'[p] = Append(plans[p], ChangeFor(s))
      /\ report'[p] = report[p] /\ sets'[p] = sets[p] /\ dir' = dir
      /\ pc[p] = "plan" /\ pc'[p] = "plan" /\ temp'[p] = temp[p] /\ dry' = dry
      /\ Len(plans[p]) < Len(sets[p])
      /\ \A q \in Proc \ {p} : Untouched(q)
  BY DEF PlanSet, AInv, IInv, Types, Untouched, NextSet, ChangeFor
<1>5. ChangeFor(s) \in Change
  <2>1. ChangeFor(s).kind \in {"create", "update", "unchanged"}
    BY DEF Kind, ChangeFor
  <2> QED
    BY <1>2, <2>1 DEF AliasSet, Change, Kinds, ChangeFor
<1>6. /\ Len(plans'[p]) = n
      /\ DOMAIN plans'[p] = 1 .. n /\ DOMAIN plans[p] = 1 .. n - 1
      /\ plans'[p][n] = ChangeFor(s)
      /\ \A i \in 1 .. n - 1 : plans'[p][i] = plans[p][i]
      /\ Len(plans[p]) \in Nat
  BY <1>1, <1>4, <1>5
<1>7. Len(sets[p]) \in Nat
  BY <1>1
<1> QED
  BY <1>2, <1>3, <1>4, <1>6, <1>7

(* A set is planned: the file is as it should be, or there is a change.    *)
LEMMA AgreementPlanSet ==
    ASSUME AInv, IInv', NEW p \in Proc, PlanSet(p)
    PROVE  AInv'
<1> DEFINE n == Len(plans[p]) + 1
           s == NextSet(p)
           c == ChangeFor(s)
<1>1. /\ Len(sets[p]) \in Nat
      /\ s.name \in NamesOf(sets[p]) /\ Wanted(p, s.name) = s.content
      /\ c.file = s.name /\ c.content = s.content
      /\ c.kind = Kind(dir[s.name], s.content)
  BY SetIsPlanned DEF ChangeFor
<1>2. /\ report'[p] = report[p] /\ sets'[p] = sets[p] /\ dir' = dir
      /\ pc[p] = "plan" /\ pc'[p] = "plan" /\ temp'[p] = temp[p] /\ dry' = dry
      /\ Len(plans[p]) < Len(sets[p])
      /\ \A q \in Proc \ {p} : Untouched(q)
  BY SetIsPlanned
<1>3. /\ Len(plans'[p]) = n
      /\ DOMAIN plans'[p] = 1 .. n /\ DOMAIN plans[p] = 1 .. n - 1
      /\ plans'[p][n] = c
      /\ \A i \in 1 .. n - 1 : plans'[p][i] = plans[p][i]
      /\ Len(plans[p]) \in Nat
  BY SetIsPlanned
<1> HIDE DEF s, c
<1>4. Linked(p)'
  <2>1. ASSUME NEW i \in DOMAIN plans'[p] PROVE Matches(plans[p][i], p)'
    <3>1. CASE i = n
      <4>1. c.file \in NamesOf(sets[p]) /\ c.content = Wanted(p, c.file)
        BY <1>1
      <4>2. plans'[p][i] = c
        BY <1>3, <3>1
      <4>3. Matches(c, p)
        BY <4>1 DEF Matches
      <4> QED
        BY <1>2, <4>2, <4>3 DEF Matches, Wanted
    <3>2. CASE i # n
      <4>1. i \in DOMAIN plans[p] /\ plans'[p][i] = plans[p][i]
        BY <1>3, <2>1, <3>2
      <4>2. Matches(plans[p][i], p)
        BY <4>1 DEF AInv, Linked
      <4> QED
        BY <1>2, <4>1, <4>2 DEF Matches, Wanted
    <3> QED
      BY <3>1, <3>2
  <2>2. Len(report'[p]) = 0 /\ Len(plans'[p]) <= Len(sets'[p])
    BY <1>1, <1>2, <1>3 DEF AInv, Linked
  <2>3. ASSUME NEW i \in 1 .. Len(plans'[p]) PROVE plans'[p][i].file = sets'[p][i].name
    <3>1. CASE i = n
      <4>1. s = sets[p][n]
        BY DEF s, NextSet
      <4> QED
        BY <1>1, <1>2, <1>3, <3>1, <4>1
    <3>2. CASE i # n
      BY <1>2, <1>3, <2>3, <3>2 DEF AInv, Linked
    <3> QED
      BY <3>1, <3>2
  <2>4. temp'[p] \notin Content
    BY <1>2, TargetAssumption DEF AInv, IInv, Planned, Applying
  <2>5. Len(report'[p]) <= Len(plans'[p])
    BY <1>3, <2>2
  <2>6. pc'[p] # "done"
    BY <1>2
  <2> QED
    BY <2>1, <2>2, <2>3, <2>4, <2>5, <2>6 DEF Linked
<1>5. ASSUME NEW f \in Name PROVE AgreedOn(f)'
  <2>1. CASE f = s.name /\ c.kind = "unchanged"
    <3>1. dir[f] = s.content
      BY <1>1, <2>1 DEF Kind
    <3>2. Wanted(p, f)' = s.content
      BY <1>1, <1>2, <2>1 DEF Wanted
    <3> QED
      BY <1>2, <3>1, <3>2, AgreesWith
  <2>2. CASE f = s.name /\ c.kind # "unchanged"
    <3>1. Pending(p, f)'
      <4>1. n > Len(report'[p])
        BY <1>2, <1>3 DEF AInv, Linked
      <4> QED
        BY <1>1, <1>3, <2>2, <4>1 DEF Pending
    <3> QED
      BY <3>1, AgreesLater DEF Settled
  <2>3. CASE f # s.name
    <3>1. Planning(p, f)' => Planning(p, f)
      BY <1>1, <1>2, <1>3, <2>3 DEF Planning
    <3>2. Pending(p, f) => Pending(p, f)'
      BY <1>2, <1>3 DEF Pending
    <3>3. Settled(p, f)' => Settled(p, f)
      BY <1>2, <3>1, <3>2 DEF Settled
    <3> QED
      BY <1>2, <3>3, AgreesStill DEF AInv
  <2> QED
    BY <2>1, <2>2, <2>3
<1> QED
  BY <1>2, <1>4, <1>5, Together

(* Where the elements of two sequences are when they are joined.           *)
LEMMA Concatenation ==
    ASSUME NEW s \in Seq(Change), NEW t \in Seq(Change)
    PROVE  /\ s \o t \in Seq(Change)
           /\ Len(s \o t) = Len(s) + Len(t)
           /\ DOMAIN (s \o t) = 1 .. Len(s) + Len(t) /\ DOMAIN s = 1 .. Len(s)
           /\ \A i \in 1 .. Len(s) : (s \o t)[i] = s[i]
           /\ \A i \in DOMAIN t :
                 Len(s) + i \in DOMAIN (s \o t) /\ (s \o t)[Len(s) + i] = t[i]
<1>1. s \o t \in Seq(Change) /\ Len(s \o t) = Len(s) + Len(t)
  OBVIOUS
<1>2. DOMAIN (s \o t) = 1 .. Len(s) + Len(t) /\ DOMAIN s = 1 .. Len(s)
  BY <1>1
<1>3. \A i \in 1 .. Len(s) : (s \o t)[i] = s[i]
  OBVIOUS
<1>4. ASSUME NEW i \in DOMAIN t
      PROVE  Len(s) + i \in DOMAIN (s \o t) /\ (s \o t)[Len(s) + i] = t[i]
  <2>1. i \in 1 .. Len(t) /\ Len(s) \in Nat /\ Len(t) \in Nat
    OBVIOUS
  <2>2. Len(s) + i \in 1 .. Len(s) + Len(t) /\ Len(s) + i > Len(s)
    BY <2>1
  <2>3. (s \o t)[Len(s) + i] = t[(Len(s) + i) - Len(s)]
    BY <2>2
  <2> QED
    BY <1>2, <2>1, <2>2, <2>3
<1> QED
  BY <1>1, <1>2, <1>3, <1>4

(* The rest of the directory is planned: what comes after the sets are the *)
(* files of none, to be deleted.                                           *)
LEMMA StaleIsPlanned ==
    ASSUME AInv, NEW p \in Proc, PlanStale(p)
    PROVE  LET k == Len(plans[p])
           IN  /\ plans[p] \in Seq(Change) /\ sets[p] \in Sets
               /\ sets[p] \in Seq(AliasSet)
               /\ pc[p] = "plan" /\ k = Len(sets[p]) /\ k \in Nat
               /\ Len(report[p]) = 0 /\ temp[p] = Absent
               /\ sets'[p] = sets[p] /\ dir' = dir /\ temp'[p] = temp[p]
               /\ dry' = dry /\ pc'[p] = IF p \in dry THEN "done" ELSE "apply"
               /\ \A q \in Proc \ {p} : Untouched(q)
               /\ plans'[p] \in Seq(Change) /\ k <= Len(plans'[p])
               /\ DOMAIN plans'[p] = 1 .. Len(plans'[p])
               /\ DOMAIN plans[p] = 1 .. k
               /\ \A i \in 1 .. k : plans'[p][i] = plans[p][i]
               /\ \A i \in DOMAIN plans'[p] : i > k =>
                     /\ plans'[p][i].kind = "delete"
                     /\ plans'[p][i].file \in StaleFiles(sets[p])
               /\ \A f \in StaleFiles(sets[p]) : \E i \in DOMAIN plans'[p] :
                     /\ i > k /\ plans'[p][i].kind = "delete"
                     /\ plans'[p][i].file = f
               /\ p \in dry => report'[p] = plans'[p]
               /\ p \notin dry => report'[p] = report[p]
<1> DEFINE files == StaleFiles(sets[p])
<1>1. files \subseteq Name
  BY DEF StaleFiles
<1>2. Cardinality(files) \in Nat
  BY <1>1, TargetAssumption, FS_Subset, FS_CardinalityType
<1>3. PICK order \in InOrder(files) :
         /\ plans' = [plans EXCEPT ![p] = plans[p] \o Removals(order)]
         /\ report' = IF p \in dry
                      THEN [report EXCEPT ![p] = plans[p] \o Removals(order)]
                      ELSE report
  BY DEF PlanStale
<1> HIDE DEF files
<1> DEFINE r == Removals(order)
           k == Len(plans[p])
<1>4. order \in [1 .. Cardinality(files) -> files] /\ Range(order) = files
  BY DEF InOrder
<1>5. /\ r \in Seq(Change) /\ Len(r) = Cardinality(files)
      /\ \A i \in DOMAIN r : r[i].kind = "delete" /\ r[i].file = order[i]
  <2>1. DOMAIN order = 1 .. Cardinality(files)
    BY <1>4
  <2>2. ASSUME NEW i \in 1 .. Cardinality(files)
        PROVE  [file |-> order[i], kind |-> "delete", content |-> Absent] \in Change
    <3>1. order[i] \in Name
      BY <1>1, <1>4
    <3> QED
      BY <3>1 DEF Change, Kinds
  <2>3. r \in [1 .. Cardinality(files) -> Change]
    BY <2>1, <2>2 DEF Removals
  <2>4. \A i \in DOMAIN r : r[i].kind = "delete" /\ r[i].file = order[i]
    BY DEF Removals
  <2> QED
    BY <1>2, <2>3, <2>4
<1> HIDE DEF r
<1>6. /\ plans[p] \in Seq(Change) /\ k \in Nat
      /\ sets[p] \in Sets /\ sets[p] \in Seq(AliasSet)
      /\ pc[p] = "plan" /\ Len(plans[p]) = Len(sets[p])
      /\ Len(report[p]) = 0 /\ temp[p] = Absent
  BY TargetAssumption
     DEF AInv, IInv, Types, Planned, Applying, Linked, PlanStale
<1>7. /\ plans'[p] \in Seq(Change)
      /\ Len(plans'[p]) = k + Len(r)
      /\ DOMAIN plans'[p] = 1 .. k + Len(r) /\ DOMAIN plans[p] = 1 .. k
      /\ \A i \in 1 .. k : plans'[p][i] = plans[p][i]
      /\ \A i \in DOMAIN r : k + i \in DOMAIN plans'[p] /\ plans'[p][k + i] = r[i]
      /\ \A i \in DOMAIN plans'[p] : i > k => i - k \in DOMAIN r /\ plans'[p][i] = r[i - k]
  <2>1. plans'[p] = plans[p] \o r
    BY <1>3 DEF AInv, IInv, Types, r
  <2>2. /\ plans'[p] \in Seq(Change)
        /\ Len(plans'[p]) = k + Len(r)
        /\ DOMAIN plans'[p] = 1 .. k + Len(r) /\ DOMAIN plans[p] = 1 .. k
        /\ \A i \in 1 .. k : plans'[p][i] = plans[p][i]
        /\ \A i \in DOMAIN r : k + i \in DOMAIN plans'[p] /\ plans'[p][k + i] = r[i]
    <3>1. plans[p] \in Seq(Change) /\ r \in Seq(Change)
      BY <1>5, <1>6
    <3> HIDE DEF k
    <3>2. k = Len(plans[p])
      BY DEF k
    <3> QED
      BY <2>1, <3>1, <3>2, Concatenation
  <2>3. ASSUME NEW i \in DOMAIN plans'[p], i > k
        PROVE  i - k \in DOMAIN r /\ plans'[p][i] = r[i - k]
    <3>1. i - k \in DOMAIN r /\ i = k + (i - k)
      BY <1>5, <1>6, <2>2, <2>3
    <3> QED
      BY <2>2, <3>1
  <2> QED
    BY <2>2, <2>3
<1>8. /\ sets'[p] = sets[p] /\ dir' = dir /\ temp'[p] = temp[p] /\ dry' = dry
      /\ pc'[p] = IF p \in dry THEN "done" ELSE "apply"
      /\ \A q \in Proc \ {p} : Untouched(q)
  BY <1>3 DEF PlanStale, AInv, IInv, Types, Untouched
<1>9. /\ p \in dry => report'[p] = plans'[p]
      /\ p \notin dry => report'[p] = report[p]
  BY <1>3 DEF AInv, IInv, Types
<1>10. ASSUME NEW i \in DOMAIN plans'[p], i > k
       PROVE  plans'[p][i].kind = "delete" /\ plans'[p][i].file \in files
  <2>1. i - k \in DOMAIN r /\ plans'[p][i] = r[i - k]
    BY <1>7, <1>10
  <2>2. i - k \in 1 .. Cardinality(files)
    BY <1>2, <1>5, <2>1
  <2> QED
    BY <1>4, <1>5, <2>1, <2>2
<1>11. ASSUME NEW f \in files
       PROVE  \E i \in DOMAIN plans'[p] :
                 i > k /\ plans'[p][i].kind = "delete" /\ plans'[p][i].file = f
  <2>1. PICK i \in DOMAIN order : order[i] = f
    BY <1>4 DEF Range
  <2>2. i \in DOMAIN r /\ i > 0 /\ i \in Nat
    BY <1>2, <1>4, <1>5, <2>1
  <2>3. /\ k + i \in DOMAIN plans'[p] /\ k + i > k
        /\ plans'[p][k + i].kind = "delete" /\ plans'[p][k + i].file = f
    <3> HIDE DEF k
    <3>1. k + i \in DOMAIN plans'[p] /\ plans'[p][k + i] = r[i]
      BY <1>7, <2>2
    <3> QED
      BY <1>5, <1>6, <2>1, <2>2, <3>1
  <2> QED
    BY <2>3
<1>12. k <= Len(plans'[p])
  BY <1>2, <1>5, <1>6, <1>7
<1> QED
  BY <1>6, <1>7, <1>8, <1>9, <1>10, <1>11, <1>12 DEF files

(* A file that no set names is gone, or is to be deleted.                  *)
LEMMA AgreementPlanStale ==
    ASSUME AInv, IInv', NEW p \in Proc, PlanStale(p)
    PROVE  AInv'
<1> DEFINE k == Len(plans[p])
           files == StaleFiles(sets[p])
<1>1. /\ sets[p] \in Seq(AliasSet) /\ pc[p] = "plan" /\ k = Len(sets[p])
      /\ k \in Nat /\ Len(report[p]) = 0 /\ temp[p] = Absent
      /\ sets'[p] = sets[p] /\ dir' = dir /\ temp'[p] = temp[p] /\ dry' = dry
      /\ pc'[p] = IF p \in dry THEN "done" ELSE "apply"
      /\ \A q \in Proc \ {p} : Untouched(q)
  BY StaleIsPlanned
<1>2. /\ plans'[p] \in Seq(Change) /\ k <= Len(plans'[p])
      /\ DOMAIN plans'[p] = 1 .. Len(plans'[p]) /\ DOMAIN plans[p] = 1 .. k
      /\ \A i \in 1 .. k : plans'[p][i] = plans[p][i]
      /\ \A i \in DOMAIN plans'[p] : i > k => plans'[p][i].kind = "delete"
      /\ p \in dry => report'[p] = plans'[p]
      /\ p \notin dry => report'[p] = report[p]
  BY StaleIsPlanned
<1>3. \A f \in files : \E i \in DOMAIN plans'[p] :
         i > k /\ plans'[p][i].kind = "delete" /\ plans'[p][i].file = f
  BY StaleIsPlanned
<1> HIDE DEF files, k
<1>4. Len(report'[p]) <= Len(plans'[p]) /\ (p \notin dry => Len(report'[p]) = 0)
  BY <1>1, <1>2
<1>5. Linked(p)'
  <2>1. ASSUME NEW i \in DOMAIN plans'[p] PROVE Matches(plans[p][i], p)'
    <3>1. CASE i > k
      BY <1>2, <3>1 DEF Matches
    <3>2. CASE ~(i > k)
      <4>1. i \in 1 .. k
        BY <1>1, <1>2, <2>1, <3>2
      <4>2. plans'[p][i] = plans[p][i] /\ Matches(plans[p][i], p)
        BY <1>2, <4>1 DEF AInv, Linked
      <4> QED
        BY <1>1, <4>2 DEF Matches, Wanted
    <3> QED
      BY <3>1, <3>2
  <2>2. temp'[p] \notin Content /\ pc'[p] # "plan"
    BY <1>1, TargetAssumption
  <2>3. (pc'[p] = "done" /\ p \notin dry') => Len(report'[p]) = Len(plans'[p])
    BY <1>1
  <2> QED
    BY <1>4, <2>1, <2>2, <2>3 DEF Linked
<1>6. ASSUME NEW f \in Name PROVE AgreedOn(f)'
  <2>1. CASE p \in dry
    BY <1>1, <2>1, AgreesLater DEF Settled
  <2>2. CASE p \notin dry /\ f \in NamesOf(sets[p])
    <3>1. PICK i \in DOMAIN sets[p] : f = sets[p][i].name
      BY <2>2 DEF NamesOf
    <3>2. i \in 1 .. k
      BY <1>1, <3>1
    <3>3. plans[p][i].file = f
      BY <1>1, <3>1, <3>2 DEF AInv, Linked, k
    <3>4. Planning(p, f)
      BY <1>1, <1>2, <3>2, <3>3 DEF Planning
    <3>5. Pending(p, f) => Pending(p, f)'
      <4>1. ASSUME NEW m \in DOMAIN plans[p], plans[p][m].file = f,
                   plans[p][m].kind # "unchanged"
            PROVE  Pending(p, f)'
        <5>1. m \in DOMAIN plans'[p] /\ plans'[p][m] = plans[p][m] /\ m > 0
          BY <1>1, <1>2
        <5> QED
          BY <1>4, <2>2, <4>1, <5>1 DEF Pending
      <4> QED
        BY <4>1 DEF Pending
    <3>6. Settled(p, f)' => Settled(p, f)
      BY <1>1, <3>4, <3>5 DEF Settled
    <3> QED
      BY <1>1, <3>6, AgreesStill DEF AInv
  <2>3. CASE f \notin NamesOf(sets[p]) /\ dir[f] = Absent
    <3>1. Wanted(p, f)' = Absent
      BY <1>1, <2>3 DEF Wanted
    <3> QED
      BY <1>1, <2>3, <3>1, AgreesWith
  <2>4. CASE p \notin dry /\ f \notin NamesOf(sets[p]) /\ dir[f] # Absent
    <3>1. f \in files
      BY <2>4 DEF files, StaleFiles
    <3>2. PICK i \in DOMAIN plans'[p] :
             i > k /\ plans'[p][i].kind = "delete" /\ plans'[p][i].file = f
      BY <1>3, <3>1
    <3>3. i > Len(report'[p])
      BY <1>1, <1>2, <1>4, <2>4, <3>2
    <3>4. Pending(p, f)'
      BY <3>2, <3>3 DEF Pending
    <3> QED
      BY <3>4, AgreesLater DEF Settled
  <2> QED
    BY <2>1, <2>2, <2>3, <2>4
<1> QED
  BY <1>1, <1>5, <1>6, Together

(* What carrying out a change does to the directory.                       *)
LEMMA CarriedOut ==
    ASSUME AInv, NEW p \in Proc, Skip(p) \/ Rename(p) \/ RemoveStale(p)
    PROVE  /\ Applying(p) /\ Report(p) /\ temp'[p] = Absent
           /\ UNCHANGED <<pc, dry, sets, plans, before, alone>>
           /\ \A q \in Proc \ {p} : temp'[q] = temp[q]
           /\ \A f \in Name \ {Current(p).file} : dir'[f] = dir[f]
           /\ \/ Current(p).kind = "unchanged" /\ dir' = dir
              \/ dir'[Current(p).file] = Wanted(p, Current(p).file)
<1>0. IInv
  BY DEF AInv
<1>1. CASE Skip(p)
  <2>1. temp'[p] = Absent
    BY <1>1 DEF Skip, AInv, IInv, Planned
  <2> QED
    BY <1>1, <2>1 DEF Skip
<1>2. CASE Rename(p)
  <2>1. Current(p) \in Change /\ Applying(p)
    BY <1>0, <1>2, CurrentIsPlanned DEF Rename
  <2>2. temp[p] = Current(p).content /\ Current(p).kind \in {"create", "update"}
    BY <1>0, <1>2, TargetAssumption DEF Rename, AInv, IInv, Planned, Linked
  <2>3. Matches(Current(p), p)
    <3>1. Len(report[p]) + 1 \in DOMAIN plans[p]
      BY <1>0, <2>1 DEF Applying, IInv, Types
    <3> QED
      BY <3>1 DEF Current, AInv, Linked
  <2>4. Current(p).file \in Name
    BY <2>1 DEF Change
  <2>5. dir'[Current(p).file] = Wanted(p, Current(p).file)
    BY <1>0, <1>2, <2>2, <2>3, <2>4 DEF Rename, Matches, IInv, Types
  <2>6. /\ \A f \in Name \ {Current(p).file} : dir'[f] = dir[f]
        /\ temp'[p] = Absent
        /\ \A q \in Proc \ {p} : temp'[q] = temp[q]
    BY <1>0, <1>2 DEF Rename, IInv, Types
  <2> QED
    BY <1>2, <2>1, <2>5, <2>6 DEF Rename
<1>3. CASE RemoveStale(p)
  <2>1. Current(p) \in Change /\ Applying(p) /\ Sound(Current(p), sets[p])
    BY <1>0, <1>3, CurrentIsPlanned DEF RemoveStale
  <2>2. Current(p).file \in Name /\ Current(p).file \notin NamesOf(sets[p])
    BY <1>3, <2>1 DEF RemoveStale, Sound, Change
  <2>3. dir'[Current(p).file] = Wanted(p, Current(p).file)
    BY <1>0, <1>3, <2>2 DEF RemoveStale, Wanted, IInv, Types
  <2>4. /\ \A f \in Name \ {Current(p).file} : dir'[f] = dir[f]
        /\ temp'[p] = Absent /\ temp' = temp
    BY <1>0, <1>3 DEF RemoveStale, IInv, Types, Planned
  <2> QED
    BY <1>3, <2>1, <2>3, <2>4 DEF RemoveStale
<1> QED
  BY <1>1, <1>2, <1>3

(* A change is carried out: afterwards its file is as the run wants it.    *)
LEMMA AgreementDone ==
    ASSUME AInv, IInv', NEW p \in Proc, Applying(p), Report(p),
           temp'[p] = Absent, dry' = dry,
           UNCHANGED <<pc, sets, plans>>,
           \A q \in Proc \ {p} : temp'[q] = temp[q],
           \A f \in Name \ {Current(p).file} : dir'[f] = dir[f],
           \/ Current(p).kind = "unchanged" /\ dir' = dir
           \/ dir'[Current(p).file] = Wanted(p, Current(p).file)
    PROVE  AInv'
<1> DEFINE k == Len(report[p])
<1>1. /\ plans[p] \in Seq(Change) /\ report[p] \in Seq(Change)
      /\ Current(p) \in Change /\ k < Len(plans[p]) /\ pc[p] = "apply"
  BY CurrentIsPlanned DEF AInv, IInv, Types, Applying
<1>2. report' = [report EXCEPT ![p] = Append(report[p], Current(p))]
  BY DEF Report
<1>3. report'[p] = Append(report[p], Current(p))
  BY <1>2 DEF AInv, IInv, Types
<1>4. Len(report'[p]) = k + 1 /\ k \in Nat
  <2> HIDE DEF Current
  <2> QED
    BY <1>1, <1>3
<1>5. \A q \in Proc \ {p} : Untouched(q)
  BY <1>2 DEF AInv, IInv, Types, Untouched
<1>6. Linked(p)'
  <2>1. ASSUME NEW i \in DOMAIN plans'[p] PROVE Matches(plans[p][i], p)'
    <3>1. Matches(plans[p][i], p) /\ plans' = plans /\ sets' = sets
      BY <2>1 DEF AInv, Linked
    <3> QED
      BY <3>1 DEF Matches, Wanted
  <2>2. Len(report'[p]) <= Len(plans'[p])
    BY <1>1, <1>4
  <2>3. pc'[p] = "apply" /\ temp'[p] \notin Content
    BY <1>1, TargetAssumption
  <2> QED
    BY <2>1, <2>2, <2>3 DEF Linked
<1>7. ASSUME NEW f \in Name PROVE AgreedOn(f)'
  <2>1. CASE f = Current(p).file /\ Current(p).kind # "unchanged"
    <3>1. Wanted(p, f)' = Wanted(p, f)
      BY DEF Wanted
    <3> QED
      BY <2>1, <3>1, AgreesWith
  <2>2. CASE f # Current(p).file \/ Current(p).kind = "unchanged"
    <3>1. CASE dir'[f] = dir[f]
      <4>1. ASSUME Pending(p, f) PROVE Pending(p, f)'
        <5>1. PICK i \in DOMAIN plans[p] :
                 i > k /\ plans[p][i].file = f /\ plans[p][i].kind # "unchanged"
          BY <4>1 DEF Pending
        <5>2. i # k + 1
          BY <2>2, <5>1 DEF Current
        <5>3. i > k + 1
          BY <1>1, <1>4, <5>1, <5>2
        <5> QED
          BY <1>4, <5>1, <5>3 DEF Pending
      <4>2. Settled(p, f)' => Settled(p, f)
        BY <4>1 DEF Settled, Planning
      <4> QED
        BY <1>5, <3>1, <4>2, AgreesStill DEF AInv
    <3>2. CASE dir'[f] # dir[f]
      <4>1. f = Current(p).file /\ dir'[f] = Wanted(p, f)
        BY <3>2
      <4>2. Wanted(p, f)' = Wanted(p, f)
        BY DEF Wanted
      <4> QED
        BY <4>1, <4>2, AgreesWith
    <3> QED
      BY <3>1, <3>2
  <2> QED
    BY <2>1, <2>2
<1> QED
  BY <1>5, <1>6, <1>7, Together

(* Preparing a temporary file changes nothing that matters yet.            *)
LEMMA AgreementPrepare ==
    ASSUME AInv, IInv', NEW p \in Proc, NEW c,
           temp' = [temp EXCEPT ![p] = c],
           c \in Content => c = Current(p).content,
           UNCHANGED <<dir, pc, dry, sets, plans, report>>
    PROVE  AInv'
<1>1. temp'[p] = c /\ \A q \in Proc \ {p} : Untouched(q)
  BY DEF AInv, IInv, Types, Untouched
<1>2. Linked(p)'
  <2>1. ASSUME NEW i \in DOMAIN plans'[p] PROVE Matches(plans[p][i], p)'
    <3>1. Matches(plans[p][i], p) /\ plans' = plans /\ sets' = sets
      BY <2>1 DEF AInv, Linked
    <3> QED
      BY <3>1 DEF Matches, Wanted
  <2>2. temp'[p] \in Content => temp'[p] = Current(p)'.content
    BY <1>1 DEF Current
  <2> QED
    BY <2>1, <2>2 DEF AInv, Linked
<1>3. ASSUME NEW f \in Name PROVE AgreedOn(f)'
  <2>1. Settled(p, f)' => Settled(p, f)
    BY DEF Settled, Planning, Pending
  <2> QED
    BY <1>1, <2>1, AgreesStill DEF AInv
<1> QED
  BY <1>1, <1>2, <1>3, Together

(* A run that is over has settled nothing more, and a run that has stopped *)
(* nothing at all.                                                         *)
LEMMA AgreementEnd ==
    ASSUME AInv, IInv', NEW p \in Proc, Finish(p) \/ Stop(p)
    PROVE  AInv'
<1>1. /\ \A q \in Proc \ {p} : Untouched(q)
      /\ plans' = plans /\ report' = report /\ sets' = sets /\ dir' = dir
      /\ dry' = dry
  BY DEF Finish, Stop, AInv, IInv, Types, Untouched
<1>2. temp'[p] = Absent
  BY DEF Finish, Stop, AInv, IInv, Types, Planned, Applying
<1>3. /\ pc'[p] \in {"done", "stopped"}
      /\ pc'[p] = "done" => pc[p] = "apply" /\ Len(report[p]) = Len(plans[p])
  BY DEF Finish, Stop, AInv, IInv, Types
<1>4. Linked(p)'
  <2>1. ASSUME NEW i \in DOMAIN plans'[p] PROVE Matches(plans[p][i], p)'
    <3>1. Matches(plans[p][i], p)
      BY <1>1, <2>1 DEF AInv, Linked
    <3> QED
      BY <1>1, <3>1 DEF Matches, Wanted
  <2>2. Len(report'[p]) <= Len(plans'[p])
    BY <1>1 DEF AInv, Linked
  <2> QED
    BY <1>1, <1>2, <1>3, <2>1, <2>2, TargetAssumption DEF Linked
<1>5. ASSUME NEW f \in Name PROVE AgreedOn(f)'
  <2>1. Settled(p, f)' => Settled(p, f)
    BY <1>1, <1>3 DEF Settled, Planning, Pending
  <2> QED
    BY <1>1, <2>1, AgreesStill DEF AInv
<1> QED
  BY <1>1, <1>4, <1>5, Together

(* Every step keeps the agreement.                                         *)
LEMMA AgreementStep == AInv /\ [Next]_vars => AInv'
<1> SUFFICES ASSUME AInv, [Next]_vars PROVE AInv'
  OBVIOUS
<1>0. IInv' /\ IInv
  BY Step DEF AInv
<1>1. ASSUME NEW p \in Proc, NEW given \in Sets, NEW rehearse \in BOOLEAN,
             Begin(p, given, rehearse)
      PROVE  AInv'
  BY <1>0, <1>1, AgreementBegin
<1>2. ASSUME NEW p \in Proc, PlanSet(p) PROVE AInv'
  BY <1>0, <1>2, AgreementPlanSet
<1>3. ASSUME NEW p \in Proc, PlanStale(p) PROVE AInv'
  BY <1>0, <1>3, AgreementPlanStale
<1>4. ASSUME NEW p \in Proc, Skip(p) \/ Rename(p) \/ RemoveStale(p) PROVE AInv'
  BY <1>0, <1>4, CarriedOut, AgreementDone
<1>5. ASSUME NEW p \in Proc, CreateTemp(p) PROVE AInv'
  BY <1>0, <1>5, AgreementPrepare, TargetAssumption DEF CreateTemp
<1>6. ASSUME NEW p \in Proc, WriteTemp(p) PROVE AInv'
  BY <1>0, <1>6, AgreementPrepare DEF WriteTemp
<1>7. ASSUME NEW p \in Proc, Finish(p) \/ Stop(p) PROVE AInv'
  BY <1>0, <1>7, AgreementEnd
<1>8. CASE UNCHANGED vars
  <2>1. \A p \in Proc : Untouched(p)
    BY <1>8 DEF vars, Untouched
  <2>2. ASSUME NEW f \in Name PROVE AgreedOn(f)'
    BY <1>8, <2>1, UntouchedStays DEF vars, AInv, AgreedOn
  <2> QED
    BY <1>0, <2>1, <2>2, UntouchedStays DEF AInv
<1> QED
  BY <1>1, <1>2, <1>3, <1>4, <1>5, <1>6, <1>7, <1>8 DEF Next

-----------------------------------------------------------------------------
(* A run that is alone. *)

Told(c, p) ==
    IF c.kind = "delete"
    THEN c.file \notin NamesOf(sets[p]) /\ before[p][c.file] # Absent
    ELSE /\ c.file \in NamesOf(sets[p])
         /\ c.kind = Kind(before[p][c.file], Wanted(p, c.file))

Covers(p) ==
    \A f \in NamesOf(sets[p]) \union {g \in Name : before[p][g] # Absent} :
        \E i \in DOMAIN plans[p] : plans[p][i].file = f

Carried(p, f) == \E i \in 1 .. Len(report[p]) : plans[p][i].file = f

(* What the directory is for a run that is alone, however far it has come. *)
Follows(p) ==
    /\ pc[p] = "plan" => dir = before[p]
    /\ pc[p] = "apply" =>
          \A f \in Name :
              dir[f] = IF Carried(p, f) THEN Wanted(p, f) ELSE before[p][f]

Exact(p) ==
    /\ pc[p] = "apply" => p \notin dry
    /\ \A i \in 1 .. Len(report[p]) : report[p][i] = plans[p][i]
    /\ alone[p] =>
          /\ p \in Active => \A q \in Active \ {p} : q \in dry
          /\ pc[p] \in {"plan", "apply", "done"} =>
                \A i \in DOMAIN plans[p] : Told(plans[p][i], p)
          /\ pc[p] \in {"apply", "done"} => Covers(p)
          /\ Follows(p)

EInv == AInv /\ \A p \in Proc : Exact(p)

(* A run that a step does not touch is as exact as it was, if it was not   *)
(* alone, is alone no more, or finds the directory as it left it.          *)
LEMMA ExactStays ==
    ASSUME NEW q \in Proc, Exact(q), Untouched(q), before'[q] = before[q],
           alone'[q] => alone[q],
           alone'[q] /\ q \in Active =>
               dir' = dir /\ \A r \in Active' \ {q} : r \in dry'
    PROVE  Exact(q)'
<1>1. \A f \in Name : Wanted(q, f)' = Wanted(q, f)
  BY UntouchedStays
<1>2. q \in Active' <=> q \in Active
  BY DEF Untouched, Active
<1>3. ASSUME alone'[q], NEW i \in DOMAIN plans'[q],
             pc'[q] \in {"plan", "apply", "done"}
      PROVE  Told(plans[q][i], q)'
  <2>1. Told(plans[q][i], q)
    BY <1>3 DEF Exact, Untouched
  <2>2. Wanted(q, plans[q][i].file)' = Wanted(q, plans[q][i].file)
    BY DEF Wanted, Untouched
  <2> QED
    BY <2>1, <2>2 DEF Told, Untouched
<1>4. ASSUME alone'[q] PROVE Follows(q)'
  <2>1. Follows(q)
    BY <1>4 DEF Exact
  <2>2. q \in Active => dir' = dir
    BY <1>4
  <2> QED
    BY <1>1, <2>1, <2>2 DEF Follows, Carried, Untouched, Active
<1>5. ASSUME alone'[q], pc'[q] \in {"apply", "done"} PROVE Covers(q)'
  BY <1>5 DEF Exact, Covers, Untouched
<1> QED
  BY <1>2, <1>3, <1>4, <1>5 DEF Exact, Untouched

(* Only a run that applies its plan writes, and then no other run is alone *)
(* and active.                                                             *)
LEMMA ExactElsewhere ==
    ASSUME EInv, NEW p \in Proc, \A q \in Proc \ {p} : Untouched(q),
           before' = before, alone' = alone, dry' = dry,
           p \in Active' => p \in Active,
           dir' = dir \/ pc[p] = "apply"
    PROVE  \A q \in Proc \ {p} : Exact(q)'
<1> SUFFICES ASSUME NEW q \in Proc \ {p} PROVE Exact(q)'
  OBVIOUS
<1>1. Active' \subseteq Active
  BY DEF Active, Untouched
<1>2. ASSUME alone[q], q \in Active
      PROVE  dir' = dir /\ \A r \in Active' \ {q} : r \in dry'
  <2>1. \A r \in Active \ {q} : r \in dry
    BY <1>2 DEF EInv, Exact
  <2>2. pc[p] # "apply"
    BY <2>1 DEF EInv, Exact, Active
  <2> QED
    BY <1>1, <2>1, <2>2
<1> QED
  BY <1>2, ExactStays DEF EInv

(* A run begins alone when no other writes.                                *)
LEMMA ExactBegin ==
    ASSUME EInv, NEW p \in Proc, NEW given \in Sets,
           NEW rehearse \in BOOLEAN, Begin(p, given, rehearse)
    PROVE  \A q \in Proc : Exact(q)'
<1>0. AInv /\ IInv
  BY DEF EInv, AInv
<1>1. /\ plans'[p] = << >> /\ report'[p] = << >> /\ pc'[p] = "plan"
      /\ before'[p] = dir /\ dir' = dir
      /\ alone'[p] <=> Writing = {}
      /\ \A q \in Proc \ {p} :
            Untouched(q) /\ before'[q] = before[q]
            /\ (alone'[q] <=> alone[q] /\ rehearse)
      /\ rehearse => p \in dry'
      /\ p \notin Active
  BY <1>0 DEF Begin, IInv, Types, Untouched
<1>2. Active' = Active \union {p}
  BY <1>1 DEF Active, Untouched
<1>3. Exact(p)'
  <2>1. ASSUME alone'[p] PROVE \A q \in Active' \ {p} : q \in dry'
    <3>1. Active \subseteq dry
      BY <1>1, <2>1 DEF Writing
    <3> QED
      BY <1>1, <1>2, <3>1 DEF Untouched, Active
  <2> QED
    BY <1>1, <2>1 DEF Exact, Follows
<1>4. ASSUME NEW q \in Proc \ {p} PROVE Exact(q)'
  <2>1. ASSUME alone'[q], q \in Active
        PROVE  dir' = dir /\ \A r \in Active' \ {q} : r \in dry'
    <3>1. \A r \in Active \ {q} : r \in dry
      BY <1>1, <2>1 DEF EInv, Exact
    <3> QED
      BY <1>1, <1>2, <2>1, <3>1 DEF Untouched, Active
  <2> QED
    BY <1>1, <2>1, ExactStays DEF EInv
<1> QED
  BY <1>3, <1>4

(* What is planned for the next set tells the file from what it is to be.  *)
LEMMA ExactPlanSet ==
    ASSUME EInv, NEW p \in Proc, PlanSet(p)
    PROVE  \A q \in Proc : Exact(q)'
<1> DEFINE n == Len(plans[p]) + 1
           s == NextSet(p)
           c == ChangeFor(s)
<1>0. AInv
  BY DEF EInv
<1>1. /\ s.name \in NamesOf(sets[p]) /\ Wanted(p, s.name) = s.content
      /\ c.file = s.name /\ c.kind = Kind(dir[s.name], s.content)
  BY <1>0, SetIsPlanned DEF ChangeFor
<1>2. /\ report'[p] = report[p] /\ sets'[p] = sets[p] /\ dir' = dir
      /\ pc[p] = "plan" /\ pc'[p] = "plan" /\ dry' = dry
      /\ \A q \in Proc \ {p} : Untouched(q)
      /\ before' = before /\ alone' = alone
  BY <1>0, SetIsPlanned DEF PlanSet
<1>3. /\ DOMAIN plans'[p] = 1 .. n /\ DOMAIN plans[p] = 1 .. n - 1
      /\ plans'[p][n] = c
      /\ \A i \in 1 .. n - 1 : plans'[p][i] = plans[p][i]
      /\ n \in Nat /\ n - 1 \in Nat
  BY <1>0, SetIsPlanned
<1> HIDE DEF s, c, n
<1>4. \A f : Wanted(p, f)' = Wanted(p, f)
  BY <1>2 DEF Wanted
<1>5. p \in Active /\ Active' = Active
  BY <1>2 DEF Active, Untouched
<1>6. ASSUME alone[p], NEW i \in DOMAIN plans'[p] PROVE Told(plans[p][i], p)'
  <2>1. dir = before[p]
    BY <1>2, <1>6 DEF EInv, Exact, Follows
  <2>2. CASE i = n
    <3>1. c.kind # "delete"
      BY <1>1 DEF Kind
    <3>2. c.kind = Kind(before[p][c.file], Wanted(p, c.file))
      BY <1>1, <2>1
    <3> QED
      BY <1>1, <1>2, <1>3, <1>4, <2>2, <3>1, <3>2 DEF Told
  <2>3. CASE i # n
    <3>1. i \in DOMAIN plans[p] /\ plans'[p][i] = plans[p][i]
      BY <1>3, <1>6, <2>3
    <3>2. Told(plans[p][i], p)
      BY <1>2, <1>6, <3>1 DEF EInv, Exact
    <3> QED
      BY <1>2, <1>4, <3>1, <3>2 DEF Told
  <2> QED
    BY <2>2, <2>3
<1>7. Len(report'[p]) = 0
  BY <1>0, <1>2 DEF AInv, Linked
<1>8. Exact(p)'
  BY <1>2, <1>5, <1>6, <1>7 DEF EInv, Exact, Follows
<1> QED
  BY <1>2, <1>5, <1>8, ExactElsewhere

(* The plan is complete: it has a change for every file that is wanted and *)
(* for every file that is there.                                           *)
LEMMA ExactPlanStale ==
    ASSUME EInv, NEW p \in Proc, PlanStale(p)
    PROVE  \A q \in Proc : Exact(q)'
<1> DEFINE k == Len(plans[p])
           files == StaleFiles(sets[p])
<1>0. AInv
  BY DEF EInv
<1>1. /\ sets[p] \in Seq(AliasSet) /\ pc[p] = "plan" /\ k = Len(sets[p])
      /\ k \in Nat /\ Len(report[p]) = 0
      /\ sets'[p] = sets[p] /\ dir' = dir /\ dry' = dry
      /\ pc'[p] = IF p \in dry THEN "done" ELSE "apply"
      /\ \A q \in Proc \ {p} : Untouched(q)
      /\ before' = before /\ alone' = alone
  BY <1>0, StaleIsPlanned DEF PlanStale
<1>2. /\ plans'[p] \in Seq(Change) /\ k <= Len(plans'[p])
      /\ DOMAIN plans'[p] = 1 .. Len(plans'[p]) /\ DOMAIN plans[p] = 1 .. k
      /\ \A i \in 1 .. k : plans'[p][i] = plans[p][i]
      /\ \A i \in DOMAIN plans'[p] : i > k =>
            plans'[p][i].kind = "delete" /\ plans'[p][i].file \in files
      /\ p \in dry => report'[p] = plans'[p]
      /\ p \notin dry => report'[p] = report[p]
  BY <1>0, StaleIsPlanned
<1>3. \A f \in files : \E i \in DOMAIN plans'[p] :
         i > k /\ plans'[p][i].kind = "delete" /\ plans'[p][i].file = f
  BY <1>0, StaleIsPlanned
<1>4. \A i \in 1 .. k : plans[p][i].file = sets[p][i].name
  BY <1>0, <1>1 DEF AInv, Linked
<1> HIDE DEF files, k
<1>5. \A f : Wanted(p, f)' = Wanted(p, f)
  BY <1>1 DEF Wanted
<1>6. p \in Active /\ Active' \subseteq Active
  BY <1>1 DEF Active, Untouched
<1>7. ASSUME alone[p] PROVE dir = before[p]
  BY <1>1, <1>7 DEF EInv, Exact, Follows
<1>8. ASSUME alone[p], NEW i \in DOMAIN plans'[p] PROVE Told(plans[p][i], p)'
  <2>1. CASE i > k
    <3>1. plans'[p][i].kind = "delete" /\ plans'[p][i].file \in files
      BY <1>2, <1>8, <2>1
    <3>2. plans'[p][i].file \notin NamesOf(sets[p])
          /\ dir[plans'[p][i].file] # Absent
      BY <3>1 DEF files, StaleFiles
    <3> QED
      BY <1>1, <1>7, <1>8, <3>1, <3>2 DEF Told
  <2>2. CASE ~(i > k)
    <3>1. i \in DOMAIN plans[p] /\ plans'[p][i] = plans[p][i]
      BY <1>1, <1>2, <1>8, <2>2
    <3>2. Told(plans[p][i], p)
      BY <1>1, <1>8, <3>1 DEF EInv, Exact
    <3> QED
      BY <1>1, <1>5, <3>1, <3>2 DEF Told
  <2> QED
    BY <2>1, <2>2
<1>9. ASSUME alone[p] PROVE Covers(p)'
  <2>1. ASSUME NEW f \in NamesOf(sets[p])
        PROVE  \E i \in DOMAIN plans'[p] : plans'[p][i].file = f
    <3>1. PICK i \in DOMAIN sets[p] : f = sets[p][i].name
      BY DEF NamesOf
    <3>2. i \in 1 .. k
      BY <1>1, <3>1
    <3>3. i \in DOMAIN plans'[p]
      BY <1>1, <1>2, <3>2
    <3> QED
      BY <1>2, <1>4, <3>1, <3>2, <3>3
  <2>2. ASSUME NEW f \in Name, before[p][f] # Absent, f \notin NamesOf(sets[p])
        PROVE  \E i \in DOMAIN plans'[p] : plans'[p][i].file = f
    <3>1. f \in files
      BY <1>7, <1>9, <2>2 DEF files, StaleFiles
    <3> QED
      BY <1>3, <3>1
  <2> QED
    BY <1>1, <2>1, <2>2 DEF Covers
<1>10. ASSUME alone[p] PROVE Follows(p)'
  <2>1. CASE p \in dry
    BY <1>1, <2>1 DEF Follows
  <2>2. CASE p \notin dry
    <3>1. \A f \in Name : ~Carried(p, f)'
      BY <1>1, <1>2, <2>2 DEF Carried
    <3> QED
      BY <1>1, <1>7, <1>10, <2>2, <3>1 DEF Follows
  <2> QED
    BY <2>1, <2>2
<1>11. \A i \in 1 .. Len(report'[p]) : report'[p][i] = plans'[p][i]
  BY <1>1, <1>2
<1>12. ASSUME alone[p] PROVE \A q \in Active' \ {p} : q \in dry'
  BY <1>1, <1>6, <1>12 DEF EInv, Exact
<1>13. Exact(p)'
  BY <1>1, <1>8, <1>9, <1>10, <1>11, <1>12 DEF Exact
<1> QED
  BY <1>1, <1>6, <1>13, ExactElsewhere

(* A change is carried out: the directory follows the plan one file        *)
(* further, whether or not the plan names the file more than once.         *)
LEMMA ExactDone ==
    ASSUME EInv, NEW p \in Proc, Skip(p) \/ Rename(p) \/ RemoveStale(p)
    PROVE  \A q \in Proc : Exact(q)'
<1> DEFINE k == Len(report[p])
           c == Current(p)
<1>0. AInv /\ IInv
  BY DEF EInv, AInv
<1>1. /\ Applying(p) /\ report' = [report EXCEPT ![p] = Append(report[p], c)]
      /\ UNCHANGED <<pc, dry, sets, plans, before, alone>>
      /\ \A q \in Proc \ {p} : temp'[q] = temp[q]
      /\ \A f \in Name \ {c.file} : dir'[f] = dir[f]
      /\ \/ c.kind = "unchanged" /\ dir' = dir
         \/ dir'[c.file] = Wanted(p, c.file)
  BY <1>0, CarriedOut DEF Report
<1>2. /\ plans[p] \in Seq(Change) /\ report[p] \in Seq(Change) /\ k \in Nat
      /\ c \in Change /\ k < Len(plans[p]) /\ pc[p] = "apply"
      /\ c = plans[p][k + 1] /\ k + 1 \in DOMAIN plans[p]
  BY <1>0, <1>1, CurrentIsPlanned DEF IInv, Types, Applying, Current
<1> HIDE DEF c
<1>3. /\ report'[p] = Append(report[p], c) /\ Len(report'[p]) = k + 1
      /\ \A i \in 1 .. k : report'[p][i] = report[p][i]
      /\ report'[p][k + 1] = c
  <2>1. report'[p] = Append(report[p], c)
    BY <1>0, <1>1 DEF IInv, Types
  <2> QED
    BY <1>2, <2>1
<1>4. \A q \in Proc \ {p} : Untouched(q)
  BY <1>0, <1>1 DEF IInv, Types, Untouched
<1>5. \A f : Wanted(p, f)' = Wanted(p, f)
  BY <1>1 DEF Wanted
<1>6. Active' = Active
  BY <1>1 DEF Active
<1> HIDE DEF k
<1>7. \A i \in 1 .. Len(report'[p]) : report'[p][i] = plans'[p][i]
  <2> SUFFICES ASSUME NEW i \in 1 .. Len(report'[p])
               PROVE  report'[p][i] = plans[p][i]
    BY <1>1
  <2>1. CASE i = k + 1
    BY <1>2, <1>3, <2>1
  <2>2. CASE i # k + 1
    <3>1. i \in 1 .. k
      BY <1>2, <1>3, <2>2
    <3> QED
      BY <1>3, <3>1 DEF EInv, Exact, k
  <2> QED
    BY <2>1, <2>2
<1>8. \A f : Carried(p, f)' <=> Carried(p, f) \/ f = c.file
  <2>1. \A i : i \in 1 .. k + 1 <=> i \in 1 .. k \/ i = k + 1
    BY <1>2
  <2> QED
    BY <1>1, <1>2, <1>3, <2>1 DEF Carried, k
<1>9. ASSUME alone[p], NEW f \in Name
      PROVE  dir'[f] = IF Carried(p, f)' THEN Wanted(p, f) ELSE before[p][f]
  <2>1. dir[f] = IF Carried(p, f) THEN Wanted(p, f) ELSE before[p][f]
    BY <1>2, <1>9 DEF EInv, Exact, Follows
  <2>2. CASE f # c.file
    BY <1>1, <1>8, <2>1, <2>2
  <2>3. CASE f = c.file /\ dir'[f] = Wanted(p, f)
    BY <1>8, <2>3
  <2>4. CASE f = c.file /\ c.kind = "unchanged" /\ dir' = dir
    <3>1. Told(c, p)
      BY <1>2, <1>9 DEF EInv, Exact
    <3>2. before[p][f] = Wanted(p, f)
      BY <2>4, <3>1 DEF Told, Kind
    <3> QED
      BY <1>8, <2>1, <2>4, <3>2
  <2> QED
    BY <1>1, <2>2, <2>3, <2>4
<1>10. ASSUME alone[p] PROVE Follows(p)'
  BY <1>1, <1>2, <1>5, <1>9, <1>10 DEF Follows
<1>11. ASSUME alone[p], NEW i \in DOMAIN plans'[p] PROVE Told(plans[p][i], p)'
  <2>1. Told(plans[p][i], p)
    BY <1>1, <1>2, <1>11 DEF EInv, Exact
  <2> QED
    BY <1>1, <1>5, <2>1 DEF Told
<1>12. ASSUME alone[p] PROVE Covers(p)'
  <2>1. Covers(p)
    BY <1>2, <1>12 DEF EInv, Exact
  <2> QED
    BY <1>1, <2>1 DEF Covers
<1>13. Exact(p)'
  BY <1>1, <1>2, <1>6, <1>7, <1>10, <1>11, <1>12 DEF EInv, Exact
<1> QED
  BY <1>1, <1>2, <1>4, <1>6, <1>13, ExactElsewhere

(* The other steps leave the directory and the plans as they are.          *)
LEMMA ExactQuiet ==
    ASSUME EInv, NEW p \in Proc,
           CreateTemp(p) \/ WriteTemp(p) \/ Finish(p) \/ Stop(p)
    PROVE  \A q \in Proc : Exact(q)'
<1>0. AInv /\ IInv
  BY DEF EInv, AInv
<1>1. /\ UNCHANGED <<dir, dry, sets, plans, report, before, alone>>
      /\ \A q \in Proc \ {p} : Untouched(q)
      /\ p \in Active
      /\ \/ pc'[p] \in {pc[p], "stopped"}
         \/ pc[p] = "apply" /\ pc'[p] = "done"
  <2>1. CASE CreateTemp(p) \/ WriteTemp(p)
    <3>1. /\ UNCHANGED <<dir, pc, dry, sets, plans, report, before, alone>>
          /\ pc[p] = "apply"
      BY <2>1 DEF CreateTemp, WriteTemp, Applying
    <3>2. ASSUME NEW q \in Proc \ {p} PROVE temp'[q] = temp[q]
      BY <1>0, <2>1 DEF CreateTemp, WriteTemp, IInv, Types
    <3>3. \A q \in Proc \ {p} : Untouched(q)
      BY <3>1, <3>2 DEF Untouched
    <3>4. p \in Active /\ pc'[p] = pc[p]
      BY <3>1 DEF Active
    <3> QED
      BY <3>1, <3>3, <3>4
  <2>2. CASE Finish(p)
    BY <1>0, <2>2 DEF Finish, Active, IInv, Types, Untouched
  <2>3. CASE Stop(p)
    <3>1. /\ UNCHANGED <<dir, dry, sets, plans, report, before, alone>>
          /\ p \in Active
      BY <2>3 DEF Stop
    <3>2. ASSUME NEW q \in Proc \ {p} PROVE temp'[q] = temp[q] /\ pc'[q] = pc[q]
      BY <1>0, <2>3 DEF Stop, IInv, Types
    <3>3. pc'[p] = "stopped"
      BY <1>0, <2>3 DEF Stop, IInv, Types
    <3>4. \A q \in Proc \ {p} : Untouched(q)
      BY <3>1, <3>2 DEF Untouched
    <3> QED
      BY <3>1, <3>3, <3>4
  <2> QED
    BY <2>1, <2>2, <2>3
<1>2. \A f : Wanted(p, f)' = Wanted(p, f)
  BY <1>1 DEF Wanted
<1>3. Active' \subseteq Active
  BY <1>1 DEF Active, Untouched
<1>4. ASSUME alone[p], pc'[p] \in {"plan", "apply", "done"},
             NEW i \in DOMAIN plans'[p]
      PROVE  Told(plans[p][i], p)'
  <2>1. Told(plans[p][i], p)
    BY <1>1, <1>4 DEF EInv, Exact
  <2> QED
    BY <1>1, <1>2, <2>1 DEF Told
<1>5. ASSUME alone[p], pc'[p] \in {"apply", "done"} PROVE Covers(p)'
  BY <1>1, <1>5 DEF EInv, Exact, Covers
<1>6. ASSUME alone[p] PROVE Follows(p)'
  <2>1. Follows(p)
    BY <1>6 DEF EInv, Exact
  <2>2. \A f : Carried(p, f)' <=> Carried(p, f)
    BY <1>1 DEF Carried
  <2> QED
    BY <1>1, <1>2, <2>1, <2>2 DEF Follows
<1>7. Exact(p)'
  BY <1>1, <1>3, <1>4, <1>5, <1>6 DEF EInv, Exact
<1> QED
  BY <1>1, <1>7, ExactElsewhere

(* Every step keeps the runs that are alone exact.                         *)
LEMMA ExactStep == EInv /\ [Next]_vars => EInv'
<1> SUFFICES ASSUME EInv, [Next]_vars PROVE EInv'
  OBVIOUS
<1>1. AInv'
  BY AgreementStep DEF EInv
<1>2. CASE Next
  <2>1. \A q \in Proc : Exact(q)'
    BY <1>2, ExactBegin, ExactPlanSet, ExactPlanStale, ExactDone, ExactQuiet
       DEF Next
  <2> QED
    BY <1>1, <2>1 DEF EInv
<1>3. CASE UNCHANGED vars
  <2>1. ASSUME NEW q \in Proc PROVE Exact(q)'
    <3>1. Untouched(q) /\ before'[q] = before[q] /\ alone'[q] = alone[q]
          /\ dir' = dir /\ Active' = Active /\ dry' = dry
      BY <1>3 DEF vars, Untouched, Active
    <3>2. Exact(q)
      BY DEF EInv
    <3>3. alone'[q] /\ q \in Active => \A r \in Active' \ {q} : r \in dry'
      BY <3>1, <3>2 DEF Exact
    <3> QED
      BY <3>1, <3>2, <3>3, ExactStays
  <2> QED
    BY <1>1, <2>1 DEF EInv
<1> QED
  BY <1>2, <1>3

-----------------------------------------------------------------------------
(* The theorems. *)

(* When the last run of every process has completed, every file is what    *)
(* one of them wanted (file.go:98, 175).                                   *)
THEOREM RunsAgree == Spec => []QuietAgrees
<1>1. AInv => QuietAgrees
  <2> SUFFICES ASSUME AInv, \A p \in Proc : pc[p] = "done" /\ p \notin dry,
                      NEW f \in Name
               PROVE  \E p \in Proc : dir[f] = Wanted(p, f)
    BY DEF QuietAgrees
  <2>1. ASSUME NEW p \in Proc PROVE Settled(p, f)
    <3>1. Len(report[p]) = Len(plans[p]) /\ plans[p] \in Seq(Change)
      BY DEF AInv, IInv, Types, Linked
    <3>2. ~Pending(p, f)
      BY <3>1 DEF Pending
    <3> QED
      BY <3>2 DEF Settled
  <2> QED
    BY <2>1 DEF AInv, AgreedOn
<1> QED
  BY <1>1, AgreementInit, AgreementStep, PTL DEF Spec
(* A run that no other disturbs ends with its alias sets on disk, and it   *)
(* and a dry run report exactly the differences (target.go:44,             *)
(* file.go:98-175).                                                        *)
THEOREM LoneRunsAreExact == Spec => []LoneRunIsExact
<1>1. Init => EInv
  <2> SUFFICES ASSUME Init PROVE EInv
    OBVIOUS
  <2>1. AInv
    BY AgreementInit
  <2>2. ASSUME NEW p \in Proc PROVE Exact(p)
    BY DEF Init, Exact
  <2> QED
    BY <2>1, <2>2 DEF EInv
<1>2. EInv => LoneRunIsExact
  <2> SUFFICES ASSUME EInv, NEW p \in Proc, alone[p],
                      pc[p] \in {"apply", "done"},
                      Len(report[p]) = Len(plans[p])
               PROVE  /\ pc[p] = "apply" => \A f \in Name : dir[f] = Wanted(p, f)
                      /\ {<<c.file, c.kind>> : c \in Range(report[p])} =
                            Differences(p, before[p])
    BY DEF LoneRunIsExact
  <2> DEFINE old == before[p]
  <2>1. /\ plans[p] \in Seq(Change) /\ report[p] \in Seq(Change)
        /\ DOMAIN plans[p] = 1 .. Len(report[p])
        /\ DOMAIN report[p] = 1 .. Len(report[p])
    BY DEF EInv, AInv, IInv, Types
  <2>2. \A i \in DOMAIN plans[p] : Told(plans[p][i], p)
    BY DEF EInv, Exact
  <2>3. Covers(p)
    BY DEF EInv, Exact
  <2>4. Range(report[p]) = {plans[p][i] : i \in DOMAIN plans[p]}
    BY <2>1 DEF EInv, Exact, Range
  <2>5. ASSUME pc[p] = "apply", NEW f \in Name PROVE dir[f] = Wanted(p, f)
    <3>1. dir[f] = IF Carried(p, f) THEN Wanted(p, f) ELSE old[f]
      BY <2>5 DEF EInv, Exact, Follows
    <3>2. ASSUME ~Carried(p, f) PROVE old[f] = Wanted(p, f)
      <4>1. f \notin NamesOf(sets[p]) /\ old[f] = Absent
        BY <2>1, <2>3, <3>2 DEF Carried, Covers
      <4> QED
        BY <4>1 DEF Wanted
    <3> QED
      BY <3>1, <3>2
  <2>6. ASSUME NEW i \in DOMAIN plans[p]
        PROVE  <<plans[p][i].file, plans[p][i].kind>> \in Differences(p, old)
    <3> DEFINE c == plans[p][i]
    <3>0. c \in Change
      BY <2>1
    <3>1. Told(c, p) /\ c.file \in Name
      BY <2>2, <3>0 DEF Change
    <3> QED
      BY <3>1 DEF Told, Kind, Differences
  <2>7. ASSUME NEW d \in Differences(p, old)
        PROVE  \E i \in DOMAIN plans[p] : d = <<plans[p][i].file, plans[p][i].kind>>
    <3>1. CASE \E f \in NamesOf(sets[p]) : d = <<f, Kind(old[f], Wanted(p, f))>>
      <4>1. PICK f \in NamesOf(sets[p]) : d = <<f, Kind(old[f], Wanted(p, f))>>
        BY <3>1
      <4>2. PICK i \in DOMAIN plans[p] : plans[p][i].file = f
        BY <2>3 DEF Covers
      <4> QED
        BY <2>2, <4>1, <4>2 DEF Told
    <3>2. CASE \E f \in {g \in Name : old[g] # Absent} \ NamesOf(sets[p]) :
                  d = <<f, "delete">>
      <4>1. PICK f \in {g \in Name : old[g] # Absent} \ NamesOf(sets[p]) :
               d = <<f, "delete">>
        BY <3>2
      <4>2. PICK i \in DOMAIN plans[p] : plans[p][i].file = f
        BY <2>3, <4>1 DEF Covers
      <4> QED
        BY <2>2, <4>1, <4>2 DEF Told
    <3> QED
      BY <3>1, <3>2 DEF Differences, Kind
  <2> QED
    BY <2>4, <2>5, <2>6, <2>7
<1> QED
  BY <1>1, <1>2, ExactStep, PTL DEF Spec
=============================================================================
