----------------------------- MODULE UpdateProofs -----------------------------
(***************************************************************************)
(* What a run promises, for any feeds, aliases, targets and limits: no     *)
(* feed is asked too often, lists change only when every feed has an       *)
(* outcome, the exit code tells the truth about the lists, and a feed in   *)
(* trouble takes nothing from the others.                                  *)
(*                                                                         *)
(* The first invariant says where the loop over the aliases is, and counts *)
(* the requests: a feed without an outcome has been asked as often as its  *)
(* attempts have failed, and it is the one that is being fetched, or it    *)
(* has not been asked at all.  The second, further down, follows what each *)
(* feed contributes from its answer to the targets.                        *)
(***************************************************************************)
EXTENDS UpdateSafety, FiniteSetTheorems, TLAPS

Shape ==
    /\ pc \in {"idle", "feeds", "fetch", "targets"}
    /\ alias \in 0 .. Len(Aliases)
    /\ todo \in Seq(Feed)
    /\ attempt \in 0 .. Retries
    /\ asked \in [Feed -> Nat]

Place ==
    /\ ToSet(todo) \subseteq Used
    /\ DOMAIN outcomes \subseteq Used
    /\ pc \in {"feeds", "fetch"} =>
          \A a \in 1 .. alias : FeedsOf(a) \subseteq DOMAIN outcomes \union ToSet(todo)
    /\ pc = "fetch" => todo # << >> /\ Head(todo) \notin DOMAIN outcomes
    /\ pc = "idle" => alias = 0
    /\ pc = "targets" => Used \subseteq DOMAIN outcomes

Fetching(f) == pc = "fetch" /\ f = Head(todo)

CountOf(f) ==
    /\ asked[f] <= Retries + 1
    /\ (pc # "idle" /\ f \notin DOMAIN outcomes) =>
          asked[f] = IF Fetching(f) THEN attempt ELSE 0

Count ==
    /\ pc # "fetch" => attempt = 0
    /\ \A f \in Feed : CountOf(f)

IInv == Shape /\ Place /\ Count
-----------------------------------------------------------------------------
(* The loops over aliases and feeds. *)

(* The feeds of an alias are feeds, and are used.                          *)
LEMMA AliasFeeds ==
    ASSUME NEW a \in 1 .. Len(Aliases)
    PROVE  Aliases[a] \in Seq(Feed) /\ ToSet(Aliases[a]) \subseteq Used
<1>1. a \in DOMAIN Aliases /\ Aliases[a] \in Seq(Feed)
  BY CycleOfManyAssumption
<1> QED
  BY <1>1 DEF Used, Alias, FeedsOf

(* Used is what the feeds of all aliases are.                              *)
LEMMA UsedIsCovered ==
    ASSUME NEW S, \A a \in 1 .. Len(Aliases) : FeedsOf(a) \subseteq S
    PROVE  Used \subseteq S
<1>1. DOMAIN Aliases = 1 .. Len(Aliases)
  BY CycleOfManyAssumption
<1> QED
  BY <1>1 DEF Used, Alias

(* Taking the first feed off the list takes nothing else off.              *)
LEMMA HeadAndTail ==
    ASSUME NEW s \in Seq(Feed), s # << >>
    PROVE  /\ Head(s) \in ToSet(s) /\ Head(s) \in Feed
           /\ Tail(s) \in Seq(Feed)
           /\ ToSet(s) = {Head(s)} \union ToSet(Tail(s))
<1>1. Head(s) = s[1] /\ 1 \in DOMAIN s /\ Tail(s) \in Seq(Feed)
  OBVIOUS
<1>2. ASSUME NEW i \in DOMAIN Tail(s) PROVE Tail(s)[i] \in ToSet(s)
  <2>1. i + 1 \in DOMAIN s /\ Tail(s)[i] = s[i + 1]
    BY <1>1, <1>2
  <2> QED
    BY <2>1 DEF ToSet
<1>3. ASSUME NEW i \in DOMAIN s, i # 1 PROVE s[i] \in ToSet(Tail(s))
  <2>1. i \in 1 .. Len(s)
    OBVIOUS
  <2>2. i - 1 \in DOMAIN Tail(s) /\ Tail(s)[i - 1] = s[i]
    BY <1>3, <2>1
  <2> QED
    BY <2>2 DEF ToSet
<1>4. ToSet(s) \subseteq {Head(s)} \union ToSet(Tail(s))
  BY <1>1, <1>3 DEF ToSet
<1>5. {Head(s)} \union ToSet(Tail(s)) \subseteq ToSet(s)
  <2>1. Head(s) \in ToSet(s)
    BY <1>1 DEF ToSet
  <2>2. ToSet(Tail(s)) \subseteq ToSet(s)
    BY <1>2 DEF ToSet
  <2> QED
    BY <2>1, <2>2
<1> QED
  BY <1>1, <1>4, <1>5

(* An empty list has no elements.                                          *)
LEMMA NothingInEmpty == ToSet(<< >>) = {} /\ DOMAIN << >> = {}
BY DEF ToSet

-----------------------------------------------------------------------------
(* The steps. *)

(* Before the first run nothing has been asked.                            *)
LEMMA InitInvariant == Init => IInv
<1> SUFFICES ASSUME Init PROVE IInv
  OBVIOUS
<1>1. Retries \in Nat /\ Len(Aliases) \in Nat
  BY CycleOfManyAssumption
<1>2. << >> \in Seq(Feed)
  OBVIOUS
<1>3. Shape
  BY <1>1, <1>2 DEF Init, Shape
<1>4. Place
  BY NothingInEmpty DEF Init, Place
<1>5. Count
  BY <1>1 DEF Init, Count, CountOf
<1> QED
  BY <1>3, <1>4, <1>5 DEF IInv

(* A request is counted, and is one more than the attempts that failed.    *)
LEMMA Asks ==
    ASSUME IInv, NEW f \in Feed, Request(f)
    PROVE  /\ asked' \in [Feed -> Nat]
           /\ asked'[f] = attempt + 1
           /\ \A g \in Feed \ {f} : asked'[g] = asked[g]
           /\ \A g \in Feed : asked'[g] <= Retries + 1
           /\ f = Head(todo) /\ todo # << >> /\ f \notin DOMAIN outcomes
<1>1. Retries \in Nat
  BY CycleOfManyAssumption
<1>2. asked[f] = attempt
  BY DEF IInv, Place, Count, CountOf, Fetching, Request
<1>3. \A g \in Feed : asked[g] <= Retries + 1
  BY DEF IInv, Count, CountOf
<1>4. asked' = [asked EXCEPT ![f] = attempt + 1]
  BY <1>2 DEF Request, IInv, Shape
<1>5. asked \in [Feed -> Nat] /\ attempt \in 0 .. Retries
  BY DEF IInv, Shape
<1> QED
  BY <1>1, <1>3, <1>4, <1>5 DEF IInv, Place, Request

(* A run that is over keeps only the counts.                               *)
LEMMA Ends ==
    ASSUME IInv, NEW code, End(code),
           asked' \in [Feed -> Nat],
           \A f \in Feed : asked'[f] <= Retries + 1
    PROVE  IInv'
<1>1. Retries \in Nat /\ Len(Aliases) \in Nat
  BY CycleOfManyAssumption
<1>2. << >> \in Seq(Feed)
  OBVIOUS
<1>3. Shape'
  BY <1>1, <1>2 DEF End, Shape
<1>4. Place'
  BY NothingInEmpty DEF End, Place
<1>5. Count'
  BY DEF End, Count, CountOf
<1> QED
  BY <1>3, <1>4, <1>5 DEF IInv

(* The counts of a run that ends without a request are what they were.     *)
LEMMA EndsQuietly ==
    ASSUME IInv, NEW code, End(code), UNCHANGED asked
    PROVE  IInv'
<1>1. asked' \in [Feed -> Nat] /\ \A f \in Feed : asked'[f] <= Retries + 1
  BY DEF IInv, Shape, Count, CountOf
<1> QED
  BY <1>1, Ends

(* A feed that has been judged has an outcome, and is taken off the list.  *)
LEMMA Judges ==
    ASSUME IInv, NEW f \in Feed, NEW r, Request(f), Judge(f, r)
    PROVE  IInv'
<1>1. /\ asked' \in [Feed -> Nat]
      /\ \A g \in Feed \ {f} : asked'[g] = asked[g]
      /\ \A g \in Feed : asked'[g] <= Retries + 1
      /\ f = Head(todo) /\ todo # << >>
  BY Asks
<1>2. /\ Tail(todo) \in Seq(Feed)
      /\ f \in ToSet(todo)
      /\ ToSet(todo) = {f} \union ToSet(Tail(todo))
  BY <1>1, HeadAndTail DEF IInv, Shape
<1>3. DOMAIN outcomes' = {f} \union DOMAIN outcomes
  BY DEF Judge
<1>4. /\ pc = "fetch" /\ pc' = "feeds" /\ attempt' = 0
      /\ todo' = Tail(todo) /\ alias' = alias
  BY DEF Judge, Request
<1>5. Shape'
  BY <1>1, <1>2, <1>4, CycleOfManyAssumption DEF IInv, Shape
<1>6. Place'
  <2>1. ToSet(todo') \subseteq Used /\ DOMAIN outcomes' \subseteq Used
    BY <1>2, <1>3, <1>4 DEF IInv, Place
  <2>2. \A a \in 1 .. alias : FeedsOf(a) \subseteq DOMAIN outcomes' \union ToSet(todo')
    BY <1>2, <1>3, <1>4 DEF IInv, Place
  <2> QED
    BY <1>4, <2>1, <2>2 DEF Place
<1>7. Count'
  <2>1. ASSUME NEW g \in Feed, g \notin DOMAIN outcomes' PROVE asked'[g] = 0
    <3>1. g # f /\ g \notin DOMAIN outcomes
      BY <1>3, <2>1
    <3>2. asked[g] = 0
      BY <1>1, <1>4, <3>1 DEF IInv, Count, CountOf, Fetching
    <3> QED
      BY <1>1, <3>1, <3>2
  <2> QED
    BY <1>1, <1>4, <2>1 DEF Count, CountOf, Fetching
<1> QED
  BY <1>5, <1>6, <1>7 DEF IInv

(* An attempt that fails is repeated while there are attempts left.        *)
LEMMA TimesOut ==
    ASSUME IInv, NEW f \in Feed, TimedOut(f)
    PROVE  IInv'
<1>1. CASE attempt < Retries
  <2>1. /\ asked' \in [Feed -> Nat]
        /\ asked'[f] = attempt + 1
        /\ \A g \in Feed \ {f} : asked'[g] = asked[g]
        /\ \A g \in Feed : asked'[g] <= Retries + 1
        /\ f = Head(todo)
    BY Asks DEF TimedOut
  <2>2. /\ attempt' = attempt + 1
        /\ pc = "fetch" /\ pc' = pc /\ todo' = todo /\ alias' = alias
        /\ outcomes' = outcomes
    BY <1>1 DEF TimedOut, Request
  <2>3. attempt' \in 0 .. Retries
    BY <1>1, <2>2, CycleOfManyAssumption DEF IInv, Shape
  <2>4. Shape' /\ Place'
    BY <2>1, <2>2, <2>3 DEF IInv, Shape, Place
  <2>5. Count'
    BY <2>1, <2>2 DEF IInv, Count, CountOf, Fetching
  <2> QED
    BY <2>4, <2>5 DEF IInv
<1>2. CASE ~(attempt < Retries)
  BY <1>2, Judges DEF TimedOut
<1> QED
  BY <1>1, <1>2

(* A run begins with no request.                                           *)
LEMMA Starts ==
    ASSUME IInv, NEW rehearse, Start(rehearse)
    PROVE  IInv'
<1>1. /\ pc = "idle" /\ pc' = "feeds"
      /\ asked' = [f \in Feed |-> 0]
      /\ alias' = alias /\ todo' = todo /\ attempt' = attempt
      /\ outcomes' = outcomes
  BY DEF Start
<1>2. Shape' /\ Place'
  BY <1>1 DEF IInv, Shape, Place
<1>3. Count'
  BY <1>1, CycleOfManyAssumption DEF IInv, Count, CountOf, Fetching
<1> QED
  BY <1>2, <1>3 DEF IInv

(* The next alias brings its feeds.                                        *)
LEMMA TakesAlias == IInv /\ NextAlias => IInv'
<1> SUFFICES ASSUME IInv, NextAlias PROVE IInv'
  OBVIOUS
<1>1. /\ pc = "feeds" /\ todo = << >> /\ alias < Len(Aliases)
      /\ alias' = alias + 1 /\ todo' = Aliases[alias + 1]
      /\ pc' = pc /\ attempt' = attempt /\ outcomes' = outcomes /\ asked' = asked
  BY DEF NextAlias, history
<1>2. alias \in 0 .. Len(Aliases) /\ Len(Aliases) \in Nat
  BY CycleOfManyAssumption DEF IInv, Shape
<1>3. alias + 1 \in 1 .. Len(Aliases)
  BY <1>1, <1>2
<1>4. todo' \in Seq(Feed) /\ ToSet(todo') \subseteq Used
  BY <1>1, <1>3, AliasFeeds
<1>5. Shape'
  BY <1>1, <1>3, <1>4 DEF IInv, Shape
<1>6. Place'
  <2>1. ASSUME NEW a \in 1 .. alias + 1
        PROVE  FeedsOf(a) \subseteq DOMAIN outcomes \union ToSet(todo')
    <3>1. CASE a = alias + 1
      BY <1>1, <3>1 DEF FeedsOf
    <3>2. CASE a # alias + 1
      <4>1. a \in 1 .. alias
        BY <1>2, <2>1, <3>2
      <4> QED
        BY <1>1, <4>1, NothingInEmpty DEF IInv, Place
    <3> QED
      BY <3>1, <3>2
  <2> QED
    BY <1>1, <1>4, <2>1 DEF IInv, Place
<1>7. Count'
  BY <1>1 DEF IInv, Count, CountOf, Fetching
<1> QED
  BY <1>5, <1>6, <1>7 DEF IInv

(* A feed that has an outcome is passed over.                              *)
LEMMA Skips == IInv /\ Skip => IInv'
<1> SUFFICES ASSUME IInv, Skip PROVE IInv'
  OBVIOUS
<1>1. /\ pc = "feeds" /\ todo # << >> /\ Head(todo) \in DOMAIN outcomes
      /\ todo' = Tail(todo) /\ alias' = alias
      /\ pc' = pc /\ attempt' = attempt /\ outcomes' = outcomes /\ asked' = asked
  BY DEF Skip, history
<1>2. Tail(todo) \in Seq(Feed) /\ ToSet(todo) = {Head(todo)} \union ToSet(Tail(todo))
  BY <1>1, HeadAndTail DEF IInv, Shape
<1>3. Shape' /\ Place'
  BY <1>1, <1>2 DEF IInv, Shape, Place
<1>4. Count'
  BY <1>1 DEF IInv, Count, CountOf, Fetching
<1> QED
  BY <1>3, <1>4 DEF IInv

(* A feed that has no outcome is fetched; no attempt has failed yet.       *)
LEMMA Loads == IInv /\ Load => IInv'
<1> SUFFICES ASSUME IInv, Load PROVE IInv'
  OBVIOUS
<1>1. /\ pc = "feeds" /\ todo # << >> /\ Head(todo) \notin DOMAIN outcomes
      /\ pc' = "fetch" /\ todo' = todo /\ alias' = alias
      /\ attempt' = attempt /\ outcomes' = outcomes /\ asked' = asked
  BY DEF Load, history
<1>2. Shape' /\ Place'
  BY <1>1 DEF IInv, Shape, Place
<1>3. Count'
  BY <1>1 DEF IInv, Count, CountOf, Fetching
<1> QED
  BY <1>2, <1>3 DEF IInv

(* After the last alias every used feed has an outcome.                    *)
LEMMA Builds == IInv /\ Build => IInv'
<1> SUFFICES ASSUME IInv, Build PROVE IInv'
  OBVIOUS
<1>1. /\ pc = "feeds" /\ todo = << >> /\ alias = Len(Aliases)
      /\ pc' = "targets" /\ todo' = todo /\ alias' = alias
      /\ attempt' = attempt /\ outcomes' = outcomes /\ asked' = asked
  BY DEF Build, history
<1>2. \A a \in 1 .. Len(Aliases) : FeedsOf(a) \subseteq DOMAIN outcomes
  BY <1>1, NothingInEmpty DEF IInv, Place
<1>3. Used \subseteq DOMAIN outcomes
  BY <1>2, UsedIsCovered
<1>4. Shape' /\ Place'
  BY <1>1, <1>3 DEF IInv, Shape, Place
<1>5. Count'
  BY <1>1 DEF IInv, Count, CountOf, Fetching
<1> QED
  BY <1>4, <1>5 DEF IInv

(* Writing a list changes nothing but the lists.                           *)
LEMMA Writes == IInv /\ (Write \/ NextTarget) => IInv'
BY DEF Write, NextTarget, Writing, history, IInv, Shape, Place, Count, CountOf, Fetching

(* Every step keeps the invariant.                                         *)
LEMMA Step == IInv /\ [Next]_vars => IInv'
<1> SUFFICES ASSUME IInv, [Next]_vars PROVE IInv'
  OBVIOUS
<1>1. ASSUME NEW rehearse \in BOOLEAN, Start(rehearse) PROVE IInv'
  BY <1>1, Starts
<1>2. CASE NextAlias \/ Skip \/ Load \/ Build \/ Write \/ NextTarget
  BY <1>2, TakesAlias, Skips, Loads, Builds, Writes
<1>3. CASE Finish
  BY <1>3, EndsQuietly DEF Finish, history
<1>4. ASSUME NEW f \in Feed, Fetch(f) PROVE IInv'
  <2>1. ASSUME NEW b \in Body, Answered(f, b) PROVE IInv'
    BY <2>1, Judges DEF Answered
  <2>2. ASSUME NEW b \in Body, NotModified(f, b) PROVE IInv'
    BY <2>2, Judges DEF NotModified
  <2>3. CASE Refused(f)
    BY <2>3, Judges DEF Refused
  <2>4. CASE TimedOut(f)
    BY <2>4, TimesOut
  <2> QED
    BY <1>4, <2>1, <2>2, <2>3, <2>4 DEF Fetch
<1>5. CASE LoadFails
  BY <1>5, EndsQuietly DEF LoadFails, history
<1>6. CASE WriteFails
  BY <1>6, EndsQuietly DEF WriteFails, history
<1>7. CASE Crash
  BY <1>7, EndsQuietly DEF Crash, history
<1>8. ASSUME NEW f \in Feed, NEW b \in Body, StoreFails(f, b) PROVE IInv'
  <2>1. End("hard error") /\ Request(f)
    BY <1>8 DEF StoreFails
  <2>2. asked' \in [Feed -> Nat] /\ \A g \in Feed : asked'[g] <= Retries + 1
    BY <2>1, Asks
  <2> QED
    BY <2>1, <2>2, Ends
<1>9. CASE UNCHANGED vars
  BY <1>9 DEF vars, IInv, Shape, Place, Count, CountOf, Fetching
<1> QED
  BY <1>1, <1>2, <1>3, <1>4, <1>5, <1>6, <1>7, <1>8, <1>9 DEF Next, Proceed

-----------------------------------------------------------------------------
(* The theorems. *)

(* The invariant holds throughout.                                         *)
THEOREM Invariance == Spec => []IInv
BY InitInvariant, Step, PTL DEF Spec

(* In one run no provider is asked more often than the retries allow,      *)
(* whatever fails and however many aliases share its feed                  *)
(* (pipeline.go:86, http.go:162).                                          *)
THEOREM LimitHolds == Spec => []AskedWithinLimit
<1>1. IInv => AskedWithinLimit
  BY DEF IInv, Count, CountOf, AskedWithinLimit
<1> QED
  BY <1>1, Invariance, PTL

(* Lists change only in a real run that has an outcome for every feed      *)
(* (pipeline.go:96, 133).                                                  *)
THEOREM OnlyWholeRunsPublish == Spec => PublishedOnlyWhole
<1>1. ASSUME IInv, [Next]_vars, published' # published
      PROVE  ~dry /\ DOMAIN outcomes = Used
  <2>1. CASE Write
    BY <1>1, <2>1 DEF Write, Writing, IInv, Place
  <2>2. CASE Start(TRUE) \/ Start(FALSE)
    BY <1>1, <2>2 DEF Start
  <2>3. CASE NextAlias \/ Skip \/ Load \/ Build \/ NextTarget \/ Finish
    BY <1>1, <2>3 DEF NextAlias, Skip, Load, Build, NextTarget, Finish
  <2>4. ASSUME NEW f \in Feed, Fetch(f) PROVE FALSE
    <3>1. ASSUME NEW r, Judge(f, r) PROVE FALSE
      BY <1>1, <3>1 DEF Judge
    <3>2. ASSUME NEW b \in Body, Answered(f, b) PROVE FALSE
      BY <3>1, <3>2 DEF Answered
    <3>3. ASSUME NEW b \in Body, NotModified(f, b) PROVE FALSE
      BY <3>1, <3>3 DEF NotModified
    <3>4. CASE Refused(f)
      BY <3>1, <3>4 DEF Refused
    <3>5. CASE TimedOut(f)
      BY <1>1, <3>1, <3>5 DEF TimedOut
    <3> QED
      BY <2>4, <3>2, <3>3, <3>4, <3>5 DEF Fetch
  <2>5. CASE LoadFails \/ WriteFails \/ Crash
    BY <1>1, <2>5 DEF LoadFails, WriteFails, Crash
  <2>6. ASSUME NEW f \in Feed, NEW b \in Body, StoreFails(f, b) PROVE FALSE
    BY <1>1, <2>6 DEF StoreFails
  <2>7. CASE UNCHANGED vars
    BY <1>1, <2>7 DEF vars
  <2> QED
    BY <1>1, <2>1, <2>2, <2>3, <2>4, <2>5, <2>6, <2>7 DEF Next, Proceed
<1> QED
  BY <1>1, Invariance, PTL DEF PublishedOnlyWhole, Spec

-----------------------------------------------------------------------------
(* What a feed contributes, and where it goes. *)

Fair(f) ==
    /\ Served(f) \subseteq outcomes[f].prefixes
    /\ outcomes[f].prefixes \subseteq Served(f) \union Spare(f)
    /\ outcomes[f].status = "OK" =>
          HasAnswered(f) /\ outcomes[f].prefixes = Served(f)

Untouched(f) == ~HasAnswered(f) /\ snapshot[f] = fallback[f]

Lists ==
    /\ snapshot \in [Feed -> SUBSET Prefix]
    /\ fallback \in [Feed -> SUBSET Prefix]
    /\ met \in [Feed -> Body \union {NoBody}]
    /\ \A f \in DOMAIN outcomes : outcomes[f].prefixes \in SUBSET Prefix
    /\ published \in [ToSet(Target) -> [Alias -> SUBSET Prefix]]
    /\ target \in Nat /\ written \in 0 .. Len(Aliases)
    /\ pc # "idle" => exit = "none"
    /\ pc = "idle" => DOMAIN outcomes = {}

Contributions ==
    pc # "idle" =>
        /\ \A f \in DOMAIN outcomes : Fair(f)
        /\ \A f \in Feed : f \notin DOMAIN outcomes => Untouched(f)

(* The lists that the run has come to are those it has built.              *)
Passed(i, a) == i < target \/ (i = target /\ a <= written)

Written ==
    (pc = "targets" /\ ~dry) =>
        \A i \in 1 .. Len(Target), a \in Alias :
            Passed(i, a) => published[Target[i]][a] = ListOf(a)

TruthInv ==
    /\ Lists /\ Contributions /\ Written
    /\ ExitTellsTheTruth /\ FeedsStandAlone

-----------------------------------------------------------------------------

(* The feeds in use are feeds; the aliases and targets are numbered.       *)
LEMMA Numbered ==
    /\ Used \subseteq Feed
    /\ Alias = 1 .. Len(Aliases) /\ Len(Aliases) \in Nat
    /\ Len(Target) \in Nat
    /\ \A i \in 1 .. Len(Target) : Target[i] \in ToSet(Target)
    /\ \A t \in ToSet(Target) : \E i \in 1 .. Len(Target) : t = Target[i]
<1>1. Alias = 1 .. Len(Aliases) /\ Len(Aliases) \in Nat
  BY CycleOfManyAssumption DEF Alias
<1>2. Used \subseteq Feed
  <2>1. ASSUME NEW a \in 1 .. Len(Aliases) PROVE FeedsOf(a) \subseteq Feed
    <3>1. Aliases[a] \in Seq(Feed)
      BY AliasFeeds
    <3> QED
      BY <3>1 DEF FeedsOf, ToSet
  <2> QED
    BY <2>1, UsedIsCovered
<1>3. Len(Target) \in Nat /\ DOMAIN Target = 1 .. Len(Target)
  BY CycleOfManyAssumption
<1>4. /\ \A i \in 1 .. Len(Target) : Target[i] \in ToSet(Target)
      /\ \A t \in ToSet(Target) : \E i \in 1 .. Len(Target) : t = Target[i]
  BY <1>3 DEF ToSet
<1> QED
  BY <1>1, <1>2, <1>3, <1>4

(* A verdict is FAILED for a run that failed, and for no other.            *)
LEMMA FailedVerdict ==
    ASSUME NEW in
    PROVE  Verdict(in) = "FAILED" <=> FailedRun(in)
BY DEF Verdict

(* What a run knows when the fetch has ended in an error.                  *)
LEMMA ErrorKnows ==
    ASSUME NEW f PROVE WithError(Asked(f)).in.fetchErr
BY DEF WithError, Asked, NoRun

(* What a run knows when the provider has served it a body.                *)
LEMMA BodyKnows ==
    ASSUME NEW f, NEW b \in Body
    PROVE  LET in == WithBody(Asked(f), b).in
           IN  /\ in.list = Lines[b]
               /\ ~in.notModified
               /\ in.fetchErr => Lines[b] = {}
<1> DEFINE start == Asked(f).in
<1>1. ~start.fetchErr /\ ~start.notModified /\ start.list = {}
  BY DEF Asked, NoRun
<1>2. DOMAIN start = DOMAIN NoRun.in
  BY DEF Asked, NoRun
<1>3. WithBody(Asked(f), b).in = Parsed(start, b)
  BY DEF WithBody, Asked, NoRun
<1>4. {"fetchErr", "notModified", "list", "sha", "parsed", "rejected"}
          \subseteq DOMAIN start
  BY <1>2 DEF NoRun
<1>5. CASE b \in Unreadable
  <2>1. Lines[b] = {}
    BY <1>5, CycleAssumption
  <2>2. Parsed(start, b) = [start EXCEPT !.fetchErr = TRUE, !.sha = b]
    BY <1>5 DEF Parsed
  <2> HIDE DEF start
  <2> QED
    BY <1>1, <1>3, <1>4, <2>1, <2>2
<1>6. CASE b \notin Unreadable
  <2>1. Parsed(start, b) =
            [start EXCEPT !.sha      = b,
                          !.list     = Lines[b],
                          !.parsed   = Cardinality({e[1] : e \in Lines[b]}),
                          !.rejected = Rejected[b]]
    BY <1>6 DEF Parsed
  <2> HIDE DEF start
  <2> QED
    BY <1>1, <1>3, <1>4, <2>1
<1> QED
  BY <1>5, <1>6

(* What a run knows when the provider has answered 304: enough not to fail,*)
(* and that the copy is what goes out and stays.                           *)
LEMMA ConfirmationKnows ==
    ASSUME NEW f, NEW b, NEW snap
    PROVE  LET r == WithCached(With304(Asked(f), b), snap)
           IN  /\ ~FailedRun(r.in) /\ ~Keeps(r.in)
               /\ Consumed(r.in, snap) = snap
<1> DEFINE a  == Asked(f)
           w  == With304(a, b)
           in == WithCached(w, snap).in
<1>1. /\ DOMAIN a = DOMAIN NoRun /\ DOMAIN a.in = DOMAIN NoRun.in
      /\ ~a.in.fetchErr
  BY DEF Asked, NoRun
<1> HIDE DEF a
<1>2. /\ "in" \in DOMAIN a
      /\ {"fetchErr", "notModified", "list", "sha"} \subseteq DOMAIN a.in
  BY <1>1 DEF NoRun
<1>3. /\ DOMAIN w = DOMAIN a /\ DOMAIN w.in = DOMAIN a.in
      /\ ~w.in.fetchErr /\ w.in.notModified
  BY <1>1, <1>2 DEF With304
<1> HIDE DEF w
<1>4. ~in.fetchErr /\ in.notModified
  BY <1>2, <1>3 DEF WithCached
<1> HIDE DEF in
<1>5. ~FailedRun(in)
  BY <1>4 DEF FailedRun
<1>6. ~Keeps(in) /\ Consumed(in, snap) = snap
  BY <1>4, <1>5 DEF Keeps, Consumed, DropFeed, UseLastGood
<1> QED
  BY <1>5, <1>6 DEF in, w, a

(* A body without an entry that survives the sanity floor is a failure,    *)
(* and one with such an entry that can be read is none.                    *)
LEMMA FailureIsEmpty ==
    ASSUME NEW f, NEW b \in Body
    PROVE  FailedRun(WithBody(Asked(f), b).in) => Clean(Lines[b]) = {}
<1> DEFINE in == WithBody(Asked(f), b).in
<1> HIDE DEF in
<1>1. in.list = Lines[b] /\ ~in.notModified /\ (in.fetchErr => Lines[b] = {})
  BY BodyKnows DEF in
<1>2. CASE in.fetchErr
  BY <1>1, <1>2 DEF Clean, Kept
<1>3. CASE EntryCount(in) = 0
  <2>1. IsFiniteSet(Kept(Lines[b]))
    <3>1. IsFiniteSet(Lines[b]) /\ Kept(Lines[b]) \subseteq Lines[b]
      BY CycleAssumption DEF Kept
    <3> QED
      BY <3>1, FS_Subset
  <2>2. Kept(Lines[b]) = {}
    BY <1>1, <1>3, <2>1, FS_EmptySet DEF EntryCount
  <2> QED
    BY <2>2 DEF Clean
<1>4. FailedRun(in) => in.fetchErr \/ EntryCount(in) = 0
  BY DEF FailedRun
<1> QED
  BY <1>2, <1>3, <1>4 DEF in

(* A failure brings nothing or the last-good list.                         *)
LEMMA FailureContributes ==
    ASSUME NEW f, NEW r, FailedRun(r.in)
    PROVE  /\ Contributes(f, r).prefixes \in {{}, snapshot[f]}
           /\ Contributes(f, r).status = "FAILED"
<1>1. Consumed(r.in, snapshot[f]) \in {{}, snapshot[f]}
  BY DEF Consumed, DropFeed, UseLastGood
<1> QED
  BY <1>1, FailedVerdict DEF Contributes

(* Any other answer brings what it served.                                 *)
LEMMA BodyContributes ==
    ASSUME NEW f, NEW b \in Body, ~FailedRun(WithBody(Asked(f), b).in)
    PROVE  Contributes(f, WithBody(Asked(f), b)).prefixes = Clean(Lines[b])
<1> DEFINE in == WithBody(Asked(f), b).in
<1>1. in.list = Lines[b] /\ ~in.notModified
  BY BodyKnows
<1> HIDE DEF in
<1>2. ~FailedRun(in)
  BY DEF in
<1>3. Consumed(in, snapshot[f]) = Clean(Lines[b])
  BY <1>1, <1>2 DEF Consumed, DropFeed, UseLastGood
<1> QED
  BY <1>3 DEF Contributes, in

-----------------------------------------------------------------------------
(* The steps. *)

(* A run that has no exit code yet claims nothing.                         *)
LEMMA SilentRun ==
    /\ exit = "none" => ExitTellsTheTruth /\ FeedsStandAlone
    /\ exit' = "none" => ExitTellsTheTruth' /\ FeedsStandAlone'
BY DEF ExitTellsTheTruth, FeedsStandAlone, Complete

(* Before the first run there is nothing to claim.                         *)
LEMMA InitTruth == Init => TruthInv
<1> SUFFICES ASSUME Init PROVE TruthInv
  OBVIOUS
<1>1. Lists
  BY Numbered, NothingInEmpty DEF Init, Lists
<1>2. Contributions /\ Written
  BY DEF Init, Contributions, Written
<1>3. ExitTellsTheTruth /\ FeedsStandAlone
  BY SilentRun DEF Init
<1> QED
  BY <1>1, <1>2, <1>3 DEF TruthInv

(* A step that leaves the lists, the outcomes and the exit code alone.     *)
LEMMA Unmoved ==
    ASSUME TruthInv, pc # "idle", pc' \notin {"idle", "targets"},
           UNCHANGED <<snapshot, fallback, met, unmodified, outcomes,
                       published, target, written, exit>>
    PROVE  TruthInv'
<1>1. exit' = "none" /\ Lists'
  BY DEF TruthInv, Lists
<1>2. ASSUME NEW f
      PROVE  /\ Served(f)' = Served(f) /\ Spare(f)' = Spare(f)
             /\ HasAnswered(f)' = HasAnswered(f)
  BY DEF Served, Spare, HasAnswered
<1>3. Contributions'
  BY <1>2 DEF TruthInv, Contributions, Fair, Untouched
<1>4. Written'
  BY DEF Written
<1> QED
  BY <1>1, <1>3, <1>4, SilentRun DEF TruthInv

(* A run begins: nothing served, and the last-good lists as they are.      *)
LEMMA StartsTruthfully ==
    ASSUME TruthInv, NEW rehearse, Start(rehearse)
    PROVE  TruthInv'
<1>1. /\ pc = "idle" /\ pc' = "feeds" /\ exit' = "none"
      /\ met' = [f \in Feed |-> NoBody] /\ unmodified' = {}
      /\ fallback' = snapshot
      /\ snapshot' = snapshot /\ outcomes' = outcomes
      /\ published' = published /\ target' = target /\ written' = written
  BY DEF Start, store
<1>2. DOMAIN outcomes' = {}
  BY <1>1 DEF TruthInv, Lists
<1>3. Lists'
  BY <1>1 DEF TruthInv, Lists
<1>4. Contributions' /\ Written'
  BY <1>1, <1>2 DEF Contributions, Untouched, HasAnswered, Written
<1> QED
  BY <1>1, <1>3, <1>4, SilentRun DEF TruthInv

(* What the answer of one feed contributes is fair, and the others stay    *)
(* as they are.                                                            *)
LEMMA JudgesTruthfully ==
    ASSUME IInv, TruthInv, NEW f \in Feed, NEW r,
           NEW got \in SUBSET Prefix,
           Request(f), Judge(f, r),
           met' \in [Feed -> Body \union {NoBody}],
           \A g \in Feed \ {f} :
               met'[g] = met[g] /\ (g \in unmodified' <=> g \in unmodified),
           Served(f)' = got,
           FailedRun(r.in) => got = {},
           ~FailedRun(r.in) =>
               HasAnswered(f)' /\ Contributes(f, r).prefixes = got,
           Keeps(r.in) => Clean(r.in.list) \in SUBSET Prefix
    PROVE  TruthInv'
<1> DEFINE c == Contributes(f, r)
<1>1. /\ pc = "fetch" /\ pc' = "feeds" /\ exit' = exit
      /\ published' = published /\ target' = target /\ written' = written
      /\ fallback' = fallback
      /\ outcomes' = [g \in DOMAIN outcomes \union {f} |->
                         IF g = f THEN c ELSE outcomes[g]]
  BY DEF Request, Judge
<1>2. f \notin DOMAIN outcomes
  BY <1>1 DEF IInv, Place, Request
<1>3. snapshot[f] = fallback[f]
  BY <1>1, <1>2 DEF TruthInv, Contributions, Untouched
<1>4. ASSUME NEW g \in Feed \ {f}
      PROVE  /\ Served(g)' = Served(g) /\ Spare(g)' = Spare(g)
             /\ HasAnswered(g)' = HasAnswered(g)
  BY <1>1 DEF Served, Spare, HasAnswered
<1>5. /\ snapshot' \in [Feed -> SUBSET Prefix]
      /\ \A g \in Feed \ {f} : snapshot'[g] = snapshot[g]
  BY DEF Judge, store, TruthInv, Lists
<1>6. DOMAIN outcomes \subseteq Feed
  BY Numbered DEF IInv, Place
<1>7. snapshot[f] \in SUBSET Prefix
  BY DEF TruthInv, Lists
<1>8. Fair(f)' /\ c.prefixes \in SUBSET Prefix
  <2>1. outcomes'[f] = c
    BY <1>1
  <2>2. Spare(f)' = IF got = {} THEN snapshot[f] ELSE {}
    BY <1>1, <1>3 DEF Spare
  <2>3. CASE FailedRun(r.in)
    <3>1. c.prefixes \in {{}, snapshot[f]} /\ c.status = "FAILED"
      BY <2>3, FailureContributes
    <3> QED
      BY <1>7, <2>1, <2>2, <2>3, <3>1 DEF Fair
  <2>4. CASE ~FailedRun(r.in)
    <3>1. HasAnswered(f)' /\ c.prefixes = got
      BY <2>4
    <3> QED
      BY <2>1, <3>1 DEF Fair
  <2> QED
    BY <2>3, <2>4
<1>9. ASSUME NEW g \in DOMAIN outcomes PROVE Fair(g)'
  <2>1. Fair(g) /\ g \in Feed \ {f}
    BY <1>1, <1>2, <1>6 DEF TruthInv, Contributions
  <2>2. outcomes'[g] = outcomes[g]
    BY <1>1, <2>1
  <2> QED
    BY <1>4, <2>1, <2>2 DEF Fair
<1>10. ASSUME NEW g \in Feed, g \notin DOMAIN outcomes' PROVE Untouched(g)'
  <2>1. g # f /\ g \notin DOMAIN outcomes
    BY <1>1, <1>10
  <2>2. Untouched(g)
    BY <1>1, <2>1 DEF TruthInv, Contributions
  <2> QED
    BY <1>1, <1>4, <1>5, <2>1, <2>2 DEF Untouched
<1>11. Contributions'
  BY <1>1, <1>8, <1>9, <1>10 DEF Contributions
<1>12. Lists' /\ Written'
  <2>1. \A g \in DOMAIN outcomes' : outcomes'[g].prefixes \in SUBSET Prefix
    <3> HIDE DEF c
    <3> QED
      BY <1>1, <1>8 DEF TruthInv, Lists
  <2> QED
    BY <1>1, <1>5, <2>1 DEF TruthInv, Lists, Written
<1>13. exit' = "none"
  BY <1>1 DEF TruthInv, Lists
<1> QED
  BY <1>11, <1>12, <1>13, SilentRun DEF TruthInv

(* A feed is fetched: the provider serves or confirms it, or the fetch     *)
(* fails.                                                                  *)
LEMMA FetchesTruthfully ==
    ASSUME IInv, TruthInv, NEW f \in Feed, Fetch(f)
    PROVE  TruthInv'
<1>1. /\ met \in [Feed -> Body \union {NoBody}]
      /\ snapshot[f] \in SUBSET Prefix
  BY DEF TruthInv, Lists
<1>2. ASSUME Request(f)
      PROVE  met[f] = NoBody /\ f \notin unmodified /\ snapshot[f] = fallback[f]
  <2>1. pc # "idle" /\ f \notin DOMAIN outcomes
    BY <1>2 DEF IInv, Place, Request
  <2> QED
    BY <2>1 DEF TruthInv, Contributions, Untouched, HasAnswered
<1>3. ASSUME NEW b \in Body, Answered(f, b) PROVE TruthInv'
  <2> DEFINE r   == WithBody(Asked(f), b)
             got == Clean(Lines[b])
  <2>1. /\ Request(f) /\ Judge(f, r)
        /\ met' = [met EXCEPT ![f] = b] /\ unmodified' = unmodified
    BY <1>3 DEF Answered
  <2>2. b # NoBody
    BY HealthAssumption
  <2>3. r.in.list = Lines[b]
    BY BodyKnows
  <2>4. got \in SUBSET Prefix /\ Clean(r.in.list) \in SUBSET Prefix
    <3>1. Lines[b] \subseteq Nat \X Prefix
      BY CycleAssumption
    <3> QED
      BY <2>3, <3>1 DEF Clean, Kept
  <2>5. /\ FailedRun(r.in) => got = {}
        /\ ~FailedRun(r.in) => Contributes(f, r).prefixes = got
    BY FailureIsEmpty, BodyContributes
  <2> HIDE DEF r
  <2>6. /\ met' \in [Feed -> Body \union {NoBody}] /\ met'[f] = b
        /\ \A g \in Feed \ {f} : met'[g] = met[g]
    BY <1>1, <2>1
  <2>7. Served(f)' = got /\ HasAnswered(f)'
    BY <1>2, <2>1, <2>2, <2>6 DEF Served, HasAnswered
  <2> HIDE DEF got
  <2> QED
    BY <2>1, <2>4, <2>5, <2>6, <2>7, JudgesTruthfully
<1>4. ASSUME NEW b \in Body, NotModified(f, b) PROVE TruthInv'
  <2> DEFINE r == WithCached(With304(Asked(f), b), snapshot[f])
  <2>1. /\ Request(f) /\ Judge(f, r)
        /\ met' = met /\ unmodified' = unmodified \union {f}
    BY <1>4 DEF NotModified
  <2>2. ~FailedRun(r.in) /\ ~Keeps(r.in) /\ Contributes(f, r).prefixes = snapshot[f]
    BY ConfirmationKnows DEF Contributes
  <2> HIDE DEF r
  <2>3. fallback' = fallback
    BY <2>1 DEF Judge
  <2>4. Served(f)' = snapshot[f] /\ HasAnswered(f)'
    BY <1>2, <2>1, <2>3 DEF Served, HasAnswered
  <2> QED
    BY <1>1, <2>1, <2>2, <2>4, JudgesTruthfully
<1>5. ASSUME Request(f), Judge(f, WithError(Asked(f))),
             UNCHANGED <<met, unmodified>>
      PROVE  TruthInv'
  <2> DEFINE r == WithError(Asked(f))
  <2>1. FailedRun(r.in)
    BY ErrorKnows DEF FailedRun
  <2>2. ~Keeps(r.in)
    BY <2>1, FailedVerdict DEF Keeps
  <2>3. Judge(f, r)
    BY <1>5
  <2> HIDE DEF r
  <2>4. Served(f)' = {}
    BY <1>2, <1>5 DEF Served
  <2> QED
    BY <1>1, <1>5, <2>1, <2>2, <2>3, <2>4, JudgesTruthfully
<1>6. CASE Refused(f)
  BY <1>5, <1>6 DEF Refused
<1>7. CASE TimedOut(f)
  <2>1. CASE attempt < Retries
    BY <1>7, <2>1, Unmoved DEF TimedOut, Request, store
  <2>2. CASE ~(attempt < Retries)
    BY <1>5, <1>7, <2>2 DEF TimedOut
  <2> QED
    BY <2>1, <2>2
<1> QED
  BY <1>3, <1>4, <1>6, <1>7 DEF Fetch

(* The run turns to the targets, and has written nothing yet.              *)
LEMMA BuildsTruthfully ==
    ASSUME TruthInv, Build
    PROVE  TruthInv'
<1>1. /\ pc = "feeds" /\ pc' = "targets" /\ target' = 1 /\ written' = 0
      /\ exit' = exit /\ snapshot' = snapshot /\ fallback' = fallback
      /\ met' = met /\ unmodified' = unmodified
      /\ outcomes' = outcomes /\ published' = published
  BY DEF Build, store, history
<1>2. exit' = "none" /\ Lists'
  BY <1>1, Numbered DEF TruthInv, Lists
<1>3. ASSUME NEW f
      PROVE  /\ Served(f)' = Served(f) /\ Spare(f)' = Spare(f)
             /\ HasAnswered(f)' = HasAnswered(f)
  BY <1>1 DEF Served, Spare, HasAnswered
<1>4. Contributions'
  BY <1>1, <1>3 DEF TruthInv, Contributions, Fair, Untouched
<1>5. Written'
  <2>1. \A i \in 1 .. Len(Target), a \in Alias : ~Passed(i, a)'
    BY <1>1, Numbered DEF Passed
  <2> QED
    BY <2>1 DEF Written
<1> QED
  BY <1>2, <1>4, <1>5, SilentRun DEF TruthInv

(* The run has an outcome for each feed, and builds its lists from them.   *)
LEMMA ListType ==
    ASSUME Lists, NEW a
    PROVE  ListOf(a) \in SUBSET Prefix
BY DEF Lists, ListOf

(* One more list, or one more target.                                      *)
LEMMA WritesTruthfully ==
    ASSUME TruthInv, Write \/ NextTarget
    PROVE  TruthInv'
<1>1. /\ pc = "targets" /\ pc' = pc /\ dry' = dry
      /\ target <= Len(Target)
      /\ exit' = exit /\ snapshot' = snapshot /\ fallback' = fallback
      /\ met' = met /\ unmodified' = unmodified /\ outcomes' = outcomes
  BY DEF Write, NextTarget, Writing, store, history
<1>2. target \in Nat /\ written \in 0 .. Len(Aliases) /\ exit = "none"
  BY <1>1 DEF TruthInv, Lists
<1>3. \A a : ListOf(a)' = ListOf(a)
  BY <1>1 DEF ListOf
<1>4. ASSUME NEW f
      PROVE  /\ Served(f)' = Served(f) /\ Spare(f)' = Spare(f)
             /\ HasAnswered(f)' = HasAnswered(f)
  BY <1>1 DEF Served, Spare, HasAnswered
<1>5. Contributions'
  BY <1>1, <1>4 DEF TruthInv, Contributions, Fair, Untouched
<1>6. Lists' /\ Written'
  <2>1. CASE Write
    <3> DEFINE T == Target[target]
               k == written + 1
    <3>1. written < Len(Aliases) /\ written' = k /\ target' = target
      BY <2>1 DEF Write, Writing
    <3>2. k \in Alias
      BY <1>2, <3>1, Numbered
    <3>3. /\ written' \in 0 .. Len(Aliases) /\ target' \in Nat
      BY <1>2, <3>1, Numbered
    <3>4. CASE dry
      <4>1. published' = published
        BY <2>1, <3>4 DEF Write
      <4> QED
        BY <1>1, <3>3, <3>4, <4>1 DEF TruthInv, Lists, Written
    <3>5. CASE ~dry
      <4>1. published' = [published EXCEPT ![T][k] = ListOf(k)]
        BY <2>1, <3>5 DEF Write, Published
      <4>2. published \in [ToSet(Target) -> [Alias -> SUBSET Prefix]]
        BY DEF TruthInv, Lists
      <4>3. ListOf(k) \in SUBSET Prefix
        BY ListType DEF TruthInv
      <4> HIDE DEF T, k
      <4>4. published' \in [ToSet(Target) -> [Alias -> SUBSET Prefix]]
        BY <4>1, <4>2, <4>3
      <4>5. \A t \in ToSet(Target), a \in Alias :
                published'[t][a] = IF t = T /\ a = k THEN ListOf(k)
                                   ELSE published[t][a]
        BY <3>2, <4>1, <4>2
      <4>6. ASSUME NEW i \in 1 .. Len(Target), NEW a \in Alias, Passed(i, a)'
            PROVE  published'[Target[i]][a] = ListOf(a)
        <5>1. Target[i] \in ToSet(Target)
          BY Numbered
        <5>2. Passed(i, a) \/ (Target[i] = T /\ a = k)
          <6>1. i < target \/ (i = target /\ a <= k)
            BY <3>1, <4>6 DEF Passed
          <6>2. a \in Nat /\ k = written + 1
            BY Numbered DEF k
          <6> QED
            BY <1>2, <6>1, <6>2 DEF Passed, T
        <5>3. Passed(i, a) => published[Target[i]][a] = ListOf(a)
          BY <1>1, <3>5 DEF TruthInv, Written
        <5> QED
          BY <4>5, <5>1, <5>2, <5>3
      <4>7. Lists'
        BY <1>1, <3>3, <4>4 DEF TruthInv, Lists
      <4>8. Written'
        BY <1>3, <4>6 DEF Written
      <4> QED
        BY <4>7, <4>8
    <3> QED
      BY <3>4, <3>5
  <2>2. CASE NextTarget
    <3>1. /\ written = Len(Aliases) /\ written' = 0 /\ target' = target + 1
          /\ published' = published
      BY <2>2 DEF NextTarget
    <3>2. Lists'
      BY <1>1, <1>2, <3>1, Numbered DEF TruthInv, Lists
    <3>3. ASSUME NEW i \in 1 .. Len(Target), NEW a \in Alias, Passed(i, a)'
          PROVE  Passed(i, a)
      BY <1>2, <3>1, <3>3, Numbered DEF Passed
    <3>4. Written'
      BY <1>1, <1>3, <3>1, <3>3 DEF TruthInv, Written
    <3> QED
      BY <3>2, <3>4
  <2> QED
    BY <2>1, <2>2
<1> QED
  BY <1>1, <1>2, <1>5, <1>6, SilentRun DEF TruthInv

(* All targets have all lists: the exit code may tell.                     *)
LEMMA FinishesTruthfully ==
    ASSUME IInv, TruthInv, Finish
    PROVE  TruthInv'
<1>1. /\ pc = "targets" /\ target > Len(Target) /\ pc' = "idle"
      /\ exit' = (IF Healthy THEN "ok" ELSE "unhealthy")
      /\ DOMAIN outcomes' = {} /\ target' = 0 /\ written' = 0
      /\ dry' = dry /\ snapshot' = snapshot /\ fallback' = fallback
      /\ met' = met /\ unmodified' = unmodified /\ published' = published
  BY NothingInEmpty DEF Finish, End, store, history
<1>2. Lists' /\ Contributions' /\ Written'
  BY <1>1, Numbered DEF TruthInv, Lists, Contributions, Written
<1>3. ASSUME NEW a \in Alias
      PROVE  /\ FeedsOf(a) \subseteq DOMAIN outcomes
             /\ ListOf(a) = UNION {outcomes[f].prefixes : f \in FeedsOf(a)}
  <2>1. FeedsOf(a) \subseteq Used /\ Used \subseteq DOMAIN outcomes
    BY <1>1 DEF Used, IInv, Place
  <2> QED
    BY <2>1 DEF ListOf
<1>4. \A f \in DOMAIN outcomes : Fair(f)
  BY <1>1 DEF TruthInv, Contributions
<1>5. ASSUME ~dry, NEW t \in ToSet(Target), NEW a \in Alias
      PROVE  published[t][a] = UNION {outcomes[f].prefixes : f \in FeedsOf(a)}
  <2>1. PICK i \in 1 .. Len(Target) : t = Target[i]
    BY Numbered
  <2>2. Passed(i, a)
    BY <1>1, Numbered DEF Passed, TruthInv, Lists
  <2> QED
    BY <1>1, <1>3, <1>5, <2>1, <2>2 DEF TruthInv, Written
<1>6. \A f : /\ Served(f)' = Served(f) /\ Spare(f)' = Spare(f)
            /\ HasAnswered(f)' = HasAnswered(f)
  BY <1>1 DEF Served, Spare, HasAnswered
<1>7. ExitTellsTheTruth'
  <2> SUFFICES ASSUME Healthy, ~dry, NEW t \in ToSet(Target), NEW a \in Alias
               PROVE  /\ \A f \in FeedsOf(a) : HasAnswered(f)
                      /\ published[t][a] = UNION {Served(f) : f \in FeedsOf(a)}
    BY <1>1, <1>6 DEF ExitTellsTheTruth
  <2>1. ASSUME NEW f \in FeedsOf(a)
        PROVE  HasAnswered(f) /\ outcomes[f].prefixes = Served(f)
    BY <1>3, <1>4 DEF Healthy, Fair
  <2> QED
    BY <1>5, <2>1
<1>8. FeedsStandAlone'
  <2> SUFFICES ASSUME ~dry, NEW t \in ToSet(Target), NEW a \in Alias
               PROVE  /\ UNION {Served(f) : f \in FeedsOf(a)} \subseteq published[t][a]
                      /\ published[t][a] \subseteq
                             UNION {Served(f) \union Spare(f) : f \in FeedsOf(a)}
    BY <1>1, <1>6 DEF FeedsStandAlone, Complete
  <2>1. ASSUME NEW f \in FeedsOf(a)
        PROVE  /\ Served(f) \subseteq outcomes[f].prefixes
               /\ outcomes[f].prefixes \subseteq Served(f) \union Spare(f)
    BY <1>3, <1>4 DEF Fair
  <2>2. published[t][a] = UNION {outcomes[f].prefixes : f \in FeedsOf(a)}
    BY <1>5
  <2> QED
    BY <2>1, <2>2
<1> QED
  BY <1>2, <1>7, <1>8 DEF TruthInv

(* A run that breaks off claims nothing about the lists.                   *)
LEMMA BreaksOff ==
    ASSUME TruthInv, NEW code, End(code), code \notin {"ok", "unhealthy"},
           UNCHANGED <<snapshot, fallback, met, published>>
    PROVE  TruthInv'
<1>1. /\ pc' = "idle" /\ exit' = code /\ DOMAIN outcomes' = {}
      /\ target' = 0 /\ written' = 0
      /\ snapshot' = snapshot /\ fallback' = fallback
      /\ met' = met /\ published' = published
  BY NothingInEmpty DEF End
<1>2. Lists'
  <2>1. /\ snapshot \in [Feed -> SUBSET Prefix]
        /\ fallback \in [Feed -> SUBSET Prefix]
        /\ met \in [Feed -> Body \union {NoBody}]
        /\ published \in [ToSet(Target) -> [Alias -> SUBSET Prefix]]
    BY DEF TruthInv, Lists
  <2>2. target' \in Nat /\ written' \in 0 .. Len(Aliases)
    BY <1>1, Numbered
  <2> QED
    BY <1>1, <2>1, <2>2 DEF Lists
<1>3. Contributions' /\ Written'
  BY <1>1 DEF Contributions, Written
<1>4. ExitTellsTheTruth' /\ FeedsStandAlone'
  BY <1>1 DEF ExitTellsTheTruth, FeedsStandAlone, Complete
<1> QED
  BY <1>2, <1>3, <1>4 DEF TruthInv

(* Every step keeps the second invariant where the first one holds.        *)
LEMMA TruthStep == IInv /\ TruthInv /\ [Next]_vars => TruthInv'
<1> SUFFICES ASSUME IInv, TruthInv, [Next]_vars PROVE TruthInv'
  OBVIOUS
<1>1. ASSUME NEW rehearse \in BOOLEAN, Start(rehearse) PROVE TruthInv'
  BY <1>1, StartsTruthfully
<1>2. CASE NextAlias \/ Skip \/ Load
  <2>1. /\ pc = "feeds" /\ pc' \notin {"idle", "targets"}
        /\ UNCHANGED <<snapshot, fallback, met, unmodified, outcomes,
                       published, target, written, exit>>
    BY <1>2 DEF NextAlias, Skip, Load, store, history
  <2> QED
    BY <2>1, Unmoved
<1>3. CASE Build
  BY <1>3, BuildsTruthfully
<1>4. CASE Write \/ NextTarget
  BY <1>4, WritesTruthfully
<1>5. CASE Finish
  BY <1>5, FinishesTruthfully
<1>6. ASSUME NEW f \in Feed, Fetch(f) PROVE TruthInv'
  BY <1>6, FetchesTruthfully
<1>7. CASE LoadFails \/ WriteFails
  BY <1>7, BreaksOff DEF LoadFails, WriteFails, store, history
<1>8. CASE Crash
  BY <1>8, BreaksOff DEF Crash, store, history
<1>9. ASSUME NEW f \in Feed, NEW b \in Body, StoreFails(f, b) PROVE TruthInv'
  BY <1>9, BreaksOff DEF StoreFails
<1>10. CASE UNCHANGED vars
  <2>1. ASSUME NEW f PROVE Fair(f)' = Fair(f) /\ Untouched(f)' = Untouched(f)
    BY <1>10 DEF vars, Fair, Untouched, Served, Spare, HasAnswered
  <2>2. Lists' /\ Contributions'
    BY <1>10, <2>1 DEF vars, TruthInv, Lists, Contributions
  <2>3. Written'
    BY <1>10 DEF vars, TruthInv, Written, Passed, ListOf
  <2>4. ExitTellsTheTruth' /\ FeedsStandAlone'
    BY <1>10 DEF vars, TruthInv, ExitTellsTheTruth, FeedsStandAlone,
                 Complete, Served, Spare, HasAnswered
  <2> QED
    BY <2>2, <2>3, <2>4 DEF TruthInv
<1> QED
  BY <1>1, <1>2, <1>3, <1>4, <1>5, <1>6, <1>7, <1>8, <1>9, <1>10
     DEF Next, Proceed

-----------------------------------------------------------------------------

(* The second invariant holds throughout.                                  *)
THEOREM TruthInvariance == Spec => []TruthInv
<1>1. IInv /\ TruthInv /\ [Next]_vars => TruthInv'
  BY TruthStep
<1> QED
  BY <1>1, InitTruth, Invariance, PTL DEF Spec

(* "Exits 0 when every feed is OK" (update.go:21): after a real run that   *)
(* did, every provider has answered it, and every target has for every     *)
(* alias what its feeds were served that run, without poison, and the      *)
(* last-good lists of those that had a 304, and nothing else, whatever     *)
(* earlier runs had left there.                                            *)
THEOREM ExitCodeIsTrue == Spec => []ExitTellsTheTruth
<1>1. TruthInv => ExitTellsTheTruth
  BY DEF TruthInv
<1> QED
  BY <1>1, TruthInvariance, PTL

(* A feed in trouble takes nothing from the others, and brings at most     *)
(* its last-good list (pipeline.go:116, 207).                              *)
THEOREM TroubleStaysAtHome == Spec => []FeedsStandAlone
<1>1. TruthInv => FeedsStandAlone
  BY DEF TruthInv
<1> QED
  BY <1>1, TruthInvariance, PTL
=============================================================================
