# framedrag, verified

framedrag keeps firewall alias lists up to date from public threat feeds: it
fetches every feed, judges whether the answer can be trusted, falls back to the
last copy it trusted when it cannot, merges the feeds of an alias and publishes
one list per alias. The interesting promise is "never fail open, never fail
catastrophically" (`docs/SPEC.md` section 6): whatever providers, crashes and
overlapping runs do, what reaches the firewall is a list somebody vetted, or
nothing when that would be too old.

This directory holds TLA+ modules of the parts that carry that promise, TLC
configurations that check them on small instances, and TLAPS proofs of what
holds for every instance. All paths below are relative to `src/`.

## Inventory

| Component | State it keeps | Operations | Correct when |
|---|---|---|---|
| health verdict, `internal/health` | none: a function of the fetch and the record | `Evaluate` | failures fall back while the last good run is recent and drop the feed afterwards; unchanged content is noticed; the baseline is known-good ground |
| state store, `internal/state` | `feeds/<feed>.json`, `lastgood/<feed>.txt` | `Load`, `Save`, `LastGood`, `SaveLastGood`, each file replaced by a rename | a reader sees a whole file; the two files tell of the same run |
| update cycle of a feed, `runFeed` in `internal/pipeline` | what one run has gathered | load, fetch, judge, choose what aliases consume, save | the cached copy is a vetted body; what goes out is whole, free of poison and not stale; the record agrees with itself |
| pipeline over feeds, `Run` | outcomes by feed | fetch every distinct feed once, build alias sets, apply targets | one feed's trouble is not another's; the exit code tells |
| fetcher, `internal/fetch` | none | conditional GET with retries, backoff, size cap, redirect policy | at most retries + 1 attempts a feed, permanent errors not retried, the loop ends |
| file target, `internal/target` | `<dir>/<alias>.txt`; one HTTP server per target | `Apply`, `DryRun`, `Serve` | readers never see a partial list; idempotent; a dry run reports what a run would do; a server ends with every request answered or an error |
| normalize, `internal/normalize` | none | suppress own networks, merge ranges, cut into CIDRs | same address space, minimal, terminates |
| parsers, `internal/parse` | none | one body to prefixes and counts; format vote | deterministic; the parser that is chosen reads the whole body; every candidate line parsed or counted rejected |
| catalog, `internal/catalog` | the loaded feeds, and a copy of the vendored ones | load with the overlay of local feeds, select, compare with upstream | names stay unique (a collision is an error); an alias gets what it refers to, in any case, and nothing switched off; the overlay, with its keys, stays out of the comparison |
| configuration, `internal/config` | none | decode, default, validate | bad files are errors |
| commands, `cmd/framedrag` | none | `update`, `health` (a dry run), `serve`, `catalog` | an unhealthy run exits non-zero; every server is waited for and the first error returned |

Interactions. `update` and `health` both call `pipeline.Run`, the second with
`DryRun`. `Run` calls the fetcher, the store and `health.Evaluate` for each
feed, then `normalize` for each alias, then each target. Nothing is shared in
memory; everything is shared on disk. Updates come from cron, from a timer or
from a hand, there is no lock on the state or on the output directory, and
`serve` reads the output directory from yet another process. Within `serve`
every target has two goroutines of its own, its accept loop and the one that
shuts it down, and all share one context and one channel of results.

Hard behaviours: two files that are written one after the other; a record that
is read before a fetch and written back whole after it; a cached copy that is
read twice in one run; validators, hashes and copies that stem from different
runs; runs that stop between any two steps; a plan that is made before it is
applied; deletion of files another configuration wants; a store or a target
that fails in the middle of a run over many feeds; servers that fail while they
are being shut down; a parser that is chosen from the first lines; a list that
is patched after a copy of it was taken. The full list with its lines and the
properties that answer to it is under `hazards` in `PROJECT.json`.

## Modules

```
Health ── FeedCycle ─┬─ FeedRun ─┬─ FeedSafety ─┬─ FeedProofs ── LoneProofs
                     │           ├─ FeedClaims ─┤
                     │  AtomicFeed ─ FeedRefinement ── MCFeed
                     └─ UpdateCycle ── UpdateSafety ─┬─ MCUpdate
                                                     └─ UpdateProofs

FileTarget ── TargetSafety ─┬─ MCTarget
                            └─ TargetProofs ── AgreementProofs

Servers ── ServersSafety ─┬─ MCServers
                          └─ ServersProofs

Words ─┬─ Detect ── RangeParser ─┬─ ListPath ── ListSafety ─┬─ MCList
       └─ Normalize ─────────────┘                          └─ ListProofs

Catalog ── CatalogSafety ─┬─ MCCatalog
                          └─ CatalogProofs
```

`AtomicFeed` is the one module that is instantiated and not extended.
`LoneProofs` extends `FeedRefinement` as well.

**Health** is `Evaluate`. A parsed list is a set of `<<line, prefix>>` pairs,
so that duplicate lines count, as they do in the code; a prefix is a name and
`Poison` says which names the sanity floor removes. Bodies stand for their own
hash and one tag for the pair of validators (ETag and Last-Modified), which is
exact for a provider that always sends the same of the two, or none, because
the code replaces each by itself (`pipeline.go:226`). Percentages are compared as
integers, so the model does not show the rounding of the code's floats. The six
checks, the failure policy, the staleness clock and the baseline are an
operator each, and `NextState` puts the record together.

**FeedCycle** has the steps of `runFeed` as pure operators: what each answer
adds to a run (`WithError`, `With304`, `WithBody`), what aliases consume
(`Consumed`), whether the copy is replaced (`Keeps`), which record is saved
(`ToSave`).

**FeedRun** is the machine of one feed: `state` and `snapshot` are the two
files, `pc[p]` and `run[p]` the position and the locals of process `p`,
`outcome` what the last run handed on. There is one action per read, write or
decision, in the order of the code:

| Action | Code |
|---|---|
| `Start` | `Run` takes the time, once for all feeds |
| `Load` | `Store.Load` |
| `FetchError`, `FetchNotModified`, `FetchBody` | the three results of `Fetcher.Fetch` |
| `ReadCached` | `Store.LastGood` after a 304, for the verdict |
| `Decide` | `Evaluate` and the choice of the output, with its own `LastGood` |
| `Save`, `SaveLastGood` | the two renames, skipped by dry runs |
| `HandOver` | the feed's part of the alias sets reaches the target |
| `Abort` | a crash, a signal, or a store error: the run ends where it is |
| `Tick`, `Publish` | the clock and the provider |

`hist` is a history variable that no guard reads: which bodies a real run found
healthy and when, and since when the provider has shown the same body.

**AtomicFeed** is the feed as users think of it, with an update as one step.
**FeedRefinement** maps `FeedRun` to it: once the provider has answered, the
mapping shows what the run is going to leave behind.

**UpdateCycle** is `Run` over several feeds, with what is around it. It uses
the operators of `FeedCycle` for each feed; that a feed may be one step here is
what `FeedRefinement` shows for one update at a time. `NextAlias`, `Skip` and
`Load` are the two loops (a feed that an earlier alias had is skipped);
`Answered`, `NotModified`, `Refused` and `TimedOut` are an attempt of the
fetcher, whose retry loop is `attempt`; `Judge` is the verdict and the two
writes, of which a 304 does only the first; `Build`, `Write`,
`NextTarget` and `Finish` the targets, list by list, and the exit code; `target`
and `written` say how far the run has come with them. `LoadFails`, `StoreFails`,
`WriteFails` and `Crash` end the run where it is and are limited by
`MaxFaults`. `asked`, `met`, `unmodified` and `fallback` are history: the
requests, the bodies and the 304s of this run, and the copies it began with.

**FileTarget** is `plan`, `Apply`, `DryRun` and `atomicWrite`: planning reads
one file per step, applying creates, writes and renames a temporary file per
change. `dir` holds the files by name, `temp` the temporary files, `plans` and
`report` the two lists of changes. `before` and `alone` are history.

**Servers** is `runServe` of the command and `Serve` with `serveListener` of
each target. `at[s]` is where `Serve` is, `loop[s]` its accept loop, `errc[s]`
what the loop has sent and nobody received, `reports` the channel of the
command. `net/http` is external and modelled by what is used of it: `Shutdown`
marks the server as closing, closes the listener, waits for an accept loop that
has begun and then for open requests, up to a deadline; `Serve` returns
`ErrServerClosed` once the server is closing, also when it begins only then.
After the first error the command has called `stop`, so a second signal kills
the process (`Kill`).

**Words** is the arithmetic of the two `uint128` types: a number is a high and a
low word of `WordBits` bits, and every sum, difference and mask is computed word
by word with its carry. **Detect** is the vote of `parse/detect.go` and what
each line parser makes of each kind of line; the map of column votes is walked
in an order chosen freely, as Go does. **RangeParser** reads a body with the
parser that was chosen and converts `start-end` lines as `parse/rangecidr.go`
does: `Reject` and `Emit`, one block per step. **Normalize** is
`internal/normalize`: `Begin` suppresses and takes up IPv4, `Merge` takes one
range, `Cut` puts one block out and moves the cursor, `EndFamily` goes on from
IPv4 to IPv6. What was kept of a list is a function on the places that are left
(`kept`); the loop over a sorted list is the choice of the least of those still
to do (`todo`, `Least`), which is the same range the sorted list has next, and
equal ranges are interchangeable. **ListPath** joins them by way of the sanity
floor, which may have been applied in an earlier run that did not know all own
networks (`ownThen`), as with every list that comes from the cached copy. The
private IPv4 networks of the floor are left out.

**Catalog** is `internal/catalog`: a vendored document and an overlay are
loaded once (`Load`), after which aliases select (`Resolve`, with the warnings
of `loadEnv`) and `Sync` compares the kept copy with the document upstream, any
number of times. Documents are what decoding leaves of them: the categories,
some of them switched off or empty, and the feeds with their alternates. What
is public holds no secret (`PublicUrl`), only the hole for one. A list of feeds
is kept by place (`Places`), item and alternate in the document or 0 and the
position in the overlay, so that a name that is used twice is two entries.
Names are compared in two ways: the loader, the disables, the keys and the
comparison take them as they are, selection in any case (`EqualFold`). `Fold`
is a constant that maps each string to one that stands for all that differ from
it in case only. So two feeds may have names that are different for the loader
and the same for a reference: the reference takes both, a disable one. `Sync`
after a load with an overlay is something the package offers; the command loads
no overlay for it.

**FeedSafety**, **FeedClaims**, **UpdateSafety**, **TargetSafety**,
**ServersSafety**, **ListSafety** and **CatalogSafety** hold the properties; the
modules whose names begin with MC hold only values for constants.

## Runs

| Run | Instance | Shows |
|---|---|---|
| `feed_single` | one process, every body tagged, no stops, 4 ticks | the run is atomic (`ImplementsAtomicFeed`); frozen content is never OK (`FrozenIsFlagged`); baseline and copy agree (`BaselineDescribesSnapshot`); record times never run back (`ClockNeverRunsBack`) |
| `feed_plain` | one process, no tags, fair, 5 bodies, one of which does not unpack | fallback exactly while a healthy run is recent (`FallbackExactlyWhileRecent`); a claim has a copy (`ClaimIsBacked`); a usable feed is served for ever (`EventuallyFresh`) |
| `feed_overlap` | two processes, one may stop, every body tagged | what survives any interleaving: `SnapshotVetted`, `HandedOverWhole`, `FailedServesVetted`, `ValidatorNamesBody`, `RecordCoherent` |
| `update` | two feeds, one of them in both of two aliases, two targets, one retry, one fault, a body with a validator and one without, real runs and dry runs | `AskedWithinLimit`; lists change only in whole real runs (`PublishedOnlyWhole`); exit 0 means that all that was served, and after a 304 the last-good list, is out and complete (`ExitTellsTheTruth`); a feed in trouble harms no other (`FeedsStandAlone`); every run ends (`RunsEnd`) |
| `target` | two processes, two configurations, one stop | `NeverPartial`, `PublishedStays`, `QuietAgrees`, `LoneRunIsExact` |
| `serve` | three servers that may fail anywhere, one request each, one signal, fair | the error that brought the servers down is returned (`CauseIsReported`); success cuts nobody off (`NothingCutOff`); nothing is left running (`NothingLeftRunning`); the command ends although clients do not (`StopsWhenToldTo`) |
| `list` | words of 2 bits, so 16 IPv6 and 2 IPv4 addresses; every range, every two IPv6 ranges, IPv6 with IPv4; every sequence of up to three lines of any kind, and of four of some; with and without own networks | `WholeFeedRead`, `ColumnIsDetermined` (the vote), `ParsedExactly`, `Tiling` (the loop invariant of merging and cutting), `Canonical` (exact, minimal, sorted), `OwnSpared`, `Finishes` |
| `catalog` | every pair of 78 documents, 63 overlays and none, 6 lists of references | `NamesAreUnique`, `SelectedExactly`, `NoSilentLoss`, `DiffIsExact` |

Bounds of the feed runs: `MaxNow` limits the clock, `MaxAborts` the runs that
stop half way. `StaleMax` and `Cadence` are one tick, so four ticks are enough
for a list to become good, to age exactly `StaleMax`, to age more, and to
recover. A body is chosen for what it exercises: a full list, one of half its
size (a swing), one with poison, one that parses to nothing. In `feed_overlap`
the clock stands still: the properties of that run compare contents and fields,
and zero against non-zero times, never two times.

The narrower promises are for narrower deployments, and that is a result, found
with TLC on the same instances. When two updates overlap,
`BaselineDescribesSnapshot`, `FallbackExactlyWhileRecent` and
`ClockNeverRunsBack` fail, because the later save brings back an older record.
When a run stops between the two writes, `BaselineDescribesSnapshot`,
`ClaimIsBacked` and `FallbackExactlyWhileRecent` fail. With validators
`ClaimIsBacked` and `FallbackExactlyWhileRecent` fail even for lone runs that
never stop: a 304 counts as a good run although the copy it vouches for may be
missing or of another body.

Bounds of `update`: the clock stands still, since `FeedRun` has the times; one
shared and one unshared feed are the two ways a feed can be met; two targets
are enough for one to have been written when the next fails; one retry tells
"again" from "give up", and one fault (`MaxFaults`) can hit any step of any
run, before and after which any number of runs are complete. The full list is
OK and has no validator, the half list is SUSPECT and has one: a 304 then finds
a copy of the full list, saved before or after, or no copy. FAILED is a feed
that is refused or times out; bodies without entries are in the feed runs.

Bounds of `target`: two names, one of them in every configuration, and two
contents; two runs at a time are enough for each of the plan's decisions to be
out of date when it is carried out, and one stop (`MaxStops`) for a leftover.

Bounds of `serve`: with three servers the first error can meet one server that
has not begun to listen, one that is serving and one that has failed as well;
one open request (`MaxOpen`) is what `Shutdown` waits for.

Bounds of `list`: the properties compare with a reference over sets of plain
numbers, the maximal aligned blocks of the set. Two bits a word are enough for
a block inside the low word, of exactly one word, across the words and of the
whole space, for a carry between the words and for the overflow of both; two
ranges are enough for each way a range can lie to the one merged before it.
`MaxBlocks` is above the longest result of such an input; should the cursor not
stop, it keeps the state space finite, and `Finishes` shows that it is not met
before the loops end. `SniffLines` is three where the code has twenty, so that
bodies of four lines have one the vote does not see.

Bounds of `catalog`: a feed that needs a key and has an alternate, one without
a tier, in categories of one tier; each of them switched on or off, renamed,
moved, doubled or gone; overlays that add, collide, switch off, and fill in,
and one that adds `Exits` beside `exits`; references in the case of the names
and in another. A catalog that fails to load ends the program, so deadlock is
not checked there, and neither in `list`, whose machine stops when the list is
done.

Fairness. `list`: `WF_vars(Next)`, a loop is executed until it is left.
`feed_plain`: updates keep being started, because cron does; a run that was not
stopped goes on, because it is a running process whose fetch has a timeout; and
a provider asked again and again answers some day (strong fairness of
`FetchBody`). That last one is an assumption on the provider, without which no
feed stays fresh. Dry runs get no fairness. `update`: a run goes on
(`WF_vars(Proceed)`); nothing is asked of providers, since a request that is
not answered times out. `serve`: every goroutine that can go on does, the
deadline of `Shutdown` included; clients need never finish a request, and no
signal need ever come.

### Sentences the code does not keep

Each `claim_*` run ends in a counterexample.

* `claim_zero_entries`: the provider serves an error page with an ETag. The
  first run is FAILED and saves the ETag. The second gets a 304, which the
  zero-entries check exempts: OK, baseline 0, list empty.
* `claim_long_failure`: an OK run, then SUSPECT runs for longer than
  `stale_max`, each of which hands out its list. The first failed fetch finds
  the last good run too old and drops the feed at once.
* `claim_fallback`: the first healthy run is stopped after it saved the record
  and before it saved the copy. The next fetch fails: the record claims a
  recent good run, so the copy is used, and it is empty.
* `claim_minimal`: a feed lists `::/1` and `8000::/1`. Neither is a default
  route by its length and the floor has no IPv6 networks, so both reach
  `Normalize`, which merges them to the whole space. There the step is 2^128,
  which is 0 in two words: the same block is put out again and again, and the
  update never ends. `Endless` names this one input; the other properties of
  `list` hold for all others. The parser's conversion tests for 2^128.

Seen while modelling, without a run:

* A full list is OK and cached. The provider halves it: the run is SUSPECT,
  hands out the half list, saves its validator and not its content. The next
  run gets a 304 and hands out the full list again, which is not what the
  provider confirmed, and the SUSPECT status is gone (`pipeline.go:225`). The
  exit code of that run is 0, so `ExitTellsTheTruth` says of a feed with a 304
  only that its last-good list is out.
* An update that will be SUSPECT or FAILED reads the record; another one,
  healthy, saves a new baseline; the first writes the old one back
  (`pipeline.go:153`, `health.go:241`).
* A 304 right after an OK run can itself be a SUSPECT swing when the feed lists
  entries twice, because the baseline counts lines and the copy holds distinct
  prefixes.
* A 200 without a validator leaves the validator of an older body in the
  record.
* `file.go:307` drops what the accept loop sends after `Shutdown`; that is not
  always `ErrServerClosed`, since the loop may have failed just before.
* One range line in the window makes the range parser read the whole body, even
  when the other lines are Spamhaus JSON, which that parser rejects
  (`detect.go:40`). `WholeFeedRead` is stated for bodies of one format.

## Proofs

Eight modules prove properties of the specifications without fairness, for any
constants that satisfy the named assumptions of the modules they extend; TLC
evaluates these on every run. Further hypotheses are in the statement of the
theorem that needs them.

**FeedProofs** (of `FeedRun`: any set of processes, any of them dry runs, any
provider, thresholds and bounds).

* `Spec => []IInv` (`Invariance`). `SnapshotVetted` is not inductive: what is
  written to the copy was judged several steps earlier. `IInv` adds what each
  run in flight carries, by position (`Sound`): a 304 is known as such before
  its copy is read; the list a verdict is reached on is the fetched body or
  stems from a 304 (`Faithful`); after the decision the output is backed by a
  body, by a vetted one when the run is FAILED (`Backed`); and a run that is
  about to replace the copy carries a body that is vetted already. Vetted
  bodies only grow, so what one process knows survives the steps of the
  others. From it follow `TypeCorrect`, `SnapshotIsVetted`,
  `HandedOverIsWhole` and `FailedIsVetted`.
* `Spec => []RecordInv` (`RecordInvariance`). A run saves a record computed
  from an old one, so every record that is in the store or in a run must be
  well kept (`WellKept`), and the validator of a run must belong to its hash
  (`Paired`). The one arithmetic fact is that times in a run are positive,
  which keeps "never" (0) apart from "now". From it follow
  `RecordIsCoherent`, `ValidatorIsOfBody` (for providers that tag every body,
  always with the same of the two validators) and `RehearsalsWriteNothing`, of
  which no run has an instance.

**LoneProofs** (of `FeedRun` and `FeedRefinement`, when updates do not overlap).
All theorems assume `OneUpdater`: one process writes, any number of dry runs
read along. That is what a deployment with one timer has. The other hypotheses
are those under which the runs check the same properties, and without which TLC
finds them violated:

| Theorem | Further hypotheses |
|---|---|
| `ClockIsMonotone` | none: runs may stop anywhere |
| `FrozenIsNeverOk` | the provider tags no body, or each with a tag of its own; runs may stop anywhere |
| `BaselineIsOfSnapshot` | no run stops half way, and the feed lists nothing twice |
| `ClaimsAreBacked`, `FallbackIsExact` | no run stops half way, and the provider has no validators |
| `LoneUpdateIsAtomic` | no run stops half way |

Everything rests on `ClockInv`: up to its save the updater's record is the one
on disk (`UpToDate`), and it began after everything that record tells of
(`Timely`). On top of it, each property has the one fact that is not visible
between runs: `FrozenInv` that the hash a run goes on with is that of the body
the provider served, also after a 304 (`Answer`); `CopyInv` that the list a 304
stands for is still the copy when the verdict falls; `BaselineInv` and
`Vetting` that between the two writes, and only there, the record is ahead of
the copy. `LoneUpdateIsAtomic` is the refinement of `AtomicFeed`, step by step:
`Completed` is the run as it will be when it has decided, so the answer is the
step that counts, and each later step writes what the mapping has shown already.

**UpdateProofs** (of `UpdateCycle`: any feeds, aliases, targets, retry limit and
faults, any providers, with or without validators). `IInv` is `Shape`, `Place`
and `Count`. `Place` is the invariant of the two loops: what the aliases up to
now refer to has an outcome or is still to do, so that when the lists are built
every feed in use has one. `Count` ties the history of requests to the loop
counter: a feed without an outcome has been asked as often as the attempts at it
have failed, and never before its turn. From it follow `LimitHolds` and
`OnlyWholeRunsPublish`. `TruthInv` is about contents: what a feed that has its
outcome contributes is what its answer stands for (`Served`: the clean content
of a body, or after a 304 the last-good list), if that is usable, and else at
most its last-good list (`Fair`); a feed without one has had no answer and has
its copy unchanged (`Untouched`), so the list a 304 hands out is the one the run
began with; and every list a real run has come to is what its feeds contribute
(`Written`). Bodies that cannot be read hold no entries, which `CycleAssumption`
says of `Unreadable`. From it follow `ExitCodeIsTrue` and `TroubleStaysAtHome`.

**TargetProofs**, **AgreementProofs** (of `FileTarget`: any processes, aliases,
lists, configurations and stops). `IInv` says that every change of a plan fits
the configuration it was made for (`Planned`, `Sound`), in particular that no
run deletes a name it is configured with, and where a temporary file can be:
`TypeCorrect`, `ReadersSeeWholeLists`, `ListsStay`. `QuietAgrees` needs more,
because each run may act on a plan that others have made out of date.
`AInv` adds, for each name, that as soon as every process has it behind it
(`Settled`: planned, and not or no longer to be changed) the file is what one
of them wanted (`AgreedOn`). The case that matters is a run that planned
nothing for a name since the file was right: then it is what that run wanted,
until another one writes, which then is the one that is right. `RunsAgree`
follows. `LoneRunsAreExact` needs no hypothesis, since the property is about
the runs that happen to be alone. `EInv` says of these that no other run that
is active writes, that each change tells the truth about the directory the run
found (`Told`), that a complete plan has a change for every file that is wanted
or there (`Covers`), and that the directory is the one it found with the
changes carried out so far (`Follows`).

**ServersProofs** (of `Servers`: any number of servers and requests). `IInv`
says for each server what its position implies for its accept loop, its
requests and the context (`InPlace`); that reports in the channel and received
make up the servers that have sent one (`Counted`); that without a signal only
a failure of `Listen` or `Accept` can come first (`Caused`), since all else is
caused by the cancellation; and that as long as there is no error a server that
has reported has no open request (`Quiet`). From it follow `TypeCorrect`,
`CauseReported`, `NoneLeftRunning` and `NoneCutOff`.

**CatalogProofs** (of `Catalog`: any documents, overlays, references and case
folding). Of the folding only one thing is assumed, that nothing but the empty
string folds like it, on which rests that a feed without a tier matches no
reference by its tier. The invariant says where the loaded catalog and the last
answer come from; the work is in following a feed from its place to what aliases
see of it and back, which needs that names are unique over the document and the
overlay together: otherwise the key, the switch and the tier of one feed could
be another's. From it follow `NamesStayUnique`, `SelectionIsExact`,
`LossIsWarnedOf` and `ComparisonIsExact`, the last of which needs that documents
hold no secrets.

**ListProofs** (of `ListPath`: words and addresses of any width, a window of
any length, any bodies, any own networks). Every safety property of the list
path is proved, which takes three layers.

* *Arithmetic.* The operators of `Words`, `RangeParser` and `Normalize` are
  compared with plain numbers: `PlusIsSum`, `MinusIsDifference`,
  `TrailingZerosIs`, `BitLenIs`, `FloorLog2Is`, `RangeOfIs`, `OverlapIs`,
  `AddPow2Is`, `AdvanceIs`. `SizeIsBlockSize` shows that the two
  implementations of the block size, in the parser and in the normalizer,
  agree. `Pow2` is a recursive function; that it has the values its equation
  gives is proved from finite tables of it, and what is said of all powers by
  `LeastMember` and `Induction`, which speak of sets of numbers and so need no
  operator as a parameter.
* *Blocks.* `MaximalCut` is the step of both loops: the block that is cut off a
  range is one of the maximal aligned blocks of the range, and the others are
  those of the rest. `MaximalOfAll` says that ranges with gaps between them
  have the maximal blocks of each and no other, which is what merging is for.
* *The machine.* `ListInv` is `Reading`, `Passing` and `Tidy`. `Reading` has
  the books of the parser (`Balance`): what was read and what is left make up
  what was offered, as addresses, as blocks and as rejections. `Passing` says
  which prefixes the floor and the suppression leave. `Tidy` is the loops of
  the normalizer: the merged ranges have gaps and precede what is to be merged
  (`Merging`); what is out precedes what is to be cut, and both together are
  the maximal blocks (`Cutting`); a family that is done stays as it is
  (`Finished`). None of the properties is inductive alone: `Tiling` says
  nothing of the order of the ranges, on which its own next step depends.
  `ListInv` was checked by TLC on the instance of `list` before it was proved.

The whole IPv6 space (`Endless`) is part of the invariant: there the cursor
comes back to where it began, the range is never left, and "done" is not
reached. From `ListInv` follow `ListTypes`, `ParsersAreExact`,
`WholeFeedIsRead`, `ColumnIsOne`, `NothingIsLost`, `ResultIsCanonical` and
`OwnIsSpared`. Two more have no run: `ResultIsUnique` shows that the blocks
determine the result, so lists of the same addresses are published alike, in
whatever order feeds name them; and `ResultIsSmallest` is the word "minimal" of
the comment at `normalize.go:62`, that no finite set of prefixes with the same
addresses has fewer members.

Every safety invariant and action property of the passing runs is stated by a
theorem. Only model-checked is liveness under fairness (`EventuallyFresh`,
`Finishes`, `StopsWhenToldTo`, `RunsEnd`), which is beyond the prover.

## Not modelled

* Configuration: one YAML file is decoded and validated in one step, without
  state. Its results are constants of the models.
* Output: tables and JSON of results that were computed before.
* Of the commands, flags, paths and the construction of the environment.
* Characters: how they make an address, a line or a document; the details of
  archives (a body unpacks or it does not); the escaping of feed names on disk.
* Backoff times. No command cancels the context of a fetch; should one do so, a
  cancelled fetch would be judged and saved as a FAILED run like any other.
* Overlapping runs in `UpdateCycle`: `FeedRun` has them for one feed and
  `FileTarget` for one directory, and runs share nothing else.
* The vendored catalog data and the OPNsense lab.

## Plan

No safety property is left to prove. What would be worth adding: an abstract
specification of the whole update, several feeds in one step, that
`UpdateCycle` is shown to implement, on top of the refinement of one feed; and
variants for the `Finishes` of `list` and the `RunsEnd` of `update`, as action
properties, which would prove in steps what TLC shows as liveness.
