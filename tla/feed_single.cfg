\* One process, a provider with validators, runs that are never stopped.
CONSTANTS
    Prefix = {"a", "b", "c", "lan"}
    Poison = {"lan"}
    Body = {"full", "half", "page"}
    NoBody = "none"
    Tag = {"full", "half", "page"}
    NoTag = "none"
    DeltaPct = 40
    RejectedPct = 10
    StaleMax = 1
    Cadence = 1
    Proc = {"cron"}
    Rehearsing = {}
    Lines <- MCLines
    Rejected <- MCRejected
    Unreadable = {}
    TagOf <- MCTagged
    MaxNow = 4
    MaxAborts = 0
SPECIFICATION Spec
INVARIANTS
    TypeOK
    FrozenIsFlagged
    BaselineDescribesSnapshot
PROPERTIES
    ClockNeverRunsBack
    ImplementsAtomicFeed
