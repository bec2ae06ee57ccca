\* One process, no validators, runs that are never stopped, a fair scheduler.
CONSTANTS
    Prefix = {"a", "b", "c", "lan"}
    Poison = {"lan"}
    Body = {"full", "half", "lanned", "page", "torn"}
    NoBody = "none"
    Tag = {}
    NoTag = "none"
    DeltaPct = 40
    RejectedPct = 10
    StaleMax = 1
    Cadence = 1
    Proc = {"cron"}
    Rehearsing = {}
    Lines <- MCLines
    Rejected <- MCRejected
    Unreadable = {"torn"}
    TagOf <- MCUntagged
    MaxNow = 4
    MaxAborts = 0
SPECIFICATION FairSpec
INVARIANTS
    ClaimIsBacked
PROPERTIES
    FallbackExactlyWhileRecent
    EventuallyFresh
