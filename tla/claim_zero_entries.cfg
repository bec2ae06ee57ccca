\* A counterexample is expected.
CONSTANTS
    Prefix = {"a", "b", "c", "lan"}
    Poison = {"lan"}
    Body = {"full", "page"}
    NoBody = "none"
    Tag = {"full", "page"}
    NoTag = "none"
    DeltaPct = 40
    RejectedPct = 10
    StaleMax = 1
    Cadence = 1
    Proc = {"cron"}
    Rehearsing = {}
    Lines <- MCLines
    Rejected <- MCRejected
    Unreadable = {}
    TagOf <- MCTagged
    MaxNow = 5
    MaxAborts = 0
SPECIFICATION Spec
INVARIANTS
    ZeroEntriesIsFailed
