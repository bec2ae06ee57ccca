\* A counterexample is expected.
CONSTANTS
    Prefix = {"a", "b", "c", "lan"}
    Poison = {"lan"}
    Body = {"full", "half"}
    NoBody = "none"
    Tag = {"full", "half"}
    NoTag = "none"
    DeltaPct = 40
    RejectedPct = 10
    StaleMax = 1
    Cadence = 1
    Proc = {"cron"}
    Rehearsing = {}
    Lines <- MCLines
    Rejected <- MCRejected
    Unreadable = {}
    TagOf <- MCUntagged
    MaxNow = 5
    MaxAborts = 1
SPECIFICATION Spec
INVARIANTS
    FallbackIsNotEmpty
