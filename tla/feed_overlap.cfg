\* Two updates that interleave and may stop half way.
CONSTANTS
    Prefix = {"a", "b", "c", "lan"}
    Poison = {"lan"}
    Body = {"full", "lanned"}
    NoBody = "none"
    Tag = {"full", "lanned"}
    NoTag = "none"
    DeltaPct = 40
    RejectedPct = 10
    StaleMax = 1
    Cadence = 0
    cron = cron
    user = user
    Proc = {cron, user}
    Rehearsing = {}
    Lines <- MCLines
    Rejected <- MCRejected
    Unreadable = {}
    TagOf <- MCTagged
    MaxNow = 1
    MaxAborts = 1
SPECIFICATION Spec
INVARIANTS
    SnapshotVetted
    HandedOverWhole
    FailedServesVetted
    ValidatorNamesBody
    RecordCoherent
SYMMETRY
    Interchangeable
