\* Runs over two feeds, two aliases and two targets, one after the other.
CONSTANTS
    Prefix = {"a", "b", "lan"}
    Poison = {"lan"}
    Body = {"full", "half"}
    NoBody = "none"
    Tag = {"half"}
    NoTag = "none"
    DeltaPct = 40
    RejectedPct = 10
    StaleMax = 1
    Cadence = 0
    Lines <- MCLines
    Rejected <- MCRejected
    Unreadable = {}
    TagOf <- MCTagOf
    Feed = {"drop", "tor"}
    Aliases <- MCAliases
    Target <- MCTargets
    Retries = 1
    MaxFaults = 1
SPECIFICATION FairSpec
INVARIANTS
    AskedWithinLimit
    ExitTellsTheTruth
    FeedsStandAlone
PROPERTIES
    PublishedOnlyWhole
    RunsEnd
