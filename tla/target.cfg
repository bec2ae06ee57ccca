\* Two runs at a time, each an update or a dry run, on one output directory.
CONSTANTS
    Name = {1, 2}
    Content = {"x", "y"}
    Absent = "absent"
    Partial = "partial"
    Sets <- MCSets
    a = a
    b = b
    Proc = {a, b}
    MaxStops = 1
SPECIFICATION Spec
SYMMETRY Interchangeable
INVARIANTS
    TypeOK
    NeverPartial
    QuietAgrees
    LoneRunIsExact
PROPERTIES
    PublishedStays
