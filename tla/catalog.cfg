\* Every pair of documents, with and without every overlay.
CONSTANTS
    Text <- MCText
    Fold <- MCFold
    Name = {"abuse", "mirror", "exits", "Exits", "mine"}
    Category = {"PRI1", "PRI1_6", "TOR"}
    Page = {"old", "new"}
    Key = {"k"}
    TierOf <- MCTierOf
    Documents <- MCDocuments
    Overlays <- MCOverlays
    RefLists <- MCRefLists
SPECIFICATION Spec
INVARIANTS
    NamesAreUnique
    SelectedExactly
    NoSilentLoss
    DiffIsExact
CHECK_DEADLOCK FALSE
