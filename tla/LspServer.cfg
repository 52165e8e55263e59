SPECIFICATION FairSpec
CONSTANTS
    Docs <- MixedDocs
    SurfaceOf <- MixedSurface
    Texts <- MixedContents
    TextsOf <- MixedContentsOf
    ImportsOf <- MixedImportsIn
    DiskAtStart <- MixedDisk
    SiblingsOf <- MixedSiblings
    Slots = {s1, s2}
    DiscardAllowed = FALSE
    MaxEdits = 3
    Absent = Absent
    Cleared = Cleared
INVARIANTS ClosedIsClear OwnTextCurrent IdleFresh
PROPERTY EventuallyFresh
CHECK_DEADLOCK FALSE
