SPECIFICATION Spec
CONSTANTS
    Docs <- FlowDocs
    SurfaceOf <- FlowSurface
    Texts <- FlowContents
    TextsOf <- FlowContentsOf
    ImportsOf <- FlowImportsIn
    DiskAtStart <- FlowDisk
    SiblingsOf <- FlowSiblings
    Slots = {s1}
    DiscardAllowed = TRUE
    MaxEdits = 3
    Absent = Absent
    Cleared = Cleared
INVARIANT IdleFresh
CHECK_DEADLOCK FALSE
