SPECIFICATION Spec
CONSTANTS
    a = a
    b = b
    Keys = {a, b}
    Filters <- SomeFilters
    Shapes <- SomeShapes
    Attachments <- SomeAttachments
    AttachmentsKey = a
    BatchSize = 2
    MaxFilters = 2
    MaxBatches = 2
CHECK_DEADLOCK FALSE
INVARIANTS
    RecordsType
    EditIsRead
    SharingIsKnown
PROPERTIES
    EditIsLocal
    EditKeepsOthers
