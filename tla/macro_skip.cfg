CONSTANTS
    A = A
    B = B
    C = C
    none = none
    Message <- MCMessage
    NoMessage = none
    Schema <- MCSchema
    kMaxSubFieldSetterDepth = 1
SPECIFICATION Spec
CHECK_DEADLOCK FALSE
INVARIANTS
    SkippedFieldsWriteNothing
