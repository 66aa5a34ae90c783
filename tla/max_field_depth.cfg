CONSTANTS
    A = A
    B = B
    C = C
    none = none
    Message <- MCMessage
    NoMessage = none
    Schema <- MCSchema
    kMaxSubFieldSetterDepth = 2
SPECIFICATION Spec
CHECK_DEADLOCK FALSE
INVARIANTS
    MaxFieldDepthKept
