CONSTANTS
    Empty <- MCEmpty
    BuiltInTypeNames <- MCBuiltInTypeNames
    CustomNames <- MCCustomNames
    AbsoluteCppTypeName <- MCAbsoluteCppTypeName
    Input <- MCInput
SPECIFICATION Spec
CHECK_DEADLOCK FALSE
INVARIANTS
    TypeOK
    NoDoubleEmptyLines
    LinesKept
    DeclaredAndDefined
    DefaultsDeclaredOnce
    NamesInScope
    ChangesGuarded
    MapsAreInserted
    BuilderSetterHasSetter
    InterfaceImplemented
    NothingDropped
    TypesIncluded
    AutomaticTypesOffered
