CONSTANTS
    MaxTcbs = 4
    None = None
    Value = {a, b}
SPECIFICATION Spec
INVARIANTS
    TypeOK
    WriteBehindRead
    FilledExactly
PROPERTIES
    Contract
