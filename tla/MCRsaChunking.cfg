CONSTANTS
    KeySize = 16
    MaxLen = 40
    Paddings <- MCPaddings
    Ops <- MCOps
SPECIFICATION Spec
INVARIANTS TypeOK PublicRoundTrip
