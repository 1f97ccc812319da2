SPECIFICATION Spec
CONSTANTS
    Jobs = {j1, j2}
    Claims = {c1, c2}
    MaxAttempts = 2
    LeaseDuration = 2
    TxTime = 1
SYMMETRY Symmetry
INVARIANTS
    SupersededIsClosed
    
PROPERTY StatementsImplementLifecycle
