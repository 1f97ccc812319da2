SPECIFICATION Spec
CONSTANTS
    first = first
    retry = retry
    misuse = misuse
    Calls <- MCCalls
    KeyOf <- MCKeyOf
    PayloadOf <- MCPayloadOf
    MaxFailNext = 2
INVARIANTS
    ConcurrencyIsWitnessed
    FailNextIsExact
PROPERTY ImplementsLedger
