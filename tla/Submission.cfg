SPECIFICATION Spec
CONSTANTS
    c1 = c1
    c2 = c2
    s1 = s1
    s2 = s2
    key = key
    alice = alice
    x = x
    y = y
    NoId = NoId
    Calls = {c1, c2}
    Signers = {s1, s2}
    Adapters = {key}
    Accounts = {alice}
    Contents = {x, y}
    CallOptions <- MCOptions
    AdapterOf <- MCAdapterOf
    AccountOf <- MCAccountOf
    MaxNonce = 1
INVARIANTS
    TypeOK
    VerdictTruthful
    FreshNonceInSequence
    KeyPresentWhenNeeded
    SubmitsWhatWasAsked
PROPERTIES
    DisposeStops
SYMMETRY CallSymmetry
CHECK_DEADLOCK FALSE
