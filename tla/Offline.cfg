SPECIFICATION OfflineSpec
CONSTANTS
    None = None
    NotInteger = NotInteger
    Nobody = Nobody
    Refused = Refused
    Typings <- MCTypings
    SafeMax = 12
    U64Max = 14
    U256Max = 15
    BaseGas = 4
    CallGas = 1
    SessionGas = 2
    BundleGas = 10
    TransferGas = 2
    SystemGas = 3
    DefaultFee = 2
    DefaultTip = 1
    BundleType = 7
    MaxCalls = 2
    MaxBlobs = 2
    Amounts <- MCAmounts
    Gases <- MCGases
    Fees <- MCFees
    phrase1 = phrase1
    phrase2 = phrase2
    secret1 = secret1
    secret2 = secret2
    Phrases = {phrase1, phrase2}
    Passphrases = {secret1, secret2}
    HardenedOffset = 10000
    Indices <- MCIndices
    Accounts <- MCAccounts
    MaxRecords = 2
    Unset = Unset
    a1 = a1
    Addresses = {a1}
    MaxNesting = 3
    MaxItems = 2
    Interfaces <- MCInterfaces
INVARIANTS
    SignedIsSound
    CallsAsNamed
    RecordsRestore
CHECK_DEADLOCK FALSE
