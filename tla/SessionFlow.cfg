SPECIFICATION Spec
CONSTANTS
    s1 = s1
    s2 = s2
    b1 = b1
    b2 = b2
    narrow = narrow
    wide = wide
    mainnet = mainnet
    transfer = transfer
    swap = swap
    dilithium3 = dilithium3
    mlDsa65 = mlDsa65
    None = None
    Sessions = {s1, s2}
    Batches = {b1, b2}
    Terms = {narrow, wide}
    Chains = {mainnet}
    Contents = {transfer, swap}
    SigTypes = {dilithium3, mlDsa65}
    DefaultType = dilithium3
    SignerType = mlDsa65
    BatchRequests <- MCRequests
    AttachFirst = TRUE
    NamesSigType = TRUE
INVARIANTS
    TypeOK
    OuterCoversBundle
    SessionCoversBundle
    SponsorCoversBundle
    AuthorisedAsGranted
SYMMETRY TermSymmetry
CHECK_DEADLOCK FALSE
