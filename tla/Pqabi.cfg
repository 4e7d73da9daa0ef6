SPECIFICATION MCSpec
CONSTANTS
    f = f
    g = g
    A = A
    B = B
    C = C
    bytes32 = bytes32
    h1 = h1
    h2 = h2
    h3 = h3
    inner = inner
    emitE = emitE
    emitG = emitG
    revertF = revertF
    statement = statement
    E = E
    F = F
    G = G
    v1 = v1
    v2 = v2
    None = None
    NoOne = NoOne
    Names = {f, g}
    Aliases = {A, B, C}
    OtherTypes = {bytes32}
    Selectors = {h1, h2, h3}
    Elsewhere = {inner}
    Places = {emitE, emitG, revertF, statement}
    Declarations = {E, F, G}
    Errors = {F}
    DeclarationAt <- MCDeclarationAt
    Constants = {v1, v2}
    Irregular = {emitG}
    Layouts <- MCLayouts
INVARIANTS
    TypeOK
    DispatchesAsDeclared
    ElsewhereKept
    LoweredAsIntended
    DeclarationsPaired
    UserConstantsKept
    EmissionsRestored
SYMMETRY MCSymmetry
CHECK_DEADLOCK FALSE
