------------------------------ MODULE MCPqabi ------------------------------
(* compilePqabi in its three phases: sources are edited (PqabiEdits), the     *)
(* dispatcher is restored (PqabiDispatch), then topics and error selectors    *)
(* (PqabiSignatures).  The phases hand each other text and look at different  *)
(* parts of it, so each is explored from all its own initial states, and a    *)
(* behaviour goes through one of them.                                        *)
EXTENDS PqabiDispatch, PqabiSignatures, PqabiEdits, FiniteSets, TLC

CONSTANTS
    f, g, A, B, C, bytes32, h1, h2, h3, inner,
    emitE, emitG, revertF, statement, E, F, G, v1, v2

MCDeclarationAt == (emitE :> E) @@ (emitG :> G) @@ (revertF :> F)

MCSymmetry == Permutations(Names) \cup Permutations(Aliases)
                \cup Permutations(Selectors) \cup Permutations(Constants)

-----------------------------------------------------------------------------
(* Sources of six cells with up to three renamed references, one replaced *)
(* expression of one or two operands, an address type and a pure function. *)

Size == 6

\* f is one cell wide; its alias is a cell, or two when all short names are
\* taken.  g is two cells wide with an alias of two or three.
Alias(number, width) == [k \in 1 .. width |-> <<"alias", number + k>>]

Occurrences(wideF, wideG) ==
    {[start |-> s, length |-> 1, alias |-> Alias(10, IF wideF THEN 2 ELSE 1)] :
        s \in 0 .. Size - 1}
      \cup {[start |-> s, length |-> 2, alias |-> Alias(20, IF wideG THEN 3 ELSE 2)] :
        s \in 0 .. Size - 2}

NameSets ==
    UNION {{N \in SUBSET Occurrences(wf, wg) :
              Cardinality(N) <= 3 /\ \A m, n \in N : m # n => Apart(m, n)} :
           wf, wg \in BOOLEAN}

Operands ==
    {<<>>} \cup {<<r>> : r \in {q \in Ranges(Size) : q.length <= 3}}
      \cup {<<r, s>> : r, s \in {q \in Ranges(Size) : q.length = 1}}

Expressions ==
    {e \in [start : 0 .. 1, length : {3, 5}, operands : Operands] :
        /\ e.start + e.length <= Size
        /\ \A i \in DOMAIN e.operands : Within(e.operands[i], e)
        /\ \A i \in DOMAIN e.operands : i > 1 =>
             e.operands[i - 1].start + e.operands[i - 1].length <= e.operands[i].start}

Words == {{}, {0}, {4}}

MCLayouts ==
    {l \in [size : {Size}, names : NameSets,
            expressions : {{}} \cup {{e} : e \in Expressions},
            addresses : Words, pures : {{}, {1}, {5}}, pureCall : {TRUE}] : Layout(l)}
      \cup
    {l \in [size : {Size}, names : {N \in NameSets : Cardinality(N) = 1},
            expressions : {{}}, addresses : Words, pures : {{5}},
            pureCall : {FALSE}] : Layout(l)}

-----------------------------------------------------------------------------

VARIABLE phase

NoEdits == layout = <<>> /\ content = <<>> /\ longerNames = {} /\ lowering = "idle"

NoDispatch ==
    /\ contract = {} /\ others = {} /\ selector = <<>> /\ alias = <<>>
    /\ bySelector = <<>> /\ lowered = <<>> /\ emitted = <<>> /\ literal = <<>>
    /\ pc = "original"

NoSignatures ==
    /\ before = <<>> /\ after = <<>>
    /\ inside = "outside" /\ nest = 0 /\ marked = NoOne /\ due = {} /\ written = {}
    /\ location = NoOne /\ requireError = NoOne /\ helperDepth = 0
    /\ encountered = {} /\ changed = {} /\ left = FALSE /\ spoiled = FALSE
    /\ verdict = "scanning"

MCInit ==
    \/ phase = "edits" /\ EditsInit /\ NoDispatch /\ NoSignatures
    \/ phase = "dispatch" /\ NoEdits /\ Init /\ NoSignatures
    \/ phase = "signatures" /\ NoEdits /\ NoDispatch /\ SignatureInit

MCNext ==
    \/ phase = "edits" /\ EditsNext /\ UNCHANGED <<phase, vars, signatureVars>>
    \/ phase = "dispatch" /\ Next /\ UNCHANGED <<phase, editVars, signatureVars>>
    \/ phase = "signatures" /\ SignatureNext /\ UNCHANGED <<phase, editVars, vars>>

MCSpec == MCInit /\ [][MCNext]_<<phase, editVars, vars, signatureVars>>

=============================================================================
