--------------------------- MODULE PqabiDispatch ---------------------------
(***************************************************************************)
(* Which function a selector reaches in the code compilePqabi              *)
(* (src/src/pqabi-compiler.ts) produces.  Addresses become uint256, so     *)
(* overloads that would collapse get aliases first (nativeOverloadAliases) *)
(* and all selectors change; the compiler's output is then edited so that  *)
(* its dispatcher answers to the selectors of the original ABI.            *)
(*                                                                         *)
(* The compiler solc is external: a selector is a hash of the signature,   *)
(* cut to four bytes, so any signatures may happen to share one, except    *)
(* public ones of one contract, which solc refuses; its output holds one   *)
(* case per public function, and may hold a case elsewhere that is no      *)
(* dispatch and whose literal may look like a selector.  Functions that    *)
(* are not public take part in neither and are left out.                   *)
(***************************************************************************)

CONSTANTS
    Names,              \* names the sources use
    Aliases,            \* names no source uses
    OtherTypes,         \* parameter lists without an address or uint256
    Selectors,          \* four bytes
    Elsewhere,          \* cases of the output that are no dispatch
    None                \* no alias

Types == {"address", "uint256"} \cup OtherTypes

Signatures == [name : Names, type : Types]

ASSUME NamesAssumption ==
    /\ Aliases \cap Names = {}
    /\ None \notin Aliases \cup Names
ASSUME CasesAssumption == Elsewhere \cap Signatures = {}

VARIABLES
    contract,           \* public functions of the contract that is compiled
    others,             \* public functions of another contract in the sources
    selector,           \* their selectors in the original ABI
    alias,              \* byId: backend name, or None
    bySelector,         \* alias by original selector, or None
    lowered,            \* selectors of the contract's functions once lowered
    emitted,            \* the literal of each case of the compiler's output
    literal,            \* and of the edited output
    pc                  \* what compilePqabi does next, or how it ended

original == <<contract, others, selector>>
names == <<alias, bySelector>>
output == <<lowered, emitted, literal>>
vars == <<original, names, output, pc>>

All == contract \cup others

\* signature.replace(/\baddress\b/g, "uint256")
LoweredType(type) == IF type = "address" THEN "uint256" ELSE type

Lowered(s) ==
    [name |-> IF alias[s] = None THEN s.name ELSE alias[s],
     type |-> LoweredType(s.type)]

\* The overloads of one contract that would have one signature once lowered;
\* only those with an address are renamed.
CollapsedIn(scope) ==
    {s \in scope : /\ s.type = "address"
                   /\ [s EXCEPT !.type = "uint256"] \in scope}

Collapsed == CollapsedIn(contract) \cup CollapsedIn(others)

Init ==
    /\ contract \in SUBSET Signatures
    /\ others \in SUBSET Signatures
    /\ selector = <<>>
    /\ alias = <<>>
    /\ bySelector = <<>>
    /\ lowered = <<>>
    /\ emitted = <<>>
    /\ literal = <<>>
    /\ pc = "original"

\* The first compilation, of the source as it is.
CompileOriginal ==
    /\ pc = "original"
    /\ selector' \in [All -> Selectors]
    /\ \A scope \in {contract, others} :
         \A s, t \in scope : selector'[s] = selector'[t] => s = t
    /\ pc' = "alias"
    /\ UNCHANGED <<contract, others, names, output>>

\* A function that shares its selector with a collapsed one is renamed too.
Renamed ==
    LET collapsed == Collapsed
    IN  {s \in All :
            s \in collapsed \/ \E t \in collapsed : selector[s] = selector[t]}

AliasMaps ==
    LET renamed == Renamed
    IN  {a \in [All -> Aliases \cup {None}] :
            \A s \in All : a[s] = None <=> s \notin renamed}

\* Deliberate fault: names already given away are not remembered.
AnyAliases == AliasMaps

\* One fresh name per signature, whatever contract declares it, so that
\* overrides stay overrides.
FreshAliases ==
    {a \in AliasMaps :
        \A s, t \in All : a[s] = a[t] => s = t \/ a[s] = None}

\* nativeOverloadAliases.  Where two renamed functions share a selector the one
\* that comes last in the AST stays in bySelector.
AliasOverloads ==
    /\ pc = "alias"
    /\ alias' \in FreshAliases
    /\ bySelector' \in [Selectors -> Aliases \cup {None}]
    /\ \A x \in Selectors :
         LET named == {alias'[s] : s \in {t \in Renamed : selector[t] = x}}
         IN  IF named = {} THEN bySelector'[x] = None
                           ELSE bySelector'[x] \in named
    /\ pc' = "lower"
    /\ UNCHANGED <<original, output>>

\* The second compilation: a signature that is unchanged keeps its selector.
CompileLowered ==
    /\ pc = "lower"
    /\ \A s, t \in contract : Lowered(s) = Lowered(t) => s = t
    /\ lowered' \in [contract -> Selectors]
    /\ \A s, t \in contract : lowered'[s] = lowered'[t] => s = t
    /\ \A s \in contract :
         Lowered(s) \in All => lowered'[s] = selector[Lowered(s)]
    /\ emitted' \in [contract \cup Elsewhere -> Selectors]
    /\ \A s \in contract : emitted'[s] = lowered'[s]
    /\ pc' = "restore"
    /\ UNCHANGED <<original, names, literal>>

\* solc finds two functions with one signature or one selector.
RefuseLowered ==
    /\ pc = "lower"
    /\ pc' = "refused"
    /\ UNCHANGED <<original, names, output>>

\* The signature under which the function is looked up in the lowered contract.
LookedUp(s) ==
    LET name == bySelector[selector[s]]
    IN  [name |-> IF name = None THEN s.name ELSE name,
         type |-> LoweredType(s.type)]

Found(s) == \E u \in contract : Lowered(u) = LookedUp(s)

\* const selectors: pairs of lowered and original selector.
Pairs ==
    {<<lowered[p[1]], selector[p[2]]>> :
        p \in {q \in contract \X contract : Lowered(q[1]) = LookedUp(q[2])}}

Keys == {p[1] : p \in Pairs}

\* Deliberate fault: replacements one after the other, each in the result of
\* the one before it.
RestoredInTurn(x) ==
    LET once == CHOOSE y \in Selectors :
                  IF x \in Keys THEN <<x, y>> \in Pairs ELSE y = x
    IN  CHOOSE y \in Selectors :
          IF once \in Keys THEN <<once, y>> \in Pairs ELSE y = once

\* The literal a case has after the one pass over the output.
Restored(x) ==
    CHOOSE y \in Selectors :
        IF x \in Keys THEN <<x, y>> \in Pairs ELSE y = x

\* Deliberate fault: how often a selector occurs is not looked at.
Unchecked(x) == TRUE

\* seen.get(selector) === 1
SeenOnce(x) ==
    \E i \in DOMAIN emitted : \A j \in DOMAIN emitted : emitted[j] = x <=> j = i

RestoreSelectors ==
    /\ pc = "restore"
    /\ \A s \in contract : Found(s)
    /\ \A x \in Keys : SeenOnce(x)
    /\ literal' = [i \in DOMAIN emitted |-> Restored(emitted[i])]
    /\ pc' = "compiled"
    /\ UNCHANGED <<original, names, lowered, emitted>>

RefuseRestoring ==
    /\ pc = "restore"
    /\ \/ \E s \in contract : ~ Found(s)
       \/ \E x \in Keys : ~ SeenOnce(x)
    /\ pc' = "refused"
    /\ UNCHANGED <<original, names, output>>

Next ==
    \/ CompileOriginal \/ AliasOverloads \/ CompileLowered \/ RefuseLowered
    \/ RestoreSelectors \/ RefuseRestoring

Spec == Init /\ [][Next]_vars

-----------------------------------------------------------------------------

\* Every variable keeps its type; no two signatures share an alias.
TypeOK ==
    /\ contract \subseteq Signatures
    /\ others \subseteq Signatures
    /\ pc \in {"original", "alias", "lower", "restore", "compiled", "refused"}
    /\ pc \notin {"original"} => selector \in [All -> Selectors]
    /\ pc \in {"lower", "restore", "compiled"} =>
         /\ alias \in [All -> Aliases \cup {None}]
         /\ \A s, t \in All : alias[s] = alias[t] => s = t \/ alias[s] = None
         /\ bySelector \in [Selectors -> Aliases \cup {None}]
    /\ pc \in {"restore", "compiled"} =>
         /\ lowered \in [contract -> Selectors]
         /\ emitted \in [contract \cup Elsewhere -> Selectors]
    /\ pc = "compiled" => literal \in [contract \cup Elsewhere -> Selectors]

\* Whatever hashes happen to coincide, the compiled dispatcher answers to the
\* selectors of the original ABI, each with the function the source declares
\* under it ("keeping ... the original public ABI/dispatch selectors").
DispatchesAsDeclared ==
    pc = "compiled" => \A s \in contract : literal[s] = selector[s]

\* A case that is no dispatch is left as the compiler wrote it, or the
\* compilation fails ("ambiguous or missing PQABI dispatcher selector").
ElsewhereKept ==
    pc = "compiled" => \A i \in Elsewhere : literal[i] = emitted[i]

=============================================================================
