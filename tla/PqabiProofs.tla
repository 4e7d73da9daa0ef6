---------------------------- MODULE PqabiProofs ----------------------------
(***************************************************************************)
(* The dispatcher of a lowered contract answers to the original selectors, *)
(* for any names, types and selectors and whichever of them collide        *)
(* (PqabiDispatch).                                                        *)
(*                                                                         *)
(* The argument: looking a function up by its original selector finds the  *)
(* function itself or nothing (LookUpFindsItself), because aliases are     *)
(* fresh and one per signature; so the replacement map sends each lowered  *)
(* selector to the original one of the same function, and a single pass    *)
(* over the cases cannot mix them up.                                      *)
(*                                                                         *)
(* Topics and error selectors are restored where they are emitted and      *)
(* nowhere else, for any declarations, places and constants                *)
(* (PqabiSignatures): the scan is always in the helper that solc is in,    *)
(* and reads the last marker (InStep).                                     *)
(*                                                                         *)
(* A lowered source is the original with each construct replaced where it  *)
(* stood, and a translated range holds its declaration, for any layouts    *)
(* the AST can give (PqabiEdits).  The argument:                           *)
(*   1. Edits that are apart, made from the last to the first, put what    *)
(*      each of them says at its first cell and nothing at its others      *)
(*      (AppliedAreFlat); so all that matters of a text is what each cell  *)
(*      of the original becomes.                                           *)
(*   2. Edits that keep widths overwrite (AppliedOverwrite), and a pass    *)
(*      made after such edits, by the same offsets, makes the edits of     *)
(*      both as if they were one pass (Merged, MadeAfter).                 *)
(*   3. Hence after each pass the text is the original with the edits so   *)
(*      far made at once; EditsInv says which these are.                   *)
(*   4. An operand is read as renaming leaves it, whether its names were   *)
(*      written in place or still wait (ReadRenames).                      *)
(*   5. Shift counts what all edits that end before an offset widen, which *)
(*      is where the cells before the offset end in the result (UpToWidth).*)
(***************************************************************************)
EXTENDS PqabiDispatch, PqabiSignatures, PqabiEdits, SequenceTheorems,
        WellFoundedInduction, TLAPS

\* solc accepted the original contract.
OriginalDistinct ==
    pc # "original" =>
        \A s, t \in contract : selector[s] = selector[t] => s = t

\* bySelector knows of every renamed function, and of nothing else.
ByNames ==
    pc \in {"lower", "restore", "compiled"} =>
        /\ \A s \in All : bySelector[selector[s]] = None => alias[s] = None
        /\ \A x \in Selectors : bySelector[x] # None =>
             \E t \in All : selector[t] = x /\ alias[t] = bySelector[x]

\* solc accepted the lowered contract, and its output has one case for each.
LoweredDistinct ==
    pc \in {"restore", "compiled"} =>
        /\ \A s, t \in contract : Lowered(s) = Lowered(t) => s = t
        /\ \A s, t \in contract : lowered[s] = lowered[t] => s = t
        /\ \A s \in contract : emitted[s] = lowered[s]

Stages == TypeOK /\ OriginalDistinct /\ ByNames /\ LoweredDistinct

IInv == Stages /\ DispatchesAsDeclared /\ ElsewhereKept

\* A look-up by the original selector never ends at another function.
LEMMA LookUpFindsItself ==
    ASSUME Stages, pc = "restore", NEW s \in contract, NEW u \in contract,
           Lowered(u) = LookedUp(s)
    PROVE  u = s
<1> DEFINE x == selector[s]
<1>1. x \in Selectors /\ s \in All /\ u \in All
  BY DEF Stages, TypeOK, All
<1>2. u.name \in Names
  BY DEF Stages, TypeOK, Signatures
<1>3. CASE bySelector[x] = None
  <2>1. alias[s] = None
    BY <1>1, <1>3 DEF Stages, ByNames
  <2>2. Lowered(u) = Lowered(s)
    BY <1>3, <2>1 DEF Lowered, LookedUp
  <2> QED
    BY <2>2 DEF Stages, LoweredDistinct
<1>4. CASE bySelector[x] # None
  <2>1. PICK t \in All : selector[t] = x /\ alias[t] = bySelector[x]
    BY <1>1, <1>4 DEF Stages, ByNames
  <2>2. bySelector[x] \in Aliases
    BY <1>1, <1>4 DEF Stages, TypeOK
  <2>3. Lowered(u).name = bySelector[x]
    BY <1>4 DEF LookedUp
  <2>4. alias[u] = alias[t]
    BY <1>2, <2>1, <2>2, <2>3, NamesAssumption DEF Lowered
  <2>5. u = t
    BY <1>1, <1>4, <2>1, <2>4 DEF Stages, TypeOK
  <2> QED
    BY <2>1, <2>5 DEF Stages, OriginalDistinct
<1> QED
  BY <1>3, <1>4

\* When every function is found, the map takes the selector of each function
\* to its original one, and knows no other.
LEMMA MapIsExact ==
    ASSUME Stages, pc = "restore", \A s \in contract : Found(s)
    PROVE  /\ Pairs = {<<lowered[s], selector[s]>> : s \in contract}
           /\ Keys = {lowered[s] : s \in contract}
<1>1. ASSUME NEW q \in contract \X contract, Lowered(q[1]) = LookedUp(q[2])
      PROVE  q[1] = q[2]
  BY <1>1, LookUpFindsItself
<1>2. ASSUME NEW s \in contract
      PROVE  Lowered(s) = LookedUp(s)
  <2>1. PICK u \in contract : Lowered(u) = LookedUp(s)
    BY DEF Found
  <2> QED
    BY <2>1, LookUpFindsItself
<1>3. Pairs \subseteq {<<lowered[s], selector[s]>> : s \in contract}
  BY <1>1 DEF Pairs
<1>4. {<<lowered[s], selector[s]>> : s \in contract} \subseteq Pairs
  <2> SUFFICES ASSUME NEW s \in contract
               PROVE  <<lowered[s], selector[s]>> \in Pairs
    OBVIOUS
  <2>1. <<s, s>> \in {q \in contract \X contract : Lowered(q[1]) = LookedUp(q[2])}
    BY <1>2
  <2> QED
    BY <2>1 DEF Pairs
<1>5. Pairs = {<<lowered[s], selector[s]>> : s \in contract}
  BY <1>3, <1>4
<1>6. Keys \subseteq {lowered[s] : s \in contract}
  BY <1>5 DEF Keys
<1>7. ASSUME NEW s \in contract
      PROVE  lowered[s] \in Keys
  <2>1. <<lowered[s], selector[s]>> \in Pairs
    BY <1>5
  <2> QED
    BY <2>1, <<lowered[s], selector[s]>>[1] = lowered[s] DEF Keys
<1> QED
  BY <1>5, <1>6, <1>7

\* A literal of a function's case becomes its original selector.
LEMMA RestoredAtFunction ==
    ASSUME Stages, pc = "restore", \A s \in contract : Found(s),
           NEW s \in contract
    PROVE  Restored(lowered[s]) = selector[s]
<1>1. selector[s] \in Selectors
  BY DEF Stages, TypeOK, All
<1>2. lowered[s] \in Keys
  BY MapIsExact
<1>3. \A y \in Selectors : <<lowered[s], y>> \in Pairs <=> y = selector[s]
  <2>1. ASSUME NEW y \in Selectors, <<lowered[s], y>> \in Pairs
        PROVE  y = selector[s]
    <3>1. PICK t \in contract : <<lowered[s], y>> = <<lowered[t], selector[t]>>
      BY <2>1, MapIsExact
    <3>2. s = t
      BY <3>1 DEF Stages, LoweredDistinct
    <3> QED
      BY <3>1, <3>2
  <2>2. <<lowered[s], selector[s]>> \in Pairs
    BY MapIsExact
  <2> QED
    BY <2>1, <2>2
<1> QED
  BY <1>1, <1>2, <1>3 DEF Restored

\* Any other literal stays.
LEMMA RestoredElsewhere ==
    ASSUME NEW x \in Selectors, x \notin Keys
    PROVE  Restored(x) = x
BY DEF Restored

LEMMA Initial == Init => IInv
BY DEF Init, IInv, Stages, TypeOK, OriginalDistinct, ByNames, LoweredDistinct,
       DispatchesAsDeclared, ElsewhereKept

LEMMA Step == IInv /\ [Next]_vars => IInv'
<1> SUFFICES ASSUME IInv, [Next]_vars
             PROVE  IInv'
  OBVIOUS
<1> USE DEF IInv, Stages
<1>1. CASE CompileOriginal
  BY <1>1 DEF CompileOriginal, names, output, TypeOK, OriginalDistinct, ByNames,
              LoweredDistinct, DispatchesAsDeclared, ElsewhereKept, All
<1>2. CASE AliasOverloads
  <2>1. TypeOK'
    BY <1>2 DEF AliasOverloads, FreshAliases, AliasMaps, original, output, TypeOK, All
  <2>2. OriginalDistinct'
    BY <1>2 DEF AliasOverloads, original, output, OriginalDistinct
  <2>3. ByNames'
    <3>1. alias' \in [All -> Aliases \cup {None}]
          /\ \A s \in All : alias'[s] = None <=> s \notin Renamed
      BY <1>2 DEF AliasOverloads, FreshAliases, AliasMaps
    <3>2. Renamed \subseteq All /\ selector \in [All -> Selectors]
      BY <1>2 DEF AliasOverloads, Renamed, TypeOK
    <3>3. ASSUME NEW s \in All, bySelector'[selector[s]] = None
          PROVE  alias'[s] = None
      <4>1. SUFFICES ASSUME s \in Renamed
                     PROVE  FALSE
        BY <3>1
      <4> DEFINE named == {alias'[t] : t \in {r \in Renamed : selector[r] = selector[s]}}
      <4>2. alias'[s] \in named
        BY <4>1
      <4>3. bySelector'[selector[s]] \in named
        BY <1>2, <3>2, <4>2 DEF AliasOverloads
      <4>4. None \notin named
        BY <3>1, <3>2
      <4> QED
        BY <3>3, <4>3, <4>4
    <3>4. ASSUME NEW x \in Selectors, bySelector'[x] # None
          PROVE  \E t \in All : selector[t] = x /\ alias'[t] = bySelector'[x]
      <4> DEFINE named == {alias'[t] : t \in {r \in Renamed : selector[r] = x}}
      <4>1. bySelector'[x] \in named
        BY <1>2, <3>4 DEF AliasOverloads
      <4> QED
        BY <3>2, <4>1
    <3>5. All' = All /\ selector' = selector
      BY <1>2 DEF AliasOverloads, original, All
    <3> QED
      BY <3>3, <3>4, <3>5 DEF ByNames
  <2> QED
    BY <1>2, <2>1, <2>2, <2>3
    DEF AliasOverloads, LoweredDistinct, DispatchesAsDeclared, ElsewhereKept
<1>3. CASE CompileLowered
  <2>1. TypeOK' /\ OriginalDistinct' /\ ByNames'
    BY <1>3 DEF CompileLowered, original, names, TypeOK, OriginalDistinct,
                ByNames, All
  <2>2. LoweredDistinct'
    BY <1>3 DEF CompileLowered, original, names, LoweredDistinct, Lowered,
                LoweredType
  <2> QED
    BY <1>3, <2>1, <2>2 DEF CompileLowered, DispatchesAsDeclared, ElsewhereKept
<1>4. CASE RestoreSelectors
  <2>1. pc = "restore" /\ \A s \in contract : Found(s)
    BY <1>4 DEF RestoreSelectors
  <2>2. emitted \in [contract \cup Elsewhere -> Selectors]
        /\ lowered \in [contract -> Selectors]
        /\ selector \in [All -> Selectors]
    BY <2>1 DEF TypeOK
  <2>3. literal' = [i \in contract \cup Elsewhere |-> Restored(emitted[i])]
    BY <1>4, <2>2 DEF RestoreSelectors
  <2>4. \A s \in contract : emitted[s] = lowered[s]
    BY <2>1 DEF LoweredDistinct
  <2>5. \A s \in contract : literal'[s] = selector[s]
    BY <2>1, <2>3, <2>4, RestoredAtFunction
  <2>6. ASSUME NEW i \in Elsewhere
        PROVE  literal'[i] = emitted[i]
    <3>1. emitted[i] \notin Keys
      <4>1. SUFFICES ASSUME emitted[i] \in Keys
                     PROVE  FALSE
        OBVIOUS
      <4>2. PICK s \in contract : emitted[i] = lowered[s]
        BY <2>1, <4>1, MapIsExact
      <4>3. emitted[s] = emitted[i]
        BY <2>4, <4>2
      <4>4. s = i
        BY <1>4, <2>2, <4>1, <4>3 DEF RestoreSelectors, SeenOnce
      <4> QED
        BY <2>1, <4>4, CasesAssumption DEF TypeOK
    <3> QED
      BY <2>2, <2>3, <3>1, RestoredElsewhere
  <2>7. literal' \in [contract \cup Elsewhere -> Selectors]
    <3>1. \A s \in contract : literal'[s] \in Selectors
      BY <2>2, <2>5 DEF All
    <3>2. \A i \in Elsewhere : literal'[i] \in Selectors
      BY <2>2, <2>6
    <3> QED
      BY <2>3, <3>1, <3>2
  <2>8. UNCHANGED <<contract, others, selector, alias, bySelector, lowered, emitted>>
        /\ pc' = "compiled"
    BY <1>4 DEF RestoreSelectors, original, names
  <2>9. TypeOK' /\ OriginalDistinct' /\ ByNames'
    BY <2>1, <2>7, <2>8 DEF TypeOK, OriginalDistinct, ByNames, All
  <2>10. LoweredDistinct'
    BY <2>1, <2>8 DEF LoweredDistinct, Lowered, LoweredType
  <2> QED
    BY <2>5, <2>6, <2>8, <2>9, <2>10 DEF DispatchesAsDeclared, ElsewhereKept
<1>5. CASE RefuseLowered \/ RefuseRestoring
  <2>1. pc' = "refused" /\ pc # "original"
        /\ UNCHANGED <<contract, others, selector>>
    BY <1>5 DEF RefuseLowered, RefuseRestoring, original
  <2>2. TypeOK'
    BY <2>1 DEF TypeOK, All
  <2> QED
    BY <2>1, <2>2 DEF OriginalDistinct, ByNames, LoweredDistinct,
                      DispatchesAsDeclared, ElsewhereKept
<1>6. CASE UNCHANGED vars
  BY <1>6 DEF vars, original, names, output, TypeOK, OriginalDistinct, ByNames,
              LoweredDistinct, Lowered, LoweredType, DispatchesAsDeclared,
              ElsewhereKept, All
<1> QED
  BY <1>1, <1>2, <1>3, <1>4, <1>5, <1>6 DEF Next

\* The invariant of a compilation.
THEOREM Invariance == Spec => []IInv
BY Initial, Step, PTL DEF Spec

\* Types, and that no two signatures share an alias (nativeOverloadAliases).
THEOREM TypeCorrect == Spec => []TypeOK
BY Invariance, PTL DEF IInv, Stages

\* A compiled contract answers to the selectors of its original ABI, each with
\* the function declared under it (compilePqabi, the dispatcher pass).
THEOREM DispatchCorrect == Spec => []DispatchesAsDeclared
BY Invariance, PTL DEF IInv

\* Cases that are no dispatch are never rewritten in a compiled contract.
THEOREM ElsewhereCorrect == Spec => []ElsewhereKept
BY Invariance, PTL DEF IInv

-----------------------------------------------------------------------------
(* Topics and error selectors: the scan knows where it is *)

SignatureTypes ==
    /\ before \in [Declarations -> Constants]
    /\ inside \in {"outside", "plain"} \cup Errors
    /\ nest \in 0 .. 2
    /\ nest = 0 <=> inside = "outside"
    /\ marked \in Places \cup {NoOne}
    /\ left \in BOOLEAN
    /\ verdict \in {"scanning", "restored", "refused"}

\* Where the scan believes to be is where solc is.
InStep ==
    /\ location = marked
    /\ inside \in Errors => requireError = inside /\ helperDepth = nest
    /\ inside \notin Errors => requireError = NoOne

\* Every key the scan meets is due to be emitted; an emission of a known shape was
\* restored under its key, and one of another shape was not.
KeysKept ==
    /\ inside \in Errors => inside \in due
    /\ marked \in Calls => marked \in due
    /\ encountered \subseteq due
    /\ written \ Irregular \subseteq changed
    /\ changed \cap Irregular = {}
    /\ left => encountered \cap Irregular # {}

SignatureInv == SignatureTypes /\ InStep /\ KeysKept /\ UserConstantsKept /\ EmissionsRestored

At(line) == IF line.marker = NoOne THEN location ELSE line.marker

LEMMA ScannedIs ==
    ASSUME NEW line
    PROVE  /\ Scanned(line).place = At(line)
           /\ Scanned(line).key = IF Helper(line).in # NoOne THEN Helper(line).in ELSE At(line)
           /\ Scanned(line).declaration =
                IF Helper(line).in # NoOne THEN Helper(line).in
                ELSE IF At(line) \in Calls THEN DeclarationAt[At(line)] ELSE NoOne
           /\ Scanned(line).looks <=> Scanned(line).declaration # NoOne /\ ~ line.comment
           /\ Scanned(line).rewrites <=>
                /\ Scanned(line).looks
                /\ line.shape = Shape(Scanned(line).declaration)
                /\ line.value = before[Scanned(line).declaration]
<1>1. Scanned(line).place = At(line)
  BY Zenon DEF Scanned, At
<1>2. Scanned(line).key = IF Helper(line).in # NoOne THEN Helper(line).in ELSE At(line)
  BY Zenon DEF Scanned, At
<1>3. Scanned(line).declaration =
        IF Helper(line).in # NoOne THEN Helper(line).in
        ELSE IF At(line) \in Calls THEN DeclarationAt[At(line)] ELSE NoOne
  BY Zenon DEF Scanned, At
<1>4. Scanned(line).looks <=> Scanned(line).declaration # NoOne /\ ~ line.comment
  BY Zenon DEF Scanned
<1>5. Scanned(line).rewrites <=>
        /\ Scanned(line).looks
        /\ line.shape = Shape(Scanned(line).declaration)
        /\ line.value = before[Scanned(line).declaration]
  BY Zenon DEF Scanned
<1> QED
  BY <1>1, <1>2, <1>3, <1>4, <1>5, Zenon

\* A line that starts no function leaves the scan in the helper it is in until the
\* braces are closed, and outside of one if it is.
LEMMA HelperGoesOn ==
    ASSUME NEW line, line.starts = "nothing"
    PROVE  /\ requireError = NoOne => Helper(line).in = NoOne
           /\ requireError # NoOne /\ line.comment =>
                Helper(line).in = requireError /\ Helper(line).depth = helperDepth
           /\ requireError # NoOne /\ ~ line.comment =>
                /\ Helper(line).depth = helperDepth + line.braces
                /\ helperDepth + line.braces # 0 => Helper(line).in = requireError
                /\ helperDepth + line.braces = 0 => Helper(line).in = NoOne
<1>1. requireError = NoOne => Helper(line).in = NoOne
  BY Zenon DEF Helper
<1>2. requireError # NoOne /\ line.comment =>
         Helper(line).in = requireError /\ Helper(line).depth = helperDepth
  BY Zenon DEF Helper
<1>3. requireError # NoOne /\ ~ line.comment =>
         /\ Helper(line).depth = helperDepth + line.braces
         /\ helperDepth + line.braces # 0 => Helper(line).in = requireError
         /\ helperDepth + line.braces = 0 => Helper(line).in = NoOne
  BY Zenon DEF Helper
<1> QED
  BY <1>1, <1>2, <1>3, Zenon

LEMMA HelperStarts ==
    ASSUME NEW line, line.starts # "nothing", ~ line.comment, line.braces = 1
    PROVE  /\ Helper(line).in = line.starts
           /\ line.starts # NoOne => Helper(line).depth = 1
<1>1. 0 + line.braces = 1 /\ 0 + line.braces # 0
  OBVIOUS
<1>2. Helper(line).in = line.starts
  BY <1>1, Zenon DEF Helper
<1>3. line.starts # NoOne => Helper(line).depth = 1
  BY <1>1, Zenon DEF Helper
<1> QED
  BY <1>2, <1>3

\* A line without a constant restores nothing; the scan follows solc if it makes the
\* same of the line.
LEMMA QuietKeeps ==
    ASSUME SignatureInv, NEW line, line.value = NoOne, Scan(line),
           UNCHANGED <<declared, written, left, spoiled, verdict>>,
           SignatureTypes', marked' = At(line), due \subseteq due',
           marked' \in Calls => marked' \in due',
           inside' \in Errors =>
             /\ Helper(line).in = inside' /\ Helper(line).depth = nest' /\ inside' \in due',
           inside' \notin Errors => Helper(line).in = NoOne
    PROVE  SignatureInv'
<1> DEFINE d == Scanned(line).declaration
           h == Helper(line).in
<1> USE DEF SignatureInv
<1>1. /\ verdict = "scanning"
      /\ location' = Scanned(line).place
      /\ requireError' = h
      /\ helperDepth' = Helper(line).depth
      /\ encountered' = IF Scanned(line).looks THEN encountered \cup {Scanned(line).key}
                        ELSE encountered
      /\ changed' = IF Scanned(line).rewrites THEN changed \cup {Scanned(line).key} ELSE changed
  BY Zenon DEF Scan
<1>2. InStep'
  BY <1>1, ScannedIs, Zenon DEF InStep
<1>3. h # NoOne => h \in Errors /\ h \in due'
  BY Zenon
<1>4. d # NoOne => d \in Declarations /\ Scanned(line).key \in due'
  <2>1. CASE h # NoOne
    BY <1>3, <2>1, ScannedIs, SignatureAssumption, Zenon
  <2>2. CASE h = NoOne
    <3>1. /\ d = IF At(line) \in Calls THEN DeclarationAt[At(line)] ELSE NoOne
          /\ Scanned(line).key = At(line)
      BY <2>2, ScannedIs, Zenon
    <3> HIDE DEF d
    <3> QED
      BY <3>1, SignatureAssumption
  <2> QED
    BY <2>1, <2>2
<1>5. ~ Scanned(line).rewrites
  <2> SUFFICES ASSUME Scanned(line).rewrites
               PROVE  FALSE
    OBVIOUS
  <2>1. d # NoOne /\ before[d] = NoOne
    BY ScannedIs, Zenon
  <2>2. before[d] \in Constants
    BY <1>4, <2>1, Zenon DEF SignatureTypes
  <2> QED
    BY <2>1, <2>2, SignatureAssumption
<1>6. changed' = changed
  BY <1>1, <1>5, Zenon
<1>7. encountered \subseteq encountered' /\ encountered' \subseteq due'
  <2>1. CASE Scanned(line).looks
    <3>1. Scanned(line).key \in due'
      BY <1>4, <2>1, ScannedIs, Zenon
    <3> QED
      BY <1>1, <2>1, <3>1 DEF KeysKept
  <2>2. CASE ~ Scanned(line).looks
    BY <1>1, <2>2 DEF KeysKept
  <2> QED
    BY <2>1, <2>2
<1>8. KeysKept'
  BY <1>6, <1>7 DEF KeysKept
<1> QED
  BY <1>1, <1>2, <1>8 DEF UserConstantsKept, EmissionsRestored

LEMMA FunctionKeeps ==
    ASSUME SignatureInv, NEW helper \in Errors \cup {NoOne}, StartFunction(helper)
    PROVE  SignatureInv'
<1> DEFINE line == [Line EXCEPT !.starts = helper, !.braces = 1]
<1>1. /\ line.starts = helper /\ line.braces = 1 /\ ~ line.comment
      /\ line.marker = NoOne /\ line.value = NoOne
  BY DEF Line
<1>2. /\ inside = "outside"
      /\ inside' = IF helper = NoOne THEN "plain" ELSE helper
      /\ nest' = 1
      /\ due' = IF helper = NoOne THEN due ELSE due \cup {helper}
      /\ Scan(line)
      /\ UNCHANGED <<marked, written>>
      /\ UNCHANGED <<declared, left, spoiled, verdict>>
  BY Zenon DEF StartFunction, Unjudged
<1> HIDE DEF line
<1>3. /\ helper # "nothing" /\ NoOne \notin Errors
      /\ "plain" \notin Errors /\ "outside" \notin Errors
  BY SignatureAssumption
<1>4. Helper(line).in = helper /\ (helper # NoOne => Helper(line).depth = 1)
  BY <1>1, <1>3, HelperStarts
<1>5. SignatureTypes'
  <2>1. inside' \in {"outside", "plain"} \cup Errors /\ inside' # "outside"
    BY <1>2, <1>3
  <2> QED
    BY <1>2, <2>1 DEF SignatureInv, SignatureTypes, declared
<1>6. marked' = At(line)
  BY <1>1, <1>2 DEF SignatureInv, InStep, At
<1>7. due \subseteq due' /\ (marked' \in Calls => marked' \in due')
  BY <1>2 DEF SignatureInv, KeysKept
<1>8. inside' \in Errors =>
        Helper(line).in = inside' /\ Helper(line).depth = nest' /\ inside' \in due'
  BY <1>2, <1>3, <1>4
<1>9. inside' \notin Errors => Helper(line).in = NoOne
  BY <1>2, <1>3, <1>4
<1> QED
  BY <1>1, <1>2, <1>5, <1>6, <1>7, <1>8, <1>9, QuietKeeps

LEMMA BraceKeeps ==
    ASSUME SignatureInv, NEW by \in {-1, 1}, Brace(by)
    PROVE  SignatureInv'
<1> DEFINE line == [Line EXCEPT !.braces = by]
<1>1. /\ line.starts = "nothing" /\ line.braces = by /\ ~ line.comment
      /\ line.marker = NoOne /\ line.value = NoOne
  BY DEF Line
<1>2. /\ inside # "outside"
      /\ nest + by \in 0 .. 2
      /\ nest' = nest + by
      /\ inside' = IF nest' = 0 THEN "outside" ELSE inside
      /\ Scan(line)
      /\ UNCHANGED <<marked, due, written>>
      /\ UNCHANGED <<declared, left, spoiled, verdict>>
  BY Zenon DEF Brace, Unjudged
<1> HIDE DEF line
<1>3. "outside" \notin Errors /\ NoOne \notin Errors
  BY SignatureAssumption
<1>4. SignatureTypes'
  BY <1>2 DEF SignatureInv, SignatureTypes, declared
<1>5. marked' = At(line) /\ (marked' \in Calls => marked' \in due')
  BY <1>1, <1>2 DEF SignatureInv, InStep, KeysKept, At
<1>6. CASE inside \in Errors
  <2>1. requireError = inside /\ helperDepth = nest /\ requireError # NoOne
    BY <1>3, <1>6 DEF SignatureInv, InStep
  <2>2. /\ Helper(line).depth = nest'
        /\ nest' # 0 => Helper(line).in = inside
        /\ nest' = 0 => Helper(line).in = NoOne
    BY <1>1, <1>2, <2>1, HelperGoesOn
  <2>3. inside' \in Errors =>
          Helper(line).in = inside' /\ Helper(line).depth = nest' /\ inside' \in due'
    BY <1>2, <1>3, <1>6, <2>2 DEF SignatureInv, KeysKept
  <2>4. inside' \notin Errors => Helper(line).in = NoOne
    BY <1>2, <1>6, <2>2
  <2> QED
    BY <1>1, <1>2, <1>4, <1>5, <2>3, <2>4, QuietKeeps
<1>7. CASE inside \notin Errors
  <2>1. Helper(line).in = NoOne
    BY <1>1, <1>7, HelperGoesOn DEF SignatureInv, InStep
  <2>2. inside' \notin Errors
    BY <1>2, <1>3, <1>7
  <2> QED
    BY <1>1, <1>2, <1>4, <1>5, <2>1, <2>2, QuietKeeps
<1> QED
  BY <1>6, <1>7

LEMMA MarkerKeeps ==
    ASSUME SignatureInv, NEW place \in Places, NEW braces, Marker(place, braces)
    PROVE  SignatureInv'
<1> DEFINE line == [Line EXCEPT !.marker = place, !.comment = TRUE, !.braces = braces]
<1>1. line.starts = "nothing" /\ line.marker = place /\ line.value = NoOne
  BY DEF Line
<1>2. /\ inside \in {"outside", "plain"}
      /\ marked' = place
      /\ due' = IF place \in Calls /\ inside = "plain" THEN due \cup {place} ELSE due
      /\ place \in Calls => inside = "plain"
      /\ Scan(line)
      /\ UNCHANGED <<inside, nest, written>>
      /\ UNCHANGED <<declared, left, spoiled, verdict>>
  BY Zenon DEF Marker, Unjudged
<1> HIDE DEF line
<1>3. place # NoOne /\ inside \notin Errors
  BY <1>2, SignatureAssumption
<1>4. SignatureTypes'
  BY <1>2 DEF SignatureInv, SignatureTypes, declared
<1>5. marked' = At(line) /\ due \subseteq due' /\ (marked' \in Calls => marked' \in due')
  BY <1>1, <1>2, <1>3 DEF At
<1>6. inside' \notin Errors /\ Helper(line).in = NoOne
  BY <1>1, <1>2, <1>3, HelperGoesOn DEF SignatureInv, InStep
<1> QED
  BY <1>1, <1>2, <1>4, <1>5, <1>6, QuietKeeps

LEMMA CommentKeeps ==
    ASSUME SignatureInv, NEW braces, Comment(braces)
    PROVE  SignatureInv'
<1> DEFINE line == [Line EXCEPT !.comment = TRUE, !.braces = braces]
<1>1. /\ line.starts = "nothing" /\ line.comment
      /\ line.marker = NoOne /\ line.value = NoOne
  BY DEF Line
<1>2. /\ Scan(line)
      /\ UNCHANGED <<inside, nest, marked, due, written>>
      /\ UNCHANGED <<declared, left, spoiled, verdict>>
  BY Zenon DEF Comment, Unjudged, code
<1> HIDE DEF line
<1>3. NoOne \notin Errors
  BY SignatureAssumption
<1>4. SignatureTypes'
  BY <1>2 DEF SignatureInv, SignatureTypes, declared
<1>5. marked' = At(line) /\ (marked' \in Calls => marked' \in due')
  BY <1>1, <1>2 DEF SignatureInv, InStep, KeysKept, At
<1>6. inside' \in Errors =>
        Helper(line).in = inside' /\ Helper(line).depth = nest' /\ inside' \in due'
  BY <1>1, <1>2, <1>3, HelperGoesOn DEF SignatureInv, InStep, KeysKept
<1>7. inside' \notin Errors => Helper(line).in = NoOne
  BY <1>1, <1>2, HelperGoesOn DEF SignatureInv, InStep
<1> QED
  BY <1>1, <1>2, <1>4, <1>5, <1>6, <1>7, QuietKeeps

\* An emission is looked for under its key, with its own declaration.
LEMMA EmissionKeeps ==
    ASSUME SignatureInv, Emission
    PROVE  SignatureInv'
<1> DEFINE key == IF inside \in Errors THEN inside ELSE marked
           d == IF inside \in Errors THEN inside ELSE DeclarationAt[marked]
           line == [Line EXCEPT !.value = before[d],
                                !.shape = IF key \in Irregular THEN "other" ELSE Shape(d)]
<1>1. /\ line.starts = "nothing" /\ line.marker = NoOne
      /\ line.braces = 0 /\ ~ line.comment
      /\ line.value = before[d]
  BY DEF Line
<1>2. line.shape = IF key \in Irregular THEN "other" ELSE Shape(d)
  BY Zenon DEF Line
<1>3. /\ inside \in Errors \/ (inside = "plain" /\ marked \in Calls)
      /\ written' = written \cup {key}
      /\ Scan(line)
      /\ left' = (left \/ after[d] #
                    (IF Scanned(line).rewrites THEN after[Scanned(line).declaration]
                                               ELSE before[d]))
      /\ UNCHANGED <<declared, inside, nest, marked, due, spoiled, verdict>>
  BY Zenon DEF Emission
<1> HIDE DEF line
<1>4. NoOne \notin Errors /\ "plain" \notin Errors
  BY SignatureAssumption
<1>5. /\ Helper(line).in = IF inside \in Errors THEN inside ELSE NoOne
      /\ inside \in Errors => Helper(line).depth = nest
  <2>1. CASE inside \in Errors
    <3>1. requireError = inside /\ helperDepth = nest /\ nest \in 0 .. 2 /\ nest # 0
      BY <2>1, SignatureAssumption DEF SignatureInv, InStep, SignatureTypes
    <3> QED
      BY <1>1, <1>4, <2>1, <3>1, HelperGoesOn
  <2>2. CASE inside \notin Errors
    BY <1>1, <2>2, HelperGoesOn DEF SignatureInv, InStep
  <2> QED
    BY <2>1, <2>2
<1>6. At(line) = marked
  BY <1>1 DEF SignatureInv, InStep, At
<1>7. /\ Scanned(line).place = marked
      /\ Scanned(line).key = key
      /\ Scanned(line).declaration = d
  <2>1. CASE inside \in Errors
    BY <1>4, <1>5, <1>6, <2>1, ScannedIs, Zenon
  <2>2. CASE inside \notin Errors
    BY <1>3, <1>4, <1>5, <1>6, <2>2, ScannedIs, Zenon
  <2> QED
    BY <2>1, <2>2
<1>8. d \in Declarations /\ d # NoOne /\ key \in due
  BY <1>3, SignatureAssumption DEF SignatureInv, KeysKept
<1>9. Scanned(line).looks /\ (Scanned(line).rewrites <=> key \notin Irregular)
  <2>1. Scanned(line).looks
    BY <1>1, <1>7, <1>8, ScannedIs, Zenon
  <2>2. Scanned(line).rewrites <=> line.shape = Shape(d)
    BY <1>1, <1>7, <2>1, ScannedIs, Zenon
  <2>3. "other" # Shape(d)
    BY DEF Shape
  <2> HIDE DEF key, d
  <2> QED
    BY <1>2, <2>1, <2>2, <2>3, Zenon
<1> HIDE DEF key, d
<1>10. /\ verdict = "scanning"
       /\ location' = marked
       /\ requireError' = Helper(line).in
       /\ helperDepth' = Helper(line).depth
       /\ encountered' = encountered \cup {key}
       /\ changed' = IF key \in Irregular THEN changed ELSE changed \cup {key}
  BY <1>3, <1>7, <1>9, Zenon DEF Scan
<1>11. left' => left \/ key \in Irregular
  BY <1>3, <1>7, <1>9, Zenon
<1>12. left' \in BOOLEAN
  BY <1>3, Zenon
<1>13. SignatureTypes'
  BY <1>3, <1>12 DEF SignatureInv, SignatureTypes, declared
<1>14. InStep'
  BY <1>3, <1>5, <1>10 DEF InStep
<1>15. KeysKept'
  BY <1>3, <1>8, <1>10, <1>11 DEF SignatureInv, KeysKept
<1>16. UserConstantsKept' /\ EmissionsRestored'
  BY <1>3, <1>10 DEF SignatureInv, UserConstantsKept, EmissionsRestored
<1> QED
  BY <1>13, <1>14, <1>15, <1>16 DEF SignatureInv

\* A user's constant stands where the scan looks for nothing.
LEMMA UserConstantKeeps ==
    ASSUME SignatureInv, NEW value, NEW shape, UserConstant(value, shape)
    PROVE  SignatureInv'
<1> DEFINE line == [Line EXCEPT !.value = value, !.shape = shape]
<1>1. line.starts = "nothing" /\ line.marker = NoOne
  BY DEF Line
<1>2. /\ inside = "plain" /\ marked \notin Calls \cup {NoOne}
      /\ Scan(line)
      /\ spoiled' = (spoiled \/ Scanned(line).rewrites)
      /\ UNCHANGED <<before, after, inside, nest, marked, due, written, left, verdict>>
  BY Zenon DEF UserConstant, declared, code
<1> HIDE DEF line
<1>3. inside \notin Errors /\ requireError = NoOne
  BY <1>2, SignatureAssumption DEF SignatureInv, InStep
<1>4. Helper(line).in = NoOne /\ At(line) = marked
  BY <1>1, <1>3, HelperGoesOn DEF SignatureInv, InStep, At
<1>5. /\ Scanned(line).place = marked
      /\ ~ Scanned(line).looks
      /\ ~ Scanned(line).rewrites
  <2>1. Scanned(line).place = marked /\ Scanned(line).declaration = NoOne
    BY <1>2, <1>4, ScannedIs, Zenon
  <2> QED
    BY <2>1, ScannedIs, Zenon
<1>6. /\ location' = marked /\ requireError' = NoOne
      /\ encountered' = encountered /\ changed' = changed /\ verdict = "scanning"
  BY <1>2, <1>4, <1>5, Zenon DEF Scan
<1>7. ~ spoiled'
  BY <1>2, <1>5, Zenon DEF SignatureInv, UserConstantsKept
<1>8. SignatureTypes'
  BY <1>2 DEF SignatureInv, SignatureTypes
<1> QED
  BY <1>2, <1>3, <1>6, <1>7, <1>8
     DEF SignatureInv, InStep, KeysKept, UserConstantsKept, EmissionsRestored

LEMMA ScanEndKeeps ==
    ASSUME SignatureInv, ScanEnds
    PROVE  SignatureInv'
<1>1. /\ due \subseteq written
      /\ verdict' = IF encountered \subseteq changed THEN "restored" ELSE "refused"
      /\ UNCHANGED <<before, after, inside, nest, marked, due, written, location,
                     requireError, helperDepth, encountered, changed, left, spoiled>>
  BY DEF ScanEnds, declared, code, scan
<1>2. encountered \subseteq changed => ~ left
  BY DEF SignatureInv, KeysKept
<1>3. ~ (encountered \subseteq changed) => written \cap Irregular # {}
  BY <1>1 DEF SignatureInv, KeysKept
<1> QED
  BY <1>1, <1>2, <1>3
     DEF SignatureInv, SignatureTypes, InStep, KeysKept, UserConstantsKept, EmissionsRestored

LEMMA SignatureStarts == SignatureInit => SignatureInv
<1> SUFFICES ASSUME SignatureInit
             PROVE  SignatureInv
  OBVIOUS
<1>1. NoOne \notin Calls /\ inside \notin Errors
  BY SignatureAssumption DEF SignatureInit
<1>2. SignatureTypes
  <2>1. left \in BOOLEAN
    BY Zenon DEF SignatureInit
  <2>2. nest \in 0 .. 2 /\ (nest = 0 <=> inside = "outside")
    BY DEF SignatureInit
  <2> QED
    BY <2>1, <2>2, Zenon DEF SignatureInit, SignatureTypes
<1>3. InStep
  BY <1>1 DEF SignatureInit, InStep
<1>4. KeysKept
  BY <1>1 DEF SignatureInit, KeysKept
<1>5. UserConstantsKept /\ EmissionsRestored
  BY DEF SignatureInit, UserConstantsKept, EmissionsRestored
<1> QED
  BY <1>2, <1>3, <1>4, <1>5 DEF SignatureInv

LEMMA SignatureStep == SignatureInv /\ [SignatureNext]_signatureVars => SignatureInv'
<1>1. ASSUME SignatureInv, UNCHANGED signatureVars
      PROVE  SignatureInv'
  BY <1>1 DEF signatureVars, declared, code, scan, SignatureInv, SignatureTypes, InStep,
              KeysKept, UserConstantsKept, EmissionsRestored
<1> QED
  BY <1>1, FunctionKeeps, BraceKeeps, MarkerKeeps, CommentKeeps, EmissionKeeps,
     UserConstantKeeps, ScanEndKeeps DEF SignatureNext

LEMMA SignatureInvariant == SignatureSpec => []SignatureInv
<1> QED
  BY SignatureStarts, SignatureStep, PTL DEF SignatureSpec

\* No constant of a user is rewritten, whatever the order of functions, helpers and
\* markers and whichever constants are equal (restoreTopicsAndErrors).
THEOREM UserConstantsCorrect == SignatureSpec => []UserConstantsKept
<1>1. SignatureInv => UserConstantsKept
  BY DEF SignatureInv
<1> QED
  BY <1>1, SignatureInvariant, PTL

\* A scan that succeeds has given every emission the constant of its own original
\* declaration, and one fails only over an emission of another shape.
THEOREM EmissionsCorrect == SignatureSpec => []EmissionsRestored
<1>1. SignatureInv => EmissionsRestored
  BY DEF SignatureInv
<1> QED
  BY <1>1, SignatureInvariant, PTL

-----------------------------------------------------------------------------
(* Texts put together from pieces *)

\* Every set of naturals has a least element.
LEMMA Least ==
  ASSUME NEW T, T \subseteq Nat, T # {}
  PROVE  \E x \in T : \A y \in T : x <= y
<1> DEFINE R == OpToRel(<, Nat)
<1>1. IsWellFoundedOn(R, Nat)
  BY NatLessThanWellFounded
<1> HIDE DEF R
<1>2. PICK x \in T : \A y \in T : <<y, x>> \notin R
  BY <1>1, WFMin
<1>3. \A y \in T : y < x => <<y, x>> \in R
  BY DEF OpToRel, R
<1>4. \A y \in T : ~(y < x) => x <= y
  OBVIOUS
<1> QED BY <1>2, <1>3, <1>4

\* Induction over a set, where the library's takes an operator.
LEMMA Induction ==
  ASSUME NEW T, 0 \in T, \A n \in Nat : n \in T => n + 1 \in T
  PROVE  Nat \subseteq T
<1> SUFFICES ASSUME Nat \ T # {} PROVE FALSE
  OBVIOUS
<1>1. PICK x \in Nat \ T : \A y \in Nat \ T : x <= y
  BY Least
<1>2. x # 0
  OBVIOUS
<1>3. x - 1 \in Nat /\ x - 1 \notin Nat \ T /\ x - 1 + 1 = x
  BY <1>1, <1>2
<1> QED BY <1>3

\* g holds the concatenations of the first cells of s, up to n of them.
Joins(g, s, n) ==
    g = [i \in 1 .. n |-> IF i = 1 THEN s[i] ELSE g[i - 1] \o s[i]]

LEMMA JoinsExist ==
  ASSUME NEW X, NEW s \in Seq(Seq(X))
  PROVE  \A n \in Nat : n <= Len(s) => \E g \in [1 .. n -> Seq(X)] : Joins(g, s, n)
<1> DEFINE T == {n \in Nat : n <= Len(s) => \E g \in [1 .. n -> Seq(X)] : Joins(g, s, n)}
<1>1. 0 \in T
  <2> DEFINE g == [i \in 1 .. 0 |-> <<>>]
  <2>1. g \in [1 .. 0 -> Seq(X)] /\ Joins(g, s, 0)
    BY DEF Joins
  <2> QED BY <2>1
<1>2. ASSUME NEW n \in Nat, n \in T PROVE n + 1 \in T
  <2> SUFFICES ASSUME n + 1 <= Len(s)
               PROVE  \E g \in [1 .. n + 1 -> Seq(X)] : Joins(g, s, n + 1)
    OBVIOUS
  <2>1. PICK g \in [1 .. n -> Seq(X)] : Joins(g, s, n)
    BY <1>2
  <2> DEFINE z == IF n = 0 THEN s[1] ELSE g[n] \o s[n + 1]
             h == [i \in 1 .. n + 1 |-> IF i = n + 1 THEN z ELSE g[i]]
  <2>2. z \in Seq(X)
    <3>1. s[n + 1] \in Seq(X) /\ (n # 0 => g[n] \in Seq(X))
      OBVIOUS
    <3> QED BY <3>1
  <2> HIDE DEF z
  <2>3. h \in [1 .. n + 1 -> Seq(X)]
    BY <2>2
  <2>4. ASSUME NEW i \in 1 .. n + 1
        PROVE  h[i] = IF i = 1 THEN s[i] ELSE h[i - 1] \o s[i]
    <3>1. CASE i = n + 1
      <4>1. h[i] = z /\ (n # 0 => h[n] = g[n])
        BY <3>1
      <4> HIDE DEF h
      <4>2. CASE n = 0
        BY <3>1, <4>1, <4>2 DEF z
      <4>3. CASE n # 0
        <5>1. i - 1 = n /\ i # 1
          BY <3>1, <4>3
        <5> QED BY <3>1, <4>1, <4>3, <5>1, Zenon DEF z
      <4> QED BY <4>2, <4>3
    <3>2. CASE i \in 1 .. n
      <4>1. g[i] = IF i = 1 THEN s[i] ELSE g[i - 1] \o s[i]
        BY <2>1, <3>2, Zenon DEF Joins
      <4>2. h[i] = g[i] /\ (i # 1 => h[i - 1] = g[i - 1])
        BY <3>2
      <4> HIDE DEF h
      <4> QED BY <4>1, <4>2, Zenon
    <3> QED BY <3>1, <3>2
  <2> HIDE DEF h
  <2>5. Joins(h, s, n + 1)
    BY <2>3, <2>4 DEF Joins
  <2> QED BY <2>3, <2>5
<1> HIDE DEF T
<1>3. Nat \subseteq T
  BY <1>1, <1>2, Induction
<1> QED BY <1>3 DEF T

LEMMA JoinsLast ==
  ASSUME NEW h, NEW s, NEW n \in Nat, Joins(h, s, n + 1)
  PROVE  h[n + 1] = IF n = 0 THEN s[n + 1] ELSE h[n] \o s[n + 1]
<1>1. n + 1 \in 1 .. n + 1 /\ n + 1 - 1 = n /\ (n + 1 = 1 <=> n = 0)
  OBVIOUS
<1>2. \A i \in 1 .. n + 1 : h[i] = IF i = 1 THEN s[i] ELSE h[i - 1] \o s[i]
  BY Zenon DEF Joins
<1>3. h[n + 1] = IF n + 1 = 1 THEN s[n + 1] ELSE h[n] \o s[n + 1]
  BY <1>1, <1>2
<1> QED BY <1>1, <1>3, Zenon

LEMMA JoinsAgree ==
  ASSUME NEW g, NEW h, NEW s, NEW t, NEW n \in Nat, NEW m \in Nat, n <= m,
         Joins(g, s, n), Joins(h, t, m), \A i \in 1 .. n : s[i] = t[i]
  PROVE  \A i \in 1 .. n : g[i] = h[i]
<1> DEFINE T == {k \in Nat : k \in 1 .. n => g[k] = h[k]}
<1>1. \A i \in 1 .. n : g[i] = IF i = 1 THEN s[i] ELSE g[i - 1] \o s[i]
  BY Zenon DEF Joins
<1>2. \A i \in 1 .. m : h[i] = IF i = 1 THEN t[i] ELSE h[i - 1] \o t[i]
  BY Zenon DEF Joins
<1>3. 0 \in T
  OBVIOUS
<1>4. ASSUME NEW k \in Nat, k \in T PROVE k + 1 \in T
  <2> SUFFICES ASSUME k + 1 \in 1 .. n PROVE g[k + 1] = h[k + 1]
    OBVIOUS
  <2>1. k + 1 \in 1 .. m /\ k + 1 - 1 = k /\ (k = 0 \/ k \in 1 .. n)
    OBVIOUS
  <2>2. g[k + 1] = IF k + 1 = 1 THEN s[k + 1] ELSE g[k] \o s[k + 1]
    BY <1>1, <2>1
  <2>3. h[k + 1] = IF k + 1 = 1 THEN s[k + 1] ELSE h[k] \o s[k + 1]
    BY <1>2, <2>1
  <2>4. k # 0 => g[k] = h[k]
    BY <1>4, <2>1
  <2>5. k = 0 <=> k + 1 = 1
    OBVIOUS
  <2> QED BY <2>2, <2>3, <2>4, <2>5, Zenon
<1> HIDE DEF T
<1>5. Nat \subseteq T
  BY <1>3, <1>4, Induction
<1> QED BY <1>5 DEF T

\* FlattenSeq is the last of the joins, whichever function holds them.
LEMMA FlatIs ==
  ASSUME NEW X, NEW s \in Seq(Seq(X)), NEW g, Joins(g, s, Len(s))
  PROVE  FlattenSeq(s) = IF Len(s) = 0 THEN <<>> ELSE g[Len(s)]
<1> DEFINE f == CHOOSE h : h = [i \in 1 .. Len(s) |-> IF i = 1 THEN s[i] ELSE h[i - 1] \o s[i]]
<1>1. Joins(f, s, Len(s))
  BY Zenon DEF Joins
<1>2. FlattenSeq(s) = IF Len(s) = 0 THEN s ELSE f[Len(s)]
  BY Zenon DEF FlattenSeq
<1> HIDE DEF f
<1>3. Len(s) \in Nat /\ (Len(s) = 0 => s = <<>>)
  OBVIOUS
<1>4. Len(s) # 0 => f[Len(s)] = g[Len(s)]
  <2>1. \A i \in 1 .. Len(s) : f[i] = g[i]
    BY <1>1, <1>3, JoinsAgree
  <2> QED BY <1>3, <2>1
<1> QED BY <1>2, <1>3, <1>4, Zenon

LEMMA FlatType ==
  ASSUME NEW X, NEW s \in Seq(Seq(X))
  PROVE  FlattenSeq(s) \in Seq(X)
<1>1. Len(s) \in Nat /\ Len(s) <= Len(s)
  OBVIOUS
<1>2. PICK g \in [1 .. Len(s) -> Seq(X)] : Joins(g, s, Len(s))
  BY <1>1, JoinsExist
<1>3. FlattenSeq(s) = IF Len(s) = 0 THEN <<>> ELSE g[Len(s)]
  BY <1>2, FlatIs
<1>4. Len(s) # 0 => g[Len(s)] \in Seq(X)
  <2>1. Len(s) # 0 => Len(s) \in 1 .. Len(s)
    BY <1>1
  <2> QED BY <1>2, <2>1
<1> QED BY <1>3, <1>4

LEMMA FlatEmpty == FlattenSeq(<<>>) = <<>>
<1>1. Len(<<>>) = 0
  OBVIOUS
<1> QED BY <1>1, Zenon DEF FlattenSeq

LEMMA FlatOneMore ==
  ASSUME NEW X, NEW s \in Seq(Seq(X)), NEW x \in Seq(X)
  PROVE  FlattenSeq(Append(s, x)) = FlattenSeq(s) \o x
<1> DEFINE t == Append(s, x)
           n == Len(s)
<1>1. /\ t \in Seq(Seq(X)) /\ Len(t) = n + 1 /\ n \in Nat
      /\ t[n + 1] = x /\ \A i \in 1 .. n : s[i] = t[i]
      /\ n <= n + 1 /\ n + 1 \in Nat /\ n + 1 # 0
      /\ n <= Len(s) /\ n + 1 <= Len(t)
  OBVIOUS
<1> HIDE DEF t
<1>2. PICK g : Joins(g, s, n)
  <2> HIDE DEF n
  <2>1. \E g \in [1 .. n -> Seq(X)] : Joins(g, s, n)
    BY <1>1, JoinsExist
  <2> QED BY <2>1
<1>3. PICK h : Joins(h, t, n + 1)
  <2> HIDE DEF n
  <2>1. \E h \in [1 .. n + 1 -> Seq(X)] : Joins(h, t, n + 1)
    BY <1>1, JoinsExist
  <2> QED BY <2>1
<1>4. FlattenSeq(s) = IF n = 0 THEN <<>> ELSE g[n]
  BY <1>2, FlatIs
<1>5. FlattenSeq(t) = h[n + 1]
  <2>1. Joins(h, t, Len(t))
    BY <1>1, <1>3
  <2> QED BY <1>1, <2>1, FlatIs
<1> HIDE DEF n
<1>6. h[n + 1] = IF n = 0 THEN x ELSE h[n] \o x
  BY <1>1, <1>3, JoinsLast
<1>7. n # 0 => h[n] = g[n]
  <2>1. \A i \in 1 .. n : g[i] = h[i]
    <3> DEFINE m == n + 1
    <3>1. /\ n \in Nat /\ m \in Nat /\ n <= m /\ Joins(g, s, n) /\ Joins(h, t, m)
          /\ \A i \in 1 .. n : s[i] = t[i]
      BY <1>1, <1>2, <1>3
    <3> HIDE DEF m
    <3> QED BY <3>1, JoinsAgree
  <2>2. n # 0 => n \in 1 .. n
    BY <1>1
  <2> QED BY <2>1, <2>2
<1>8. <<>> \o x = x
  OBVIOUS
<1> QED BY <1>4, <1>5, <1>6, <1>7, <1>8, Zenon DEF t

LEMMA FlatSingle ==
  ASSUME NEW X, NEW x \in Seq(X)
  PROVE  FlattenSeq(<<x>>) = x
<1>1. <<>> \in Seq(Seq(X)) /\ Append(<<>>, x) = <<x>> /\ <<>> \o x = x
  OBVIOUS
<1> QED BY <1>1, FlatOneMore, FlatEmpty

LEMMA Associative ==
  \A s, t, u \in Seq(Cells) : (s \o t) \o u = s \o (t \o u)
BY ConcatAssociative

\* What two texts of pieces spell, one after the other.
LEMMA FlatConcat ==
  ASSUME NEW s \in Seq(Seq(Cells)), NEW t \in Seq(Seq(Cells))
  PROVE  FlattenSeq(s \o t) = FlattenSeq(s) \o FlattenSeq(t)
<1> DEFINE P(u) == FlattenSeq(s \o u) = FlattenSeq(s) \o FlattenSeq(u)
           T == {n \in Nat : \A u \in Seq(Seq(Cells)) : Len(u) = n => P(u)}
<1>1. 0 \in T
  <2> SUFFICES ASSUME NEW u \in Seq(Seq(Cells)), Len(u) = 0 PROVE P(u)
    OBVIOUS
  <2>1. u = <<>> /\ s \o u = s
    OBVIOUS
  <2>2. FlattenSeq(s) \o <<>> = FlattenSeq(s)
    BY FlatType
  <2> QED BY <2>1, <2>2, FlatEmpty
<1>2. ASSUME NEW n \in Nat, n \in T PROVE n + 1 \in T
  <2> SUFFICES ASSUME NEW u \in Seq(Seq(Cells)), Len(u) = n + 1 PROVE P(u)
    OBVIOUS
  <2>1. PICK v \in Seq(Seq(Cells)), x \in Seq(Cells) : u = Append(v, x)
    <3>1. u # <<>>
      OBVIOUS
    <3> QED BY <3>1, SequenceEmptyOrAppend
  <2>2. Len(v) = n /\ s \o v \in Seq(Seq(Cells)) /\ s \o u = Append(s \o v, x)
    BY <2>1
  <2>3. P(v)
    BY <1>2, <2>2
  <2>4. /\ FlattenSeq(s \o u) = FlattenSeq(s \o v) \o x
        /\ FlattenSeq(u) = FlattenSeq(v) \o x
    BY <2>1, <2>2, FlatOneMore
  <2>5. FlattenSeq(s) \in Seq(Cells) /\ FlattenSeq(v) \in Seq(Cells)
    BY FlatType
  <2>6. (FlattenSeq(s) \o FlattenSeq(v)) \o x = FlattenSeq(s) \o (FlattenSeq(v) \o x)
    BY Associative, <2>1, <2>5, Zenon
  <2> QED BY <2>3, <2>4, <2>6
<1> HIDE DEF T, P
<1>3. Nat \subseteq T
  BY <1>1, <1>2, Induction
<1>4. Len(t) \in Nat
  OBVIOUS
<1>5. Len(t) \in T
  BY <1>3, <1>4
<1>6. P(t)
  BY <1>5 DEF T
<1> QED BY <1>6 DEF P

\* A text is what its own cells spell.
LEMMA FlatSingles ==
  ASSUME NEW t \in Seq(Cells)
  PROVE  FlattenSeq([k \in 1 .. Len(t) |-> <<t[k]>>]) = t
<1> DEFINE S(u) == [k \in 1 .. Len(u) |-> <<u[k]>>]
           T == {n \in Nat : \A u \in Seq(Cells) : Len(u) = n => FlattenSeq(S(u)) = u}
<1>1. 0 \in T
  <2> SUFFICES ASSUME NEW u \in Seq(Cells), Len(u) = 0 PROVE FlattenSeq(S(u)) = u
    OBVIOUS
  <2>1. u = <<>> /\ S(u) = <<>>
    OBVIOUS
  <2> QED BY <2>1, FlatEmpty
<1>2. ASSUME NEW n \in Nat, n \in T PROVE n + 1 \in T
  <2> SUFFICES ASSUME NEW u \in Seq(Cells), Len(u) = n + 1 PROVE FlattenSeq(S(u)) = u
    OBVIOUS
  <2>1. PICK v \in Seq(Cells), x \in Cells : u = Append(v, x)
    <3>1. u # <<>>
      OBVIOUS
    <3> QED BY <3>1, SequenceEmptyOrAppend
  <2>2. /\ Len(v) = n /\ Len(u) = Len(v) + 1 /\ u[n + 1] = x
        /\ \A k \in 1 .. n : u[k] = v[k] /\ v[k] \in Cells
    BY <2>1
  <2>3. S(v) \in Seq(Seq(Cells)) /\ Len(S(v)) = n /\ <<x>> \in Seq(Cells)
    BY <2>2
  <2>4. S(u) = Append(S(v), <<x>>)
    <3> DEFINE a == Append(S(v), <<x>>)
    <3>1. /\ a \in Seq(Seq(Cells)) /\ Len(a) = n + 1 /\ a[n + 1] = <<x>>
          /\ \A k \in 1 .. n : a[k] = S(v)[k]
      BY <2>3, AppendProperties
    <3> HIDE DEF a
    <3>2. \A k \in 1 .. n + 1 : k \in 1 .. n \/ k = n + 1
      OBVIOUS
    <3>3. \A k \in 1 .. n + 1 : a[k] = <<u[k]>>
      BY <2>2, <3>1, <3>2
    <3>4. a = [k \in 1 .. n + 1 |-> a[k]]
      BY <3>1
    <3>5. a = S(u)
      BY <2>2, <3>3, <3>4
    <3> QED BY <3>5 DEF a
  <2>5. FlattenSeq(S(u)) = FlattenSeq(S(v)) \o <<x>>
    BY <2>3, <2>4, FlatOneMore
  <2>6. FlattenSeq(S(v)) = v
    BY <1>2, <2>2
  <2>7. u = v \o <<x>>
    BY <2>1, AppendIsConcat
  <2> HIDE DEF S
  <2> QED BY <2>5, <2>6, <2>7
<1> HIDE DEF T, S
<1>3. Nat \subseteq T
  BY <1>1, <1>2, Induction
<1>4. Len(t) \in T
  BY <1>3
<1>5. FlattenSeq(S(t)) = t
  BY <1>4 DEF T
<1> QED BY <1>5 DEF S

\* What the cells of s from the k-th on spell.
Rest(s, k) == FlattenSeq(SubSeq(s, k, Len(s)))

LEMMA RestType ==
  ASSUME NEW s \in Seq(Seq(Cells)), NEW k \in 1 .. Len(s) + 1
  PROVE  Rest(s, k) \in Seq(Cells)
<1>1. SubSeq(s, k, Len(s)) \in Seq(Seq(Cells))
  OBVIOUS
<1> QED BY <1>1, FlatType DEF Rest

LEMMA RestAll ==
  ASSUME NEW s \in Seq(Seq(Cells))
  PROVE  Rest(s, 1) = FlattenSeq(s) /\ Rest(s, Len(s) + 1) = <<>>
<1>1. SubSeq(s, 1, Len(s)) = s /\ SubSeq(s, Len(s) + 1, Len(s)) = <<>>
  OBVIOUS
<1> QED BY <1>1, FlatEmpty DEF Rest

\* The first cell of a rest, and what is left.
LEMMA RestFirst ==
  ASSUME NEW s \in Seq(Seq(Cells)), NEW k \in 1 .. Len(s)
  PROVE  Rest(s, k) = s[k] \o Rest(s, k + 1)
<1> DEFINE u == SubSeq(s, k + 1, Len(s))
<1>1. SubSeq(s, k, Len(s)) = <<s[k]>> \o u
  BY SubSeqRecursiveFirst
<1>2. s[k] \in Seq(Cells) /\ <<s[k]>> \in Seq(Seq(Cells)) /\ u \in Seq(Seq(Cells))
  OBVIOUS
<1> HIDE DEF u
<1>3. FlattenSeq(<<s[k]>> \o u) = FlattenSeq(<<s[k]>>) \o FlattenSeq(u)
  BY <1>2, FlatConcat
<1>4. FlattenSeq(<<s[k]>>) = s[k]
  BY <1>2, FlatSingle
<1> QED BY <1>1, <1>3, <1>4 DEF Rest, u

-----------------------------------------------------------------------------
(* Edits of a text *)

\* Whether cell i is one of those the edit replaces.
Covers(e, i) == e.start <= i /\ i < e.start + e.length

\* Edits of n cells that do not touch each other.
Sound(E, n) ==
    /\ \A e \in E :
         /\ e \in [start : Nat, length : Nat, text : Seq(Cells)]
         /\ e.length > 0 /\ e.start + e.length <= n
    /\ \A e, f \in E : e # f => Apart(e, f)

\* Every edit writes as much as it replaces.
KeepsWidth(E) == \A e \in E : Len(e.text) = e.length

\* No two edits reach for the same cell.
LEMMA OneCovers ==
  ASSUME NEW E, NEW n \in Nat, Sound(E, n), NEW e \in E, NEW f \in E, NEW i \in Nat,
         Covers(e, i), Covers(f, i)
  PROVE  e = f
<1>1. e.start \in Nat /\ e.length \in Nat /\ f.start \in Nat /\ f.length \in Nat
  BY DEF Sound
<1>2. ~ Apart(e, f)
  BY <1>1 DEF Apart, Covers
<1> QED BY <1>2 DEF Sound

\* Whether a text is written cell by cell or all at the first of its places.
Spreads(c, d, E, n) ==
    /\ c \in Seq(Seq(Cells)) /\ d \in Seq(Seq(Cells)) /\ Len(c) = n /\ Len(d) = n
    /\ \A e \in E : \A k \in 1 .. n : Covers(e, k - 1) =>
         /\ c[k] = <<e.text[k - e.start]>>
         /\ d[k] = IF k = e.start + 1 THEN e.text ELSE <<>>
    /\ \A k \in 1 .. n : (\A e \in E : ~ Covers(e, k - 1)) => c[k] = d[k]

\* A text written all at its first place, or cell by cell, spells the same.
LEMMA SpreadAlike ==
  ASSUME NEW n \in Nat, NEW E, Sound(E, n), KeepsWidth(E),
         NEW c, NEW d, Spreads(c, d, E, n)
  PROVE  FlattenSeq(c) = FlattenSeq(d)
<1> DEFINE AtStart(k) == (\A e \in E : Covers(e, k - 1) => e.start = k - 1)
                            => Rest(c, k) = Rest(d, k)
           Amid(k) == \A e \in E : Covers(e, k - 1) =>
                        Rest(c, k) = SubSeq(e.text, k - e.start, e.length) \o Rest(d, k + 1)
           T == {m \in Nat : m <= n => AtStart(n + 1 - m) /\ (m > 0 => Amid(n + 1 - m))}
<1>0. c \in Seq(Seq(Cells)) /\ d \in Seq(Seq(Cells)) /\ Len(c) = n /\ Len(d) = n
  BY DEF Spreads
<1>1. 0 \in T
  <2>1. Rest(c, n + 1) = <<>> /\ Rest(d, n + 1) = <<>>
    BY <1>0, RestAll
  <2> QED BY <2>1
<1>2. ASSUME NEW m \in Nat, m \in T PROVE m + 1 \in T
  <2> DEFINE k == n - m
  <2> SUFFICES ASSUME m + 1 <= n PROVE AtStart(k) /\ Amid(k)
    <3>1. n + 1 - (m + 1) = n - m /\ m + 1 \in Nat
      OBVIOUS
    <3> HIDE DEF AtStart, Amid
    <3> QED BY <3>1
  <2> HIDE DEF AtStart, Amid, T
  <2>1. k \in 1 .. n /\ k + 1 = n + 1 - m /\ k + 1 \in 1 .. n + 1
    OBVIOUS
  <2>2. AtStart(k + 1) /\ (m > 0 => Amid(k + 1))
    BY <1>2, <2>1 DEF T
  <2>3. k < n => m > 0
    OBVIOUS
  <2> HIDE DEF k
  <2>4. Rest(c, k) = c[k] \o Rest(c, k + 1) /\ Rest(d, k) = d[k] \o Rest(d, k + 1)
    BY <1>0, <2>1, RestFirst
  <2>5. Rest(c, k + 1) \in Seq(Cells) /\ Rest(d, k + 1) \in Seq(Cells)
    BY <1>0, <2>1, RestType
  <2>6. ASSUME NEW e \in E, Covers(e, k - 1)
        PROVE  Rest(c, k) = SubSeq(e.text, k - e.start, e.length) \o Rest(d, k + 1)
    <3> DEFINE j == k - e.start
    <3>1. /\ e.start \in Nat /\ e.length \in Nat /\ e.text \in Seq(Cells)
          /\ Len(e.text) = e.length /\ e.start + e.length <= n
      BY DEF Sound, KeepsWidth
    <3>2. j \in 1 .. e.length
      BY <2>1, <2>6, <3>1 DEF Covers
    <3>3. Rest(c, k + 1) = SubSeq(e.text, j + 1, e.length) \o Rest(d, k + 1)
      <4>1. CASE j = e.length
        <5>1. \A f \in E : Covers(f, k) => f.start = k
          <6> SUFFICES ASSUME NEW f \in E, Covers(f, k), f.start # k PROVE FALSE
            OBVIOUS
          <6>1. f.start \in Nat /\ f.length \in Nat
            BY DEF Sound
          <6>2. Covers(f, k - 1) /\ k - 1 \in Nat
            BY <2>1, <6>1 DEF Covers
          <6>3. f = e
            BY <2>6, <6>2, OneCovers
          <6> QED BY <2>1, <3>1, <4>1, <6>3 DEF Covers
        <5>2. Rest(c, k + 1) = Rest(d, k + 1)
          BY <2>1, <2>2, <5>1 DEF AtStart
        <5>3. SubSeq(e.text, j + 1, e.length) = <<>>
          BY <3>1, <4>1
        <5>4. <<>> \o Rest(d, k + 1) = Rest(d, k + 1)
          BY <2>5
        <5> QED BY <5>2, <5>3, <5>4
      <4>2. CASE j # e.length
        <5> DEFINE l == k + 1
        <5>1. /\ Covers(e, l - 1) /\ l \in 1 .. n /\ k < n
              /\ l # e.start + 1 /\ l - e.start = j + 1
          BY <2>1, <3>1, <3>2, <4>2 DEF Covers
        <5>2. AtStart(l) /\ Amid(l)
          BY <2>2, <2>3, <5>1
        <5> HIDE DEF l, j
        <5>3. Rest(c, l) = SubSeq(e.text, j + 1, e.length) \o Rest(d, l + 1)
          BY <5>1, <5>2 DEF Amid
        <5>4. d[l] = <<>>
          BY <2>6, <5>1 DEF Spreads
        <5>5. Rest(d, l) = d[l] \o Rest(d, l + 1) /\ Rest(d, l + 1) \in Seq(Cells)
          <6>1. l + 1 \in 1 .. Len(d) + 1
            BY <1>0, <5>1
          <6> QED BY <1>0, <5>1, <6>1, RestFirst, RestType
        <5>6. Rest(d, l) = Rest(d, l + 1)
          BY <5>4, <5>5
        <5> QED BY <5>3, <5>6 DEF l
      <4> QED BY <4>1, <4>2
    <3>4. c[k] = <<e.text[j]>>
      BY <2>1, <2>6 DEF Spreads
    <3>5. /\ SubSeq(e.text, j, e.length) = <<e.text[j]>> \o SubSeq(e.text, j + 1, e.length)
          /\ SubSeq(e.text, j + 1, e.length) \in Seq(Cells)
          /\ <<e.text[j]>> \in Seq(Cells)
      <4> HIDE DEF j
      <4>1. j \in 1 .. Len(e.text) /\ Len(e.text) \in j .. Len(e.text)
        BY <3>1, <3>2
      <4>2. SubSeq(e.text, j, Len(e.text)) = <<e.text[j]>> \o SubSeq(e.text, j + 1, Len(e.text))
        BY <3>1, <4>1, SubSeqRecursiveFirst
      <4>3. SubSeq(e.text, j + 1, Len(e.text)) \in Seq(Cells)
        BY <3>1, <4>1
      <4>4. <<e.text[j]>> \in Seq(Cells)
        BY <3>1, <4>1
      <4> QED BY <3>1, <4>2, <4>3, <4>4
    <3> HIDE DEF j
    <3> DEFINE a == <<e.text[j]>>
               b == SubSeq(e.text, j + 1, e.length)
               r == Rest(d, k + 1)
    <3>6. a \in Seq(Cells) /\ b \in Seq(Cells) /\ r \in Seq(Cells)
      BY <2>5, <3>5
    <3>7. Rest(c, k) = a \o (b \o r)
      BY <2>4, <3>3, <3>4
    <3> HIDE DEF a, b, r
    <3>8. (a \o b) \o r = a \o (b \o r)
      BY <3>6, Associative
    <3>9. SubSeq(e.text, j, e.length) = a \o b
      BY <3>5 DEF a, b
    <3> QED BY <3>7, <3>8, <3>9 DEF j, r
  <2>7. AtStart(k)
    <3> SUFFICES ASSUME \A e \in E : Covers(e, k - 1) => e.start = k - 1
                 PROVE  Rest(c, k) = Rest(d, k)
      BY DEF AtStart
    <3>1. CASE \E e \in E : Covers(e, k - 1)
      <4>1. PICK e \in E : Covers(e, k - 1)
        BY <3>1
      <4>2. /\ e.start = k - 1 /\ e.text \in Seq(Cells) /\ Len(e.text) = e.length
            /\ e.start \in Nat /\ e.length \in Nat
        BY <4>1 DEF Sound, KeepsWidth
      <4>3. k - e.start = 1 /\ k = e.start + 1
        BY <2>1, <4>2
      <4>4. SubSeq(e.text, 1, e.length) = e.text
        BY <4>2
      <4>5. d[k] = e.text
        BY <2>1, <4>1, <4>3 DEF Spreads
      <4> QED BY <2>4, <2>6, <4>1, <4>3, <4>4, <4>5
    <3>2. CASE ~ \E e \in E : Covers(e, k - 1)
      <4>1. c[k] = d[k]
        BY <2>1, <3>2 DEF Spreads
      <4>2. \A f \in E : Covers(f, k) => f.start = k
        <5> SUFFICES ASSUME NEW f \in E, Covers(f, k), f.start # k PROVE FALSE
          OBVIOUS
        <5>1. f.start \in Nat /\ f.length \in Nat
          BY DEF Sound
        <5>2. Covers(f, k - 1)
          BY <2>1, <5>1 DEF Covers
        <5> QED BY <3>2, <5>2
      <4>3. Rest(c, k + 1) = Rest(d, k + 1)
        BY <2>1, <2>2, <4>2 DEF AtStart
      <4> QED BY <2>4, <4>1, <4>3
    <3> QED BY <3>1, <3>2
  <2> QED BY <2>6, <2>7 DEF Amid
<1> HIDE DEF T
<1>3. n \in T
  BY <1>1, <1>2, Induction
<1>4. n + 1 - n = 1
  OBVIOUS
<1>5. AtStart(1)
  BY <1>3, <1>4 DEF T
<1>6. \A e \in E : Covers(e, 1 - 1) => e.start = 1 - 1
  <2> SUFFICES ASSUME NEW e \in E, Covers(e, 0) PROVE e.start = 0
    OBVIOUS
  <2> QED BY DEF Sound, Covers
<1>7. Rest(c, 1) = Rest(d, 1)
  BY <1>5, <1>6
<1> QED BY <1>0, <1>7, RestAll

\* What edits E make of each cell of t.
Pieces(t, E) ==
    [k \in 1 .. Len(t) |->
        IF \E e \in E : e.start = k - 1 THEN (CHOOSE e \in E : e.start = k - 1).text
        ELSE IF \E e \in E : Covers(e, k - 1) THEN <<>>
        ELSE <<t[k]>>]

LEMMA OneStarts ==
  ASSUME NEW E, NEW n \in Nat, Sound(E, n), NEW e \in E, NEW i, e.start = i
  PROVE  (CHOOSE f \in E : f.start = i) = e
<1> DEFINE c == CHOOSE f \in E : f.start = i
<1>1. c \in E /\ c.start = i
  OBVIOUS
<1> HIDE DEF c
<1>2. /\ e.start \in Nat /\ e.length \in Nat /\ e.length > 0
      /\ c.start \in Nat /\ c.length \in Nat /\ c.length > 0
  BY <1>1 DEF Sound
<1>3. Covers(e, i) /\ Covers(c, i) /\ i \in Nat
  BY <1>1, <1>2 DEF Covers
<1>4. c = e
  BY <1>1, <1>3, OneCovers
<1> QED BY <1>4 DEF c

\* The piece of a cell, whichever edit reaches for it.
LEMMA PieceAt ==
  ASSUME NEW t \in Seq(Cells), NEW E, Sound(E, Len(t)), NEW k \in 1 .. Len(t)
  PROVE  /\ \A e \in E : Covers(e, k - 1) =>
              Pieces(t, E)[k] = IF k = e.start + 1 THEN e.text ELSE <<>>
         /\ (\A e \in E : ~ Covers(e, k - 1)) => Pieces(t, E)[k] = <<t[k]>>
<1> DEFINE p == Pieces(t, E)[k]
           i == k - 1
<1>1. p = IF \E e \in E : e.start = i THEN (CHOOSE e \in E : e.start = i).text
          ELSE IF \E e \in E : Covers(e, i) THEN <<>> ELSE <<t[k]>>
  BY Zenon DEF Pieces
<1>2. Len(t) \in Nat /\ k \in Nat /\ i \in Nat /\ k = i + 1
  OBVIOUS
<1>3. \A e \in E :
        /\ e.start \in Nat
        /\ (e.start = i) <=> (k = e.start + 1)
        /\ (e.start = i) => Covers(e, i)
  BY <1>2 DEF Sound, Covers
<1> HIDE DEF p, i
<1>4. ASSUME NEW e \in E, Covers(e, i) PROVE p = IF k = e.start + 1 THEN e.text ELSE <<>>
  <2>1. CASE e.start = i
    <3>1. (CHOOSE f \in E : f.start = i) = e
      BY <1>2, <2>1, OneStarts
    <3> QED BY <1>1, <1>3, <2>1, <3>1, Zenon
  <2>2. CASE e.start # i
    <3>1. ~ \E f \in E : f.start = i
      BY <1>2, <1>3, <1>4, <2>2, OneCovers
    <3> QED BY <1>1, <1>3, <1>4, <2>2, <3>1, Zenon
  <2> QED BY <2>1, <2>2
<1>5. ASSUME \A e \in E : ~ Covers(e, i) PROVE p = <<t[k]>>
  BY <1>1, <1>3, <1>5, Zenon
<1> QED BY <1>4, <1>5 DEF p, i

LEMMA PiecesType ==
  ASSUME NEW t \in Seq(Cells), NEW E, Sound(E, Len(t))
  PROVE  Pieces(t, E) \in Seq(Seq(Cells)) /\ Len(Pieces(t, E)) = Len(t)
<1> DEFINE n == Len(t)
           s == Pieces(t, E)
<1>1. n \in Nat /\ DOMAIN s = 1 .. n /\ s = [k \in 1 .. n |-> s[k]]
  BY DEF Pieces
<1>2. ASSUME NEW k \in 1 .. n PROVE s[k] \in Seq(Cells)
  <2>1. <<t[k]>> \in Seq(Cells) /\ <<>> \in Seq(Cells)
    OBVIOUS
  <2>2. \A e \in E : e.text \in Seq(Cells)
    BY DEF Sound
  <2>3. CASE \E e \in E : Covers(e, k - 1)
    <3>1. PICK e \in E : Covers(e, k - 1)
      BY <2>3
    <3>2. s[k] = IF k = e.start + 1 THEN e.text ELSE <<>>
      BY <3>1, PieceAt
    <3> HIDE DEF s
    <3> QED BY <2>1, <2>2, <3>2
  <2>4. CASE \A e \in E : ~ Covers(e, k - 1)
    BY <2>1, <2>4, PieceAt
  <2> QED BY <2>3, <2>4
<1> HIDE DEF s, n
<1>3. s \in [1 .. n -> Seq(Cells)]
  BY <1>1, <1>2
<1>4. s \in Seq(Seq(Cells)) /\ Len(s) = n
  BY <1>1, <1>3
<1> QED BY <1>4 DEF s, n

\* Behind its first cell, the cells an edit covers spell nothing.
LEMMA RestSkips ==
  ASSUME NEW t \in Seq(Cells), NEW E, Sound(E, Len(t)), NEW e \in E,
         NEW p \in e.start + 1 .. e.start + e.length
  PROVE  Rest(Pieces(t, E), p + 1) = Rest(Pieces(t, E), e.start + e.length + 1)
<1> DEFINE s == Pieces(t, E)
           q == e.start + e.length
           T == {m \in Nat : m < e.length => Rest(s, q - m + 1) = Rest(s, q + 1)}
<1>0. s \in Seq(Seq(Cells)) /\ Len(s) = Len(t)
  BY PiecesType
<1> HIDE DEF s
<1>1. e.start \in Nat /\ e.length \in Nat /\ q \in Nat /\ q <= Len(t) /\ Len(t) \in Nat
  BY DEF Sound
<1>2. 0 \in T
  <2>1. q - 0 + 1 = q + 1
    BY <1>1
  <2> QED BY <2>1
<1>3. ASSUME NEW m \in Nat, m \in T PROVE m + 1 \in T
  <2> DEFINE l == q - m
  <2> SUFFICES ASSUME m + 1 < e.length PROVE Rest(s, l) = Rest(s, q + 1)
    <3>1. q - (m + 1) + 1 = l /\ m + 1 \in Nat
      BY <1>1
    <3> HIDE DEF l, s, q
    <3> QED BY <3>1
  <2>1. /\ l \in 1 .. Len(t) /\ Covers(e, l - 1) /\ l # e.start + 1 /\ m < e.length
        /\ l + 1 = q - m + 1 /\ l + 1 \in 1 .. Len(s) + 1
    <3> HIDE DEF s, T
    <3>1. l \in Nat /\ l <= Len(t) /\ l > e.start + 1 /\ l <= q
      BY <1>1
    <3>2. Covers(e, l - 1)
      BY <1>1, <3>1 DEF Covers
    <3>3. l # e.start + 1 /\ m < e.length
      BY <1>1, <3>1
    <3> HIDE DEF q
    <3>4. l + 1 = q - m + 1
      BY <1>1
    <3> HIDE DEF l
    <3>5. l \in 1 .. Len(t) /\ l + 1 \in 1 .. Len(s) + 1
      BY <1>0, <1>1, <3>1
    <3> QED BY <3>2, <3>3, <3>4, <3>5
  <2>2. Rest(s, l + 1) = Rest(s, q + 1)
    BY <1>3, <2>1
  <2> HIDE DEF l
  <2>3. s[l] = <<>>
    BY <2>1, PieceAt DEF s
  <2>4. Rest(s, l) = s[l] \o Rest(s, l + 1) /\ Rest(s, l + 1) \in Seq(Cells)
    BY <1>0, <1>1, <2>1, RestFirst, RestType
  <2> QED BY <2>2, <2>3, <2>4
<1> HIDE DEF T, s
<1>4. q - p \in T /\ q - p < e.length /\ q - (q - p) + 1 = p + 1
  <2>0. p \in Nat /\ p > e.start /\ p <= q
    BY <1>1
  <2>1. q - p \in Nat /\ q - p < e.length /\ q - (q - p) + 1 = p + 1
    <3>1. q - p < e.length
      BY <1>1, <2>0
    <3> HIDE DEF q
    <3> QED BY <1>1, <2>0, <3>1
  <2> HIDE DEF q
  <2>2. Nat \subseteq T
    BY <1>2, <1>3, Induction
  <2> QED BY <2>1, <2>2
<1>5. Rest(s, p + 1) = Rest(s, q + 1)
  BY <1>4 DEF T
<1> QED BY <1>5 DEF s

LEMMA Prefix ==
  ASSUME NEW a \in Seq(Cells), NEW r \in Seq(Cells), NEW t \in Seq(Cells),
         NEW m \in Nat, NEW q \in Nat,
         m <= q, q <= Len(t), a = SubSeq(t, 1, q)
  PROVE  SubSeq(a \o r, 1, m) = SubSeq(t, 1, m)
<1>1. Len(a) = q /\ \A i \in 1 .. q : a[i] = t[i]
  OBVIOUS
<1> DEFINE u == a \o r
           x == SubSeq(u, 1, m)
           y == SubSeq(t, 1, m)
<1>2. u \in Seq(Cells) /\ Len(u) = q + Len(r) /\ \A i \in 1 .. q : u[i] = a[i]
  BY <1>1
<1> HIDE DEF u
<1>3. x \in Seq(Cells) /\ Len(x) = m /\ \A i \in 1 .. m : x[i] = u[i]
  BY <1>2
<1>4. y \in Seq(Cells) /\ Len(y) = m /\ \A i \in 1 .. m : y[i] = t[i]
  OBVIOUS
<1> HIDE DEF x, y
<1>5. Len(x) = Len(y) /\ \A i \in 1 .. Len(x) : x[i] = y[i]
  BY <1>1, <1>2, <1>3, <1>4
<1>6. x = y
  BY <1>3, <1>4, <1>5, SeqEqual
<1> QED BY <1>6 DEF x, y, u

LEMMA Suffix ==
  ASSUME NEW a \in Seq(Cells), NEW r \in Seq(Cells)
  PROVE  SubSeq(a \o r, Len(a) + 1, Len(a \o r)) = r
<1> DEFINE u == a \o r
           q == Len(a)
           x == SubSeq(u, q + 1, Len(u))
<1>1. u \in Seq(Cells) /\ Len(u) = q + Len(r) /\ q \in Nat /\ \A i \in 1 .. Len(r) : u[q + i] = r[i]
  OBVIOUS
<1> HIDE DEF u, q
<1>2. x \in Seq(Cells) /\ Len(x) = Len(r) /\ \A i \in 1 .. Len(r) : x[i] = u[q + i]
  <2> DEFINE n == Len(u)
  <2>1. n \in Nat /\ n = q + Len(r) /\ Len(r) \in Nat
    BY <1>1
  <2>2. \A i \in q + 1 .. n : u[i] \in Cells
    BY <1>1
  <2> HIDE DEF n
  <2>3. /\ SubSeq(u, q + 1, n) \in Seq(Cells)
        /\ Len(SubSeq(u, q + 1, n)) = IF q + 1 <= n THEN n - (q + 1) + 1 ELSE 0
        /\ \A i \in 1 .. n - (q + 1) + 1 : SubSeq(u, q + 1, n)[i] = u[q + 1 + i - 1]
    BY <1>1, <2>1, <2>2, SubSeqProperties
  <2>4. n - (q + 1) + 1 = Len(r) /\ (q + 1 <= n \/ Len(r) = 0)
    BY <1>1, <2>1
  <2>5. \A i \in 1 .. Len(r) : q + 1 + i - 1 = q + i
    BY <1>1
  <2> QED BY <2>3, <2>4, <2>5 DEF n
<1> HIDE DEF x
<1>3. x = r
  BY <1>1, <1>2, SeqEqual
<1> QED BY <1>3 DEF x, u, q

\* One edit of a text whose rest has been edited already.
LEMMA Replaces ==
  ASSUME NEW t \in Seq(Cells), NEW r \in Seq(Cells),
         NEW e, e.start \in Nat, e.length \in Nat, e.text \in Seq(Cells),
         e.start + e.length <= Len(t)
  PROVE  Replace(SubSeq(t, 1, e.start + e.length) \o r, e)
            = SubSeq(t, 1, e.start) \o (e.text \o r)
<1> DEFINE q == e.start + e.length
           m == e.start
           a == SubSeq(t, 1, q)
           b == SubSeq(t, 1, m)
           u == a \o r
<1>1. /\ q \in Nat /\ m \in Nat /\ m <= q /\ q <= Len(t)
  OBVIOUS
<1>2. Replace(u, e) = (SubSeq(u, 1, m) \o e.text) \o SubSeq(u, q + 1, Len(u))
  BY DEF Replace
<1> HIDE DEF q, m
<1>3. a \in Seq(Cells) /\ Len(a) = q /\ b \in Seq(Cells)
  BY <1>1
<1>4. SubSeq(u, 1, m) = b
  BY <1>1, <1>3, Prefix
<1>5. SubSeq(u, q + 1, Len(u)) = r
  BY <1>3, Suffix
<1> HIDE DEF u, b
<1>6. (b \o e.text) \o r = b \o (e.text \o r)
  BY <1>3, Associative
<1> QED BY <1>2, <1>4, <1>5, <1>6 DEF u, a, b, m, q

\* Where the text is unchanged from, once the edits from place p on are made.
Past(E, p) ==
    IF \E e \in E : e.start < p /\ p < e.start + e.length
    THEN LET e == CHOOSE e \in E : e.start < p /\ p < e.start + e.length
         IN  e.start + e.length
    ELSE p

LEMMA PastIs ==
  ASSUME NEW E, NEW n \in Nat, Sound(E, n), NEW p \in Nat
  PROVE  /\ \A e \in E : e.start < p /\ p < e.start + e.length => Past(E, p) = e.start + e.length
         /\ (\A e \in E : ~ (e.start < p /\ p < e.start + e.length)) => Past(E, p) = p
<1>1. ASSUME NEW e \in E, e.start < p /\ p < e.start + e.length
      PROVE  Past(E, p) = e.start + e.length
  <2> DEFINE c == CHOOSE f \in E : f.start < p /\ p < f.start + f.length
  <2>1. c \in E /\ c.start < p /\ p < c.start + c.length
    BY <1>1
  <2>2. Past(E, p) = c.start + c.length
    BY <1>1, Zenon DEF Past
  <2> HIDE DEF c
  <2>3. e.start \in Nat /\ c.start \in Nat
    BY <2>1 DEF Sound
  <2>4. Covers(e, p) /\ Covers(c, p)
    BY <1>1, <2>1, <2>3 DEF Covers
  <2>5. c = e
    BY <2>1, <2>4, OneCovers
  <2> QED BY <2>2, <2>5
<1>2. ASSUME \A e \in E : ~ (e.start < p /\ p < e.start + e.length) PROVE Past(E, p) = p
  BY <1>2, Zenon DEF Past
<1> QED BY <1>1, <1>2

\* g holds the text with the edits from each place on made.
Editing(g, t, E) ==
    g = [p \in 0 .. Len(t) |->
            IF p = Len(t) THEN t
            ELSE IF \E e \in E : e.start = p
                 THEN Replace(g[p + 1], CHOOSE e \in E : e.start = p)
                 ELSE g[p + 1]]

LEMMA EditingAgrees ==
  ASSUME NEW t, Len(t) \in Nat, NEW E, NEW g, NEW h, Editing(g, t, E), Editing(h, t, E)
  PROVE  g[0] = h[0]
<1> DEFINE n == Len(t)
           T == {m \in Nat : m <= n => g[n - m] = h[n - m]}
<1>1. \A p \in 0 .. n : g[p] = IF p = n THEN t
            ELSE IF \E e \in E : e.start = p
                 THEN Replace(g[p + 1], CHOOSE e \in E : e.start = p) ELSE g[p + 1]
  BY Zenon DEF Editing
<1>2. \A p \in 0 .. n : h[p] = IF p = n THEN t
            ELSE IF \E e \in E : e.start = p
                 THEN Replace(h[p + 1], CHOOSE e \in E : e.start = p) ELSE h[p + 1]
  BY Zenon DEF Editing
<1>3. n \in Nat
  OBVIOUS
<1> HIDE DEF n
<1>4. 0 \in T
  <2> DEFINE p == n - 0
  <2>1. p \in 0 .. n /\ p = n
    BY <1>3
  <2> HIDE DEF p
  <2>2. g[p] = h[p]
    BY <1>1, <1>2, <2>1
  <2> QED BY <2>2 DEF p
<1>5. ASSUME NEW m \in Nat, m \in T PROVE m + 1 \in T
  <2> DEFINE p == n - (m + 1)
  <2> SUFFICES ASSUME m + 1 <= n PROVE g[p] = h[p]
    OBVIOUS
  <2>1. p \in 0 .. n /\ p # n /\ p + 1 = n - m /\ m <= n
    BY <1>3
  <2>2. g[p + 1] = h[p + 1]
    BY <1>5, <2>1
  <2> HIDE DEF p
  <2> DEFINE c == CHOOSE e \in E : e.start = p
  <2> HIDE DEF c
  <2>3. g[p] = IF \E e \in E : e.start = p THEN Replace(g[p + 1], c) ELSE g[p + 1]
    BY <1>1, <2>1 DEF c
  <2>4. h[p] = IF \E e \in E : e.start = p THEN Replace(h[p + 1], c) ELSE h[p + 1]
    BY <1>2, <2>1 DEF c
  <2> QED BY <2>2, <2>3, <2>4, Zenon
<1> HIDE DEF T
<1>6. n \in T /\ n - n = 0
  BY <1>3, <1>4, <1>5, Induction
<1>7. g[n - n] = h[n - n]
  BY <1>6 DEF T
<1> QED BY <1>6, <1>7

\* Working backwards, the text before p is untouched and the rest edited.
LEMMA EditsMade ==
  ASSUME NEW t \in Seq(Cells), NEW E, Sound(E, Len(t))
  PROVE  LET n == Len(t)
             s == Pieces(t, E)
             D == [p \in 0 .. n |-> SubSeq(t, 1, Past(E, p)) \o Rest(s, Past(E, p) + 1)]
         IN  Editing(D, t, E)
<1> DEFINE n == Len(t)
           s == Pieces(t, E)
           Done(p) == SubSeq(t, 1, Past(E, p)) \o Rest(s, Past(E, p) + 1)
           D == [p \in 0 .. n |-> Done(p)]
<1>1. n \in Nat /\ s \in Seq(Seq(Cells)) /\ Len(s) = n
  BY PiecesType
<1> HIDE DEF s, n
<1>2. Done(n) = t
  <2>1. \A e \in E : ~ (e.start < n /\ n < e.start + e.length)
    BY <1>1 DEF Sound, n
  <2>2. Past(E, n) = n
    BY <1>1, <2>1, PastIs DEF n
  <2>3. Rest(s, n + 1) = <<>>
    BY <1>1, RestAll
  <2>4. SubSeq(t, 1, n) = t /\ t \o <<>> = t
    BY DEF n
  <2> QED BY <2>2, <2>3, <2>4
<1>3. ASSUME NEW p \in 0 .. n - 1, NEW e \in E, e.start = p
      PROVE  Done(p) = Replace(Done(p + 1), e)
  <2> DEFINE q == e.start + e.length
             r == Rest(s, q + 1)
  <2>1. /\ e.start \in Nat /\ e.length \in Nat /\ e.length > 0 /\ e.text \in Seq(Cells)
        /\ q <= n /\ q \in Nat
    BY DEF Sound, n
  <2>2. Past(E, p) = p
    <3>1. ASSUME NEW f \in E, f.start < p, p < f.start + f.length PROVE FALSE
      <4>1. Covers(e, p) /\ p \in Nat /\ f.start \in Nat
        BY <1>3, <2>1 DEF Covers, Sound
      <4>2. Covers(f, p)
        BY <3>1, <4>1 DEF Covers
      <4>3. e = f
        BY <1>1, <4>1, <4>2, OneCovers DEF n
      <4> QED BY <1>3, <3>1, <4>1, <4>3
    <3> QED BY <1>1, <3>1, PastIs DEF n
  <2>3. Past(E, p + 1) = q
    <3>1. CASE e.length = 1
      <4>1. ASSUME NEW f \in E, f.start < p + 1, p + 1 < f.start + f.length PROVE FALSE
        <5>1. Covers(e, p) /\ p \in Nat /\ f.start \in Nat /\ f.length \in Nat
          BY <1>3, <2>1 DEF Covers, Sound
        <5>2. Covers(f, p)
          BY <4>1, <5>1 DEF Covers
        <5>3. e = f
          BY <1>1, <5>1, <5>2, OneCovers DEF n
        <5> QED BY <1>3, <3>1, <4>1, <5>1, <5>3
      <4>2. p + 1 = q /\ p + 1 \in Nat
        BY <1>3, <2>1, <3>1
      <4>3. \A f \in E : ~ (f.start < p + 1 /\ p + 1 < f.start + f.length)
        BY <4>1
      <4> QED BY <1>1, <4>2, <4>3, PastIs DEF n
    <3>2. CASE e.length # 1
      <4>1. e.start < p + 1 /\ p + 1 < e.start + e.length /\ p + 1 \in Nat
        BY <1>3, <2>1, <3>2
      <4> QED BY <1>1, <4>1, PastIs DEF n
    <3> QED BY <3>1, <3>2
  <2>4. Rest(s, p + 2) = r
    <3>1. p + 1 \in e.start + 1 .. e.start + e.length /\ p + 1 + 1 = p + 2
      BY <1>3, <2>1
    <3>2. Rest(s, p + 1 + 1) = r
      BY <3>1, RestSkips DEF s, n
    <3> QED BY <3>1, <3>2
  <2>5. r \in Seq(Cells)
    BY <1>1, <2>1, RestType
  <2>6. Rest(s, p + 1) = e.text \o r
    <3>1. p + 1 \in 1 .. n /\ p + 1 = e.start + 1 /\ Covers(e, p + 1 - 1) /\ p + 1 + 1 = p + 2
      BY <1>1, <1>3, <2>1 DEF Covers
    <3>2. s[p + 1] = e.text
      BY <3>1, PieceAt DEF s, n
    <3>3. Rest(s, p + 1) = s[p + 1] \o Rest(s, p + 1 + 1)
      BY <1>1, <3>1, RestFirst
    <3> QED BY <2>4, <3>1, <3>2, <3>3
  <2> HIDE DEF r
  <2>7. Replace(SubSeq(t, 1, q) \o r, e) = SubSeq(t, 1, e.start) \o (e.text \o r)
    BY <2>1, <2>5, Replaces DEF n
  <2> QED BY <1>3, <2>2, <2>3, <2>6, <2>7 DEF r
<1>4. ASSUME NEW p \in 0 .. n - 1, \A e \in E : e.start # p
      PROVE  Done(p) = Done(p + 1)
  <2>1. CASE \E e \in E : Covers(e, p)
    <3>1. PICK e \in E : Covers(e, p)
      BY <2>1
    <3>2. e.start \in Nat /\ e.length \in Nat /\ e.start + e.length <= n
      BY DEF Sound, n
    <3>3. e.start < p /\ p < e.start + e.length /\ p \in Nat
      BY <1>4, <3>1, <3>2 DEF Covers
    <3>4. Past(E, p) = e.start + e.length
      BY <1>1, <3>3, PastIs DEF n
    <3>5. Past(E, p + 1) = e.start + e.length
      <4>1. CASE p + 1 < e.start + e.length
        <5>1. e.start < p + 1 /\ p + 1 \in Nat
          BY <3>2, <3>3
        <5> QED BY <1>1, <4>1, <5>1, PastIs DEF n
      <4>2. CASE p + 1 = e.start + e.length
        <5>1. ASSUME NEW f \in E, f.start < p + 1, p + 1 < f.start + f.length PROVE FALSE
          <6>1. f.start \in Nat /\ f.length \in Nat
            BY DEF Sound
          <6>2. Covers(f, p) /\ p \in Nat
            BY <5>1, <6>1 DEF Covers
          <6>3. e = f
            BY <1>1, <3>1, <6>2, OneCovers DEF n
          <6> QED BY <4>2, <5>1, <6>1, <6>3
        <5>2. p + 1 \in Nat /\ \A f \in E : ~ (f.start < p + 1 /\ p + 1 < f.start + f.length)
          BY <5>1
        <5> QED BY <1>1, <4>2, <5>2, PastIs DEF n
      <4> QED BY <3>2, <3>3, <4>1, <4>2
    <3> QED BY <3>4, <3>5
  <2>2. CASE \A e \in E : ~ Covers(e, p)
    <3>1. ASSUME NEW f \in E
          PROVE  /\ ~ (f.start < p /\ p < f.start + f.length)
                 /\ ~ (f.start < p + 1 /\ p + 1 < f.start + f.length)
      <4>1. f.start \in Nat /\ f.length \in Nat /\ ~ Covers(f, p)
        BY <2>2 DEF Sound
      <4> QED BY <4>1 DEF Covers
    <3>2. p \in Nat /\ p + 1 \in Nat /\ p + 1 \in 1 .. n /\ p + 1 - 1 = p /\ p + 1 + 1 = p + 2
      BY <1>1
    <3>3. Past(E, p) = p /\ Past(E, p + 1) = p + 1
      BY <1>1, <3>1, <3>2, PastIs DEF n
    <3>4. s[p + 1] = <<t[p + 1]>>
      BY <2>2, <3>2, PieceAt DEF s, n
    <3>5. Rest(s, p + 1) = <<t[p + 1]>> \o Rest(s, p + 2)
      BY <1>1, <3>2, <3>4, RestFirst
    <3>6. SubSeq(t, 1, p + 1) = SubSeq(t, 1, p) \o <<t[p + 1]>>
      <4>1. p + 1 \in 1 .. Len(t) /\ 1 \in 1 .. Len(t) /\ p + 1 \in 1 .. p + 1 /\ 1 \in 1 .. p + 1
        BY <3>2 DEF n
      <4>2. SubSeq(t, 1, p + 1) = SubSeq(t, 1, p + 1 - 1) \o <<t[p + 1]>>
        BY <4>1, SubSeqRecursiveSecond
      <4> QED BY <3>2, <4>2
    <3>7. Rest(s, p + 2) \in Seq(Cells)
      <4>1. p + 2 \in 1 .. Len(s) + 1
        BY <1>1, <3>2
      <4> QED BY <1>1, <4>1, RestType
    <3>8. SubSeq(t, 1, p) \in Seq(Cells) /\ <<t[p + 1]>> \in Seq(Cells)
      BY <3>2 DEF n
    <3> DEFINE a == SubSeq(t, 1, p)
               b == <<t[p + 1]>>
               r == Rest(s, p + 2)
    <3>9. (a \o b) \o r = a \o (b \o r)
      <4>1. a \in Seq(Cells) /\ b \in Seq(Cells) /\ r \in Seq(Cells)
        BY <3>7, <3>8
      <4> HIDE DEF a, b, r
      <4> QED BY <4>1, Associative
    <3> QED BY <3>2, <3>3, <3>5, <3>6, <3>9
  <2> QED BY <2>1, <2>2
<1> HIDE DEF Done
<1>5. ASSUME NEW p \in 0 .. n
      PROVE  D[p] = IF p = n THEN t
                    ELSE IF \E e \in E : e.start = p
                         THEN Replace(D[p + 1], CHOOSE e \in E : e.start = p)
                         ELSE D[p + 1]
  <2>1. D[p] = Done(p)
    OBVIOUS
  <2>2. CASE p = n
    BY <1>2, <2>1, <2>2
  <2>3. CASE p # n
    <3>1. p \in 0 .. n - 1 /\ p + 1 \in 0 .. n
      BY <1>1, <2>3
    <3>2. D[p + 1] = Done(p + 1)
      BY <3>1
    <3> HIDE DEF D
    <3>3. CASE \E e \in E : e.start = p
      <4> DEFINE c == CHOOSE e \in E : e.start = p
      <4>1. c \in E /\ c.start = p
        BY <3>3
      <4>2. Done(p) = Replace(Done(p + 1), c)
        BY <1>3, <3>1, <4>1
      <4> QED BY <2>1, <2>3, <3>2, <3>3, <4>2, Zenon
    <3>4. CASE ~ \E e \in E : e.start = p
      <4>1. Done(p) = Done(p + 1)
        BY <1>4, <3>1, <3>4
      <4> QED BY <2>1, <2>3, <3>2, <3>4, <4>1, Zenon
    <3> QED BY <3>3, <3>4
  <2> QED BY <2>2, <2>3
<1>6. D = [p \in 0 .. n |-> D[p]]
  OBVIOUS
<1> HIDE DEF D
<1>7. D = [p \in 0 .. n |-> IF p = n THEN t
                    ELSE IF \E e \in E : e.start = p
                         THEN Replace(D[p + 1], CHOOSE e \in E : e.start = p)
                         ELSE D[p + 1]]
  BY <1>5, <1>6, Zenon
<1>8. Editing(D, t, E)
  BY <1>7, Zenon DEF Editing, n
<1> QED BY <1>8 DEF D, Done, s, n

\* Edits made by their offsets, from the last to the first, make of each cell
\* what they say, wherever widths change.
LEMMA AppliedAreFlat ==
  ASSUME NEW t \in Seq(Cells), NEW E, Sound(E, Len(t))
  PROVE  ApplyEdits(t, E) = FlattenSeq(Pieces(t, E))
<1> DEFINE n == Len(t)
           s == Pieces(t, E)
           D == [p \in 0 .. n |-> SubSeq(t, 1, Past(E, p)) \o Rest(s, Past(E, p) + 1)]
           c == CHOOSE g : g = [p \in 0 .. Len(t) |->
                    IF p = Len(t) THEN t
                    ELSE IF \E e \in E : e.start = p
                         THEN Replace(g[p + 1], CHOOSE e \in E : e.start = p)
                         ELSE g[p + 1]]
<1>1. Editing(D, t, E)
  BY EditsMade
<1>2. n \in Nat /\ s \in Seq(Seq(Cells))
  BY PiecesType
<1>3. D[0] = FlattenSeq(s)
  <2>1. \A e \in E : ~ (e.start < 0 /\ 0 < e.start + e.length)
    BY DEF Sound
  <2>2. Past(E, 0) = 0
    BY <1>2, <2>1, PastIs
  <2>3. D[0] = SubSeq(t, 1, Past(E, 0)) \o Rest(s, Past(E, 0) + 1)
    <3>1. 0 \in 0 .. n
      BY <1>2
    <3> HIDE DEF s, n
    <3> QED BY <3>1, Zenon
  <2> HIDE DEF D, s
  <2>4. SubSeq(t, 1, 0) = <<>> /\ 0 + 1 = 1
    OBVIOUS
  <2>5. Rest(s, 1) = FlattenSeq(s) /\ FlattenSeq(s) \in Seq(Cells)
    BY <1>2, RestAll, FlatType
  <2>6. <<>> \o FlattenSeq(s) = FlattenSeq(s)
    BY <2>5
  <2> QED BY <2>2, <2>3, <2>4, <2>5, <2>6
<1> HIDE DEF D
<1>4. Editing(c, t, E)
  BY <1>1, Zenon DEF Editing
<1>5. ApplyEdits(t, E) = c[0]
  BY Zenon DEF ApplyEdits
<1> HIDE DEF c
<1>6. c[0] = D[0]
  BY <1>1, <1>2, <1>4, EditingAgrees
<1> QED BY <1>3, <1>5, <1>6

\* The text with edits that keep widths written over it.
Overwritten(t, E) ==
    [k \in 1 .. Len(t) |->
        IF \E e \in E : Covers(e, k - 1)
        THEN LET e == CHOOSE e \in E : Covers(e, k - 1) IN e.text[k - e.start]
        ELSE t[k]]

\* What is at a cell of a text that was written over.
LEMMA OverwrittenAt ==
  ASSUME NEW t \in Seq(Cells), NEW E, Sound(E, Len(t)), KeepsWidth(E), NEW k \in 1 .. Len(t)
  PROVE  /\ \A e \in E : Covers(e, k - 1) =>
              Overwritten(t, E)[k] = e.text[k - e.start] /\ e.text[k - e.start] \in Cells
         /\ (\A e \in E : ~ Covers(e, k - 1)) => Overwritten(t, E)[k] = t[k]
<1> DEFINE c == CHOOSE e \in E : Covers(e, k - 1)
<1>1. Overwritten(t, E)[k] = IF \E e \in E : Covers(e, k - 1) THEN c.text[k - c.start] ELSE t[k]
  BY Zenon DEF Overwritten
<1>2. k - 1 \in Nat /\ Len(t) \in Nat
  OBVIOUS
<1>3. ASSUME NEW e \in E, Covers(e, k - 1)
      PROVE  Overwritten(t, E)[k] = e.text[k - e.start] /\ e.text[k - e.start] \in Cells
  <2>1. c \in E /\ Covers(c, k - 1)
    BY <1>3
  <2> HIDE DEF c
  <2>2. c = e
    BY <1>2, <1>3, <2>1, OneCovers
  <2>3. Overwritten(t, E)[k] = e.text[k - e.start]
    BY <1>1, <1>3, <2>2, Zenon
  <2>4. /\ e.text \in Seq(Cells) /\ Len(e.text) = e.length
        /\ e.start \in Nat /\ e.length \in Nat
    BY DEF Sound, KeepsWidth
  <2>5. k - e.start \in 1 .. e.length
    BY <1>2, <1>3, <2>4 DEF Covers
  <2>6. e.text[k - e.start] \in Cells
    BY <2>4, <2>5
  <2> QED BY <2>3, <2>6
<1>4. ASSUME \A e \in E : ~ Covers(e, k - 1) PROVE Overwritten(t, E)[k] = t[k]
  BY <1>1, <1>4, Zenon
<1> QED BY <1>3, <1>4

LEMMA OverwrittenType ==
  ASSUME NEW t \in Seq(Cells), NEW E, Sound(E, Len(t)), KeepsWidth(E)
  PROVE  Overwritten(t, E) \in Seq(Cells) /\ Len(Overwritten(t, E)) = Len(t)
<1> DEFINE n == Len(t)
           u == Overwritten(t, E)
<1>1. n \in Nat /\ u = [k \in 1 .. n |-> u[k]]
  BY DEF Overwritten
<1>2. ASSUME NEW k \in 1 .. n PROVE u[k] \in Cells
  <2>1. t[k] \in Cells
    OBVIOUS
  <2>2. CASE \E e \in E : Covers(e, k - 1)
    <3>1. PICK e \in E : Covers(e, k - 1)
      BY <2>2
    <3>2. u[k] = e.text[k - e.start] /\ e.text[k - e.start] \in Cells
      BY <3>1, OverwrittenAt
    <3> HIDE DEF u
    <3> QED BY <3>2
  <2>3. CASE \A e \in E : ~ Covers(e, k - 1)
    BY <2>1, <2>3, OverwrittenAt
  <2> QED BY <2>2, <2>3
<1> HIDE DEF u, n
<1>3. u \in [1 .. n -> Cells]
  BY <1>1, <1>2
<1>4. u \in Seq(Cells) /\ Len(u) = n
  BY <1>1, <1>3
<1> QED BY <1>4 DEF u, n

\* Edits that keep widths write over a text, cell by cell.
LEMMA AppliedOverwrite ==
  ASSUME NEW t \in Seq(Cells), NEW E, Sound(E, Len(t)), KeepsWidth(E)
  PROVE  ApplyEdits(t, E) = Overwritten(t, E)
<1> DEFINE n == Len(t)
           u == Overwritten(t, E)
           c == [k \in 1 .. Len(u) |-> <<u[k]>>]
           d == Pieces(t, E)
<1>1. n \in Nat /\ u \in Seq(Cells) /\ Len(u) = n
  BY OverwrittenType
<1>2. d \in Seq(Seq(Cells)) /\ Len(d) = n
  BY PiecesType
<1>3. \A k \in 1 .. n :
        /\ \A e \in E : Covers(e, k - 1) =>
             u[k] = e.text[k - e.start] /\ d[k] = IF k = e.start + 1 THEN e.text ELSE <<>>
        /\ (\A e \in E : ~ Covers(e, k - 1)) => u[k] = t[k] /\ d[k] = <<t[k]>>
  BY OverwrittenAt, PieceAt
<1> HIDE DEF u, d, n
<1>4. c \in Seq(Seq(Cells)) /\ Len(c) = n /\ \A k \in 1 .. n : c[k] = <<u[k]>>
  BY <1>1
<1>5. FlattenSeq(c) = u
  BY <1>1, FlatSingles
<1> HIDE DEF c
<1>6. Spreads(c, d, E, n)
  BY <1>2, <1>3, <1>4 DEF Spreads
<1>7. FlattenSeq(c) = FlattenSeq(d)
  BY <1>1, <1>6, SpreadAlike DEF n
<1>8. ApplyEdits(t, E) = FlattenSeq(d)
  BY AppliedAreFlat DEF d
<1> QED BY <1>5, <1>7, <1>8 DEF u

\* The edits of E that no edit of F takes in.
NotIn(E, F) == {e \in E : ~ \E f \in F : Within(e, f)}

\* Edits that keep widths, and others made after them by the same offsets, are
\* as good as all of them made at once.
LEMMA Merged ==
  ASSUME NEW t \in Seq(Cells), NEW E, Sound(E, Len(t)), KeepsWidth(E),
         NEW F, Sound(F, Len(t)),
         \A e \in E : (\E f \in F : Within(e, f)) \/ (\A f \in F : Apart(e, f))
  PROVE  /\ Sound(NotIn(E, F) \cup F, Len(t))
         /\ ApplyEdits(Overwritten(t, E), F) = ApplyEdits(t, NotIn(E, F) \cup F)
<1> DEFINE n == Len(t)
           L == NotIn(E, F)
           u == Overwritten(t, E)
           c == Pieces(u, F)
           d == Pieces(t, L \cup F)
<1>1. n \in Nat /\ u \in Seq(Cells) /\ Len(u) = n
  BY OverwrittenType
<1>2. L \subseteq E /\ \A e \in L : \A f \in F : Apart(e, f)
  BY Zenon DEF NotIn
<1>3. \A e, f : Apart(e, f) <=> Apart(f, e)
  BY Zenon DEF Apart
<1>4. Sound(L, n) /\ KeepsWidth(L)
  BY <1>2 DEF Sound, KeepsWidth
<1>5. Sound(L \cup F, n)
  <2> HIDE DEF L, n
  <2>1. ASSUME NEW e \in L \cup F
        PROVE  /\ e \in [start : Nat, length : Nat, text : Seq(Cells)]
               /\ e.length > 0 /\ e.start + e.length <= n
    BY <1>4 DEF Sound, n
  <2>2. ASSUME NEW e \in L \cup F, NEW f \in L \cup F, e # f PROVE Apart(e, f)
    <3>1. CASE e \in L /\ f \in L
      BY <1>4, <2>2, <3>1, Zenon DEF Sound
    <3>2. CASE e \in F /\ f \in F
      BY <2>2, <3>2, Zenon DEF Sound
    <3> QED BY <1>2, <1>3, <3>1, <3>2, Zenon
  <2> QED BY <2>1, <2>2 DEF Sound
<1>6. \A k \in 1 .. n : \A e \in E : \A f \in F : Covers(e, k - 1) /\ Within(e, f) => Covers(f, k - 1)
  <2> SUFFICES ASSUME NEW k \in 1 .. n, NEW e \in E, NEW f \in F,
                      Covers(e, k - 1), Within(e, f)
               PROVE  Covers(f, k - 1)
    OBVIOUS
  <2>1. /\ e.start \in Nat /\ e.length \in Nat /\ f.start \in Nat /\ f.length \in Nat
        /\ k - 1 \in Nat
    BY DEF Sound
  <2> QED BY <2>1 DEF Covers, Within
<1>7. \A k \in 1 .. n : \A e \in L : Covers(e, k - 1) => \A f \in F : ~ Covers(f, k - 1)
  <2> SUFFICES ASSUME NEW k \in 1 .. n, NEW e \in L, NEW f \in F,
                      Covers(e, k - 1), Covers(f, k - 1)
               PROVE  FALSE
    OBVIOUS
  <2>1. /\ e.start \in Nat /\ e.length \in Nat /\ f.start \in Nat /\ f.length \in Nat
        /\ k - 1 \in Nat
    BY <1>4 DEF Sound
  <2>2. Apart(e, f)
    BY <1>2
  <2> QED BY <2>1, <2>2 DEF Covers, Apart
<1>8. /\ c \in Seq(Seq(Cells)) /\ Len(c) = n
      /\ d \in Seq(Seq(Cells)) /\ Len(d) = n
  <2> HIDE DEF u, L
  <2>1. Sound(F, Len(u))
    BY <1>1
  <2> QED BY <1>1, <1>5, <2>1, PiecesType
<1> HIDE DEF u, L, n
<1>9. ASSUME NEW k \in 1 .. n
      PROVE  /\ \A f \in F : Covers(f, k - 1) =>
                  /\ c[k] = IF k = f.start + 1 THEN f.text ELSE <<>>
                  /\ d[k] = IF k = f.start + 1 THEN f.text ELSE <<>>
             /\ \A e \in L : Covers(e, k - 1) => d[k] = IF k = e.start + 1 THEN e.text ELSE <<>>
             /\ (\A f \in F : ~ Covers(f, k - 1)) => c[k] = <<u[k]>>
             /\ (\A f \in L \cup F : ~ Covers(f, k - 1)) => d[k] = <<t[k]>>
  <2>1. Sound(F, Len(u)) /\ Sound(L \cup F, Len(t)) /\ k \in 1 .. Len(t) /\ k \in 1 .. Len(u)
    BY <1>1, <1>5 DEF n
  <2>2. /\ \A f \in F : Covers(f, k - 1) => c[k] = IF k = f.start + 1 THEN f.text ELSE <<>>
        /\ (\A f \in F : ~ Covers(f, k - 1)) => c[k] = <<u[k]>>
    BY <1>1, <2>1, PieceAt
  <2>3. /\ \A f \in L \cup F : Covers(f, k - 1) => d[k] = IF k = f.start + 1 THEN f.text ELSE <<>>
        /\ (\A f \in L \cup F : ~ Covers(f, k - 1)) => d[k] = <<t[k]>>
    BY <2>1, PieceAt
  <2> HIDE DEF c, d
  <2> QED BY <2>2, <2>3
<1> HIDE DEF c, d
<1>10. ASSUME NEW e \in L, NEW k \in 1 .. n, Covers(e, k - 1)
       PROVE  /\ c[k] = <<e.text[k - e.start]>>
              /\ d[k] = IF k = e.start + 1 THEN e.text ELSE <<>>
  <2>1. c[k] = <<u[k]>>
    BY <1>7, <1>9, <1>10
  <2>2. e \in E /\ k \in 1 .. Len(t)
    BY <1>2 DEF n
  <2>3. u[k] = e.text[k - e.start]
    BY <1>10, <2>2, OverwrittenAt DEF u
  <2>4. d[k] = IF k = e.start + 1 THEN e.text ELSE <<>>
    BY <1>9, <1>10
  <2> QED BY <2>1, <2>3, <2>4
<1>11. ASSUME NEW k \in 1 .. n, \A e \in L : ~ Covers(e, k - 1)
       PROVE  c[k] = d[k]
  <2>1. CASE \E f \in F : Covers(f, k - 1)
    <3>1. PICK f \in F : Covers(f, k - 1)
      BY <2>1
    <3> QED BY <1>9, <3>1
  <2>2. CASE \A f \in F : ~ Covers(f, k - 1)
    <3>1. c[k] = <<u[k]>> /\ d[k] = <<t[k]>>
      BY <1>9, <1>11, <2>2
    <3>2. \A e \in E : ~ Covers(e, k - 1)
      <4> SUFFICES ASSUME NEW e \in E, Covers(e, k - 1) PROVE FALSE
        OBVIOUS
      <4>1. CASE \E f \in F : Within(e, f)
        BY <1>6, <2>2, <4>1
      <4>2. CASE ~ \E f \in F : Within(e, f)
        <5>1. e \in L
          BY <4>2 DEF L, NotIn
        <5> QED BY <1>11, <5>1
      <4> QED BY <4>1, <4>2
    <3>3. u[k] = t[k]
      BY <3>2, OverwrittenAt DEF u, n
    <3> QED BY <3>1, <3>3
  <2> QED BY <2>1, <2>2
<1>12. Spreads(c, d, L, n)
  BY <1>8, <1>10, <1>11 DEF Spreads
<1>13. FlattenSeq(c) = FlattenSeq(d)
  BY <1>1, <1>4, <1>12, SpreadAlike
<1>14. ApplyEdits(u, F) = FlattenSeq(c)
  <2>1. Sound(F, Len(u))
    BY <1>1 DEF n
  <2> QED BY <1>1, <2>1, AppliedAreFlat DEF c
<1>15. ApplyEdits(t, L \cup F) = FlattenSeq(d)
  BY <1>5, AppliedAreFlat DEF d, n
<1> QED BY <1>5, <1>13, <1>14, <1>15 DEF u, L, n

\* What is appended to a text does not matter to the edits of it.
LEMMA Lengthened ==
  ASSUME NEW t \in Seq(Cells), NEW E, Sound(E, Len(t)), NEW x \in Cells
  PROVE  ApplyEdits(t \o <<x>>, E) = ApplyEdits(t, E) \o <<x>>
<1> DEFINE n == Len(t)
           u == t \o <<x>>
           s == Pieces(t, E)
           v == Pieces(u, E)
           w == Append(s, <<x>>)
<1>1. /\ u \in Seq(Cells) /\ Len(u) = n + 1 /\ n \in Nat /\ u[n + 1] = x
      /\ \A k \in 1 .. n : u[k] = t[k]
      /\ <<x>> \in Seq(Cells)
  OBVIOUS
<1>2. s \in Seq(Seq(Cells)) /\ Len(s) = n
  BY PiecesType
<1> HIDE DEF u, n
<1>3. Sound(E, Len(u))
  BY <1>1 DEF Sound, n
<1>4. v \in Seq(Seq(Cells)) /\ Len(v) = n + 1
  BY <1>1, <1>3, PiecesType
<1> HIDE DEF s
<1>5. w \in Seq(Seq(Cells)) /\ Len(w) = n + 1 /\ w[n + 1] = <<x>> /\ \A k \in 1 .. n : w[k] = s[k]
  BY <1>1, <1>2, AppendProperties
<1> HIDE DEF w, v
<1>6. ASSUME NEW k \in 1 .. n PROVE v[k] = w[k]
  <2>1. k \in 1 .. Len(t) /\ k \in 1 .. Len(u) /\ u \in Seq(Cells) /\ Sound(E, Len(u))
    BY <1>1, <1>3 DEF n
  <2>2. CASE \E e \in E : Covers(e, k - 1)
    <3>1. PICK e \in E : Covers(e, k - 1)
      BY <2>2
    <3>2. v[k] = IF k = e.start + 1 THEN e.text ELSE <<>>
      BY <2>1, <3>1, PieceAt DEF v
    <3>3. s[k] = IF k = e.start + 1 THEN e.text ELSE <<>>
      BY <2>1, <3>1, PieceAt DEF s
    <3> QED BY <1>5, <3>2, <3>3
  <2>3. CASE \A e \in E : ~ Covers(e, k - 1)
    <3>1. v[k] = <<u[k]>>
      BY <2>1, <2>3, PieceAt DEF v
    <3>2. s[k] = <<t[k]>>
      BY <2>1, <2>3, PieceAt DEF s
    <3> QED BY <1>1, <1>5, <3>1, <3>2
  <2> QED BY <2>2, <2>3
<1>7. v[n + 1] = w[n + 1]
  <2>1. \A e \in E : ~ Covers(e, n + 1 - 1)
    <3> SUFFICES ASSUME NEW e \in E, Covers(e, n) PROVE FALSE
      BY <1>1
    <3> QED BY <1>1 DEF Covers, Sound, n
  <2>2. n + 1 \in 1 .. Len(u)
    BY <1>1
  <2>3. v[n + 1] = <<u[n + 1]>>
    BY <1>1, <1>3, <2>1, <2>2, PieceAt DEF v
  <2> QED BY <1>1, <1>5, <2>3
<1>8. v = w
  <2>1. \A k \in 1 .. n + 1 : k \in 1 .. n \/ k = n + 1
    BY <1>1
  <2>2. \A k \in 1 .. Len(v) : v[k] = w[k]
    BY <1>4, <1>6, <1>7, <2>1
  <2> QED BY <1>4, <1>5, <2>2, SeqEqual
<1>9. FlattenSeq(v) = FlattenSeq(s) \o <<x>>
  BY <1>1, <1>2, <1>8, FlatOneMore DEF w
<1>10. ApplyEdits(u, E) = FlattenSeq(v) /\ ApplyEdits(t, E) = FlattenSeq(s)
  BY <1>1, <1>3, AppliedAreFlat DEF v, s
<1> QED BY <1>9, <1>10 DEF u

-----------------------------------------------------------------------------
(* The edits of a layout *)

\* The edits of the passes: names, with those written in place and those that
\* wait, then calls with the address types outside them, then words pure.
NameEdits == {NameEdit(n) : n \in layout.names}
Aliased == {e \in NameEdits : SameWidth(e)}
Waiting == {e \in NameEdits : ~ SameWidth(e)}

\* What a replaced expression becomes, before it is filled up.
Calling(e) == <<HelperName>> \o FlattenSeq([i \in DOMAIN e.operands |-> RenamedText(e.operands[i])])

CallEdits == {[start |-> e.start, length |-> e.length, text |-> RenderedCall(e)] :
                e \in layout.expressions}
Replacing == CallEdits \cup AddressEdits
PureEdits == {[start |-> w, length |-> 1, text |-> <<View>>] :
                w \in {v \in layout.pures : layout.pureCall}}

\* No call was refused as too wide.
Fitting == \A e \in layout.expressions : Len(Calling(e)) <= e.length

\* What Layout says of the edits of names.
LEMMA NamesAre ==
  ASSUME layout \in Layouts
  PROVE  /\ layout.size \in Nat
         /\ \A n \in layout.names :
              /\ n.start \in Nat /\ n.length \in Nat /\ n.length > 0
              /\ n.start + n.length <= layout.size
              /\ n.alias \in Seq(Cells) /\ Len(n.alias) >= n.length
         /\ \A n, m \in layout.names : m # n => Apart(n, m)
<1>1. Layout(layout)
  BY LayoutAssumption
<1>2. layout.size \in Nat
  BY <1>1 DEF Layout
<1>3. ASSUME NEW n \in layout.names
      PROVE  /\ n.start \in Nat /\ n.length \in Nat /\ n.length > 0
             /\ n.start + n.length <= layout.size
             /\ n.alias \in Seq(Cells) /\ Len(n.alias) >= n.length
  <2>1. /\ n \in [start : Nat, length : Nat, alias : Seq(Cells)]
        /\ [start |-> n.start, length |-> n.length] \in Ranges(layout.size)
        /\ Len(n.alias) >= n.length
    BY <1>1 DEF Layout
  <2>2. n.length \in 1 .. layout.size /\ n.start + n.length <= layout.size
    BY <2>1 DEF Ranges
  <2> QED BY <1>2, <2>1, <2>2
<1>4. \A n, m \in layout.names : m # n => Apart(n, m)
  BY <1>1, Zenon DEF Layout
<1> QED BY <1>2, <1>3, <1>4

\* What Layout says of replaced expressions.
LEMMA ExpressionsAre ==
  ASSUME layout \in Layouts
  PROVE  /\ \A e \in layout.expressions :
              /\ e.start \in Nat /\ e.length \in Nat /\ e.length > 0
              /\ e.start + e.length <= layout.size
              /\ e.operands \in Seq(Ranges(layout.size))
              /\ \A i \in DOMAIN e.operands : Within(e.operands[i], e)
              /\ \A i, j \in DOMAIN e.operands :
                   i < j => e.operands[i].start + e.operands[i].length <= e.operands[j].start
              /\ \A n \in layout.names :
                   Apart(n, e) \/ \E i \in DOMAIN e.operands : Within(n, e.operands[i])
         /\ \A e, f \in layout.expressions : e # f => Apart(e, f)
<1>1. Layout(layout)
  BY LayoutAssumption
<1>2. layout.size \in Nat
  BY <1>1 DEF Layout
<1>3. ASSUME NEW e \in layout.expressions
      PROVE  /\ e.start \in Nat /\ e.length \in Nat /\ e.length > 0
             /\ e.start + e.length <= layout.size
             /\ e.operands \in Seq(Ranges(layout.size))
  <2>1. /\ e \in [start : Nat, length : Nat, operands : Seq(Ranges(layout.size))]
        /\ [start |-> e.start, length |-> e.length] \in Ranges(layout.size)
    BY <1>1, Zenon DEF Layout
  <2>2. e.length \in 1 .. layout.size /\ e.start + e.length <= layout.size
    BY <2>1 DEF Ranges
  <2> QED BY <1>2, <2>1, <2>2
<1>4. ASSUME NEW e \in layout.expressions
      PROVE  /\ \A i \in DOMAIN e.operands : Within(e.operands[i], e)
             /\ \A i, j \in DOMAIN e.operands :
                   i < j => e.operands[i].start + e.operands[i].length <= e.operands[j].start
             /\ \A n \in layout.names :
                   Apart(n, e) \/ \E i \in DOMAIN e.operands : Within(n, e.operands[i])
             /\ \A f \in layout.expressions : e # f => Apart(e, f)
  BY <1>1, Zenon DEF Layout
<1> QED BY <1>3, <1>4, Zenon

\* What Layout says of the words address and pure.
LEMMA WordsAre ==
  ASSUME layout \in Layouts
  PROVE  /\ \A w \in layout.addresses \cup layout.pures : w \in Nat /\ w < layout.size
         /\ \A w \in layout.addresses : w \notin layout.pures
         /\ \A w \in layout.addresses \cup layout.pures : \A n \in layout.names :
              Apart([start |-> w, length |-> 1], n)
         /\ \A w \in layout.pures : \A e \in layout.expressions :
              Apart([start |-> w, length |-> 1], e)
<1>1. Layout(layout)
  BY LayoutAssumption
<1>2. /\ layout.size \in Nat
      /\ layout.addresses \subseteq 0 .. layout.size - 1
      /\ layout.pures \subseteq 0 .. layout.size - 1
  BY <1>1 DEF Layout
<1>3. \A w \in layout.addresses \cup layout.pures : w \in Nat /\ w < layout.size
  BY <1>2
<1>4. layout.addresses \cap layout.pures = {}
  BY <1>1 DEF Layout
<1>5. /\ \A w \in layout.addresses \cup layout.pures : \A n \in layout.names :
              Apart([start |-> w, length |-> 1], n)
      /\ \A w \in layout.pures : \A e \in layout.expressions :
              Apart([start |-> w, length |-> 1], e)
  BY <1>1, Zenon DEF Layout
<1> QED BY <1>3, <1>4, <1>5

\* Only where things start and how long they are matters to these.
LEMMA OnlyPlaces ==
  /\ \A e, f, x : f.start = e.start /\ f.length = e.length =>
       /\ Apart(e, x) <=> Apart(f, x)
       /\ Apart(x, e) <=> Apart(x, f)
       /\ Within(e, x) <=> Within(f, x)
       /\ Within(x, e) <=> Within(x, f)
       /\ \A i : Covers(e, i) <=> Covers(f, i)
  /\ \A e, f : Apart(e, f) <=> Apart(f, e)
<1>1. ASSUME NEW e, NEW f, NEW x, f.start = e.start, f.length = e.length
      PROVE  /\ Apart(e, x) <=> Apart(f, x)
             /\ Apart(x, e) <=> Apart(x, f)
             /\ Within(e, x) <=> Within(f, x)
             /\ Within(x, e) <=> Within(x, f)
             /\ \A i : Covers(e, i) <=> Covers(f, i)
  <2>1. Apart(e, x) <=> Apart(f, x)
    BY <1>1, SMT DEF Apart
  <2>2. Apart(x, e) <=> Apart(x, f)
    BY <1>1, SMT DEF Apart
  <2>3. Within(e, x) <=> Within(f, x)
    BY <1>1, SMT DEF Within
  <2>4. Within(x, e) <=> Within(x, f)
    BY <1>1, SMT DEF Within
  <2>5. \A i : Covers(e, i) <=> Covers(f, i)
    BY <1>1, SMT DEF Covers
  <2> QED BY <2>1, <2>2, <2>3, <2>4, <2>5
<1>2. \A e, f : Apart(e, f) <=> Apart(f, e)
  BY Zenon DEF Apart
<1> QED BY <1>1, <1>2, Zenon

LEMMA ThisCell ==
  \A e : \A i \in Nat : e.start \in Nat /\ e.length \in Nat =>
    (Within([start |-> i, length |-> 1], e) <=> Covers(e, i))
BY DEF Within, Covers

LEMMA NamesSound ==
  ASSUME layout \in Layouts
  PROVE  /\ Sound(NameEdits, layout.size) /\ Sound(Aliased, layout.size)
         /\ Sound(Waiting, layout.size)
         /\ KeepsWidth(Aliased)
         /\ NameEdits = Aliased \cup Waiting
         /\ \A e \in Waiting : Len(e.text) > e.length
<1>1. \A e \in NameEdits : \E n \in layout.names :
         e = NameEdit(n) /\ e.start = n.start /\ e.length = n.length /\ e.text = n.alias
  BY DEF NameEdits, NameEdit
<1>2. ASSUME NEW e \in NameEdits
      PROVE  /\ e \in [start : Nat, length : Nat, text : Seq(Cells)]
             /\ e.length > 0 /\ e.start + e.length <= layout.size /\ Len(e.text) >= e.length
  <2>1. PICK n \in layout.names : /\ e = NameEdit(n)
                                  /\ e.start = n.start
                                  /\ e.length = n.length
                                  /\ e.text = n.alias
    BY <1>1
  <2>2. /\ n.start \in Nat /\ n.length \in Nat /\ n.length > 0
        /\ n.start + n.length <= layout.size
        /\ n.alias \in Seq(Cells) /\ Len(n.alias) >= n.length
    BY NamesAre
  <2>3. e \in [start : Nat, length : Nat, text : Seq(Cells)]
    BY <2>1, <2>2 DEF NameEdit
  <2> QED BY <2>1, <2>2, <2>3
<1>3. ASSUME NEW e \in NameEdits, NEW f \in NameEdits, e # f PROVE Apart(e, f)
  <2>1. PICK n \in layout.names : e = NameEdit(n) /\ e.start = n.start /\ e.length = n.length
    BY <1>1
  <2>2. PICK m \in layout.names : f = NameEdit(m) /\ f.start = m.start /\ f.length = m.length
    BY <1>1
  <2>3. Apart(n, m)
    BY <1>3, <2>1, <2>2, NamesAre
  <2> QED BY <2>1, <2>2, <2>3, OnlyPlaces
<1>4. Sound(NameEdits, layout.size)
  BY <1>2, <1>3, Zenon DEF Sound
<1>5. Aliased \subseteq NameEdits /\ Waiting \subseteq NameEdits /\ NameEdits = Aliased \cup Waiting
  BY DEF Aliased, Waiting
<1>6. \A e \in NameEdits : Len(e.text) \in Nat /\ e.length \in Nat
  BY <1>2
<1>7. KeepsWidth(Aliased)
  BY <1>6 DEF KeepsWidth, Aliased, SameWidth, Growth
<1>8. \A e \in Waiting : Len(e.text) > e.length
  BY <1>2, <1>6 DEF Waiting, SameWidth, Growth
<1>9. Sound(Aliased, layout.size) /\ Sound(Waiting, layout.size)
  BY <1>4, <1>5, Zenon DEF Sound
<1> QED BY <1>4, <1>5, <1>7, <1>8, <1>9

LEMMA CellsAre ==
  /\ \A i \in Nat : <<"source", i>> \in Cells
  /\ HelperName \in Cells /\ Blank \in Cells /\ Uint256 \in Cells /\ View \in Cells
  /\ AppendedDeclarations \in Cells
BY DEF Cells, Kinds, HelperName, Blank, Uint256, View, AppendedDeclarations

LEMMA OriginalIs ==
  ASSUME layout \in Layouts
  PROVE  /\ Original(layout) \in Seq(Cells) /\ Len(Original(layout)) = layout.size
         /\ layout.size \in Nat
         /\ \A k \in 1 .. layout.size : Original(layout)[k] = <<"source", k - 1>>
<1>1. layout.size \in Nat
  BY NamesAre
<1>2. \A k \in 1 .. layout.size : <<"source", k - 1>> \in Cells
  BY <1>1, CellsAre
<1>3. Original(layout) \in [1 .. layout.size -> Cells]
  BY <1>1, <1>2 DEF Original
<1>4. Original(layout) \in Seq(Cells) /\ Len(Original(layout)) = layout.size
  BY <1>1, <1>3
<1> QED BY <1>1, <1>4 DEF Original

\* A cell is renamed by the one name that covers it.
LEMMA RenamedCellIs ==
  ASSUME layout \in Layouts, NEW i \in Nat
  PROVE  /\ \A e \in NameEdits : Covers(e, i) =>
              RenamedCell(i) = IF i = e.start THEN e.text ELSE <<>>
         /\ (\A e \in NameEdits : ~ Covers(e, i)) => RenamedCell(i) = <<<<"source", i>>>>
         /\ RenamedCell(i) \in Seq(Cells)
<1> DEFINE c == CHOOSE n \in layout.names : n.start = i
<1>1. RenamedCell(i) = IF \E n \in layout.names : n.start = i THEN c.alias
                       ELSE IF \E n \in layout.names : Within([start |-> i, length |-> 1], n)
                       THEN <<>> ELSE <<<<"source", i>>>>
  BY Zenon DEF RenamedCell
<1>2. \A n \in layout.names :
        /\ n.start \in Nat /\ n.length \in Nat /\ n.length > 0
        /\ n.alias \in Seq(Cells)
  BY NamesAre
<1>3. \A n \in layout.names : Within([start |-> i, length |-> 1], n) <=> Covers(n, i)
  BY <1>2, ThisCell
<1>4. \A n \in layout.names : n.start = i => Covers(n, i)
  BY <1>2 DEF Covers
<1>5. \A n, m \in layout.names : Covers(n, i) /\ Covers(m, i) => n = m
  <2> SUFFICES ASSUME NEW n \in layout.names, NEW m \in layout.names,
                      Covers(n, i), Covers(m, i)
               PROVE  n = m
    OBVIOUS
  <2>1. ~ Apart(m, n)
    BY <1>2 DEF Apart, Covers
  <2> QED BY <2>1, NamesAre
<1>6. \A n \in layout.names : n.start = i => c = n
  <2> SUFFICES ASSUME NEW n \in layout.names, n.start = i PROVE c = n
    OBVIOUS
  <2>1. c \in layout.names /\ c.start = i
    OBVIOUS
  <2> HIDE DEF c
  <2> QED BY <1>4, <1>5, <2>1
<1> HIDE DEF c
<1>7. ASSUME NEW n \in layout.names, Covers(n, i)
      PROVE  RenamedCell(i) = IF i = n.start THEN n.alias ELSE <<>>
  <2>1. CASE i = n.start
    <3>1. RenamedCell(i) = c.alias
      BY <1>1, <2>1, Zenon
    <3> QED BY <1>6, <2>1, <3>1
  <2>2. CASE i # n.start
    <3>1. ~ \E m \in layout.names : m.start = i
      BY <1>4, <1>5, <1>7, <2>2
    <3>2. \E m \in layout.names : Within([start |-> i, length |-> 1], m)
      BY <1>3, <1>7
    <3>3. RenamedCell(i) = <<>>
      BY <1>1, <3>1, <3>2, Zenon
    <3> QED BY <2>2, <3>3
  <2> QED BY <2>1, <2>2
<1>8. ASSUME \A n \in layout.names : ~ Covers(n, i)
      PROVE  RenamedCell(i) = <<<<"source", i>>>>
  <2>1. ~ \E m \in layout.names : m.start = i
    BY <1>4, <1>8
  <2>2. ~ \E m \in layout.names : Within([start |-> i, length |-> 1], m)
    BY <1>3, <1>8
  <2> QED BY <1>1, <2>1, <2>2, Zenon
<1>9. ASSUME NEW e \in NameEdits, Covers(e, i)
      PROVE  RenamedCell(i) = IF i = e.start THEN e.text ELSE <<>>
  <2>1. PICK n \in layout.names : e.start = n.start /\ e.length = n.length /\ e.text = n.alias
    BY DEF NameEdits, NameEdit
  <2>2. Covers(n, i)
    BY <1>9, <2>1, OnlyPlaces
  <2> QED BY <1>7, <2>1, <2>2
<1>10. ASSUME \A e \in NameEdits : ~ Covers(e, i) PROVE \A n \in layout.names : ~ Covers(n, i)
  <2> SUFFICES ASSUME NEW n \in layout.names PROVE ~ Covers(n, i)
    OBVIOUS
  <2>1. NameEdit(n) \in NameEdits /\ NameEdit(n).start = n.start /\ NameEdit(n).length = n.length
    BY DEF NameEdits, NameEdit
  <2> QED BY <1>10, <2>1, OnlyPlaces
<1>11. RenamedCell(i) \in Seq(Cells)
  <2>1. CASE \E n \in layout.names : Covers(n, i)
    <3>1. PICK n \in layout.names : Covers(n, i)
      BY <2>1
    <3>2. RenamedCell(i) = IF i = n.start THEN n.alias ELSE <<>>
      BY <1>7, <3>1
    <3>3. n.alias \in Seq(Cells) /\ <<>> \in Seq(Cells)
      BY <1>2
    <3> QED BY <3>2, <3>3, Zenon
  <2>2. CASE \A n \in layout.names : ~ Covers(n, i)
    <3>1. <<"source", i>> \in Cells
      BY CellsAre
    <3> QED BY <1>8, <2>2, <3>1
  <2> QED BY <2>1, <2>2
<1> QED BY <1>8, <1>9, <1>10, <1>11

RenamedCells(r) == [k \in 1 .. r.length |-> RenamedCell(r.start + k - 1)]

LEMMA RenamedType ==
  ASSUME layout \in Layouts, NEW r, r.start \in Nat, r.length \in Nat
  PROVE  /\ RenamedCells(r) \in Seq(Seq(Cells)) /\ Len(RenamedCells(r)) = r.length
         /\ RenamedText(r) = FlattenSeq(RenamedCells(r)) /\ RenamedText(r) \in Seq(Cells)
<1> DEFINE c == RenamedCells(r)
<1>1. ASSUME NEW k \in 1 .. r.length PROVE RenamedCell(r.start + k - 1) \in Seq(Cells)
  <2>1. r.start + k - 1 \in Nat
    OBVIOUS
  <2> QED BY <2>1, RenamedCellIs
<1>2. c \in [1 .. r.length -> Seq(Cells)]
  BY <1>1 DEF RenamedCells
<1> HIDE DEF c
<1>3. c \in Seq(Seq(Cells)) /\ Len(c) = r.length
  BY <1>2
<1>4. RenamedText(r) = FlattenSeq(c)
  BY DEF RenamedText, RenamedCells, c
<1> QED BY <1>3, <1>4, FlatType DEF c

\* The edits inside a range, by their offsets in it.
AtRange(E, r) == {[e EXCEPT !.start = @ - r.start] : e \in {f \in E : Within(f, r)}}

\* The names inside an operand are sound edits of its text.
LEMMA AtRangeIs ==
  ASSUME NEW E, NEW n \in Nat, Sound(E, n), NEW r, r.start \in Nat, r.length \in Nat,
         \A e \in E : Apart(e, r) \/ Within(e, r)
  PROVE  /\ Sound(AtRange(E, r), r.length)
         /\ KeepsWidth(E) => KeepsWidth(AtRange(E, r))
         /\ \A f \in AtRange(E, r) : \E e \in E :
              /\ f.start = e.start - r.start /\ f.text = e.text
              /\ f.start \in Nat /\ e.start \in Nat
              /\ \A k \in 1 .. r.length : Covers(f, k - 1) <=> Covers(e, r.start + k - 1)
         /\ \A e \in E : \A k \in 1 .. r.length : Covers(e, r.start + k - 1) =>
              \E f \in AtRange(E, r) : f.start = e.start - r.start /\ f.text = e.text /\ Covers(f, k - 1)
<1> DEFINE Moved(e) == [e EXCEPT !.start = @ - r.start]
           A == AtRange(E, r)
<1>1. \A f \in A : \E e \in E : Within(e, r) /\ f = Moved(e)
  BY Zenon DEF AtRange
<1>2. \A e \in E : Within(e, r) => Moved(e) \in A
  BY Zenon DEF AtRange
<1> HIDE DEF A
<1>3. \A e \in E :
        /\ e \in [start : Nat, length : Nat, text : Seq(Cells)]
        /\ e.length > 0 /\ e.start + e.length <= n
  BY DEF Sound
<1>4. ASSUME NEW e \in E, Within(e, r)
      PROVE  /\ Moved(e) \in [start : Nat, length : Nat, text : Seq(Cells)]
             /\ Moved(e).start = e.start - r.start /\ Moved(e).length = e.length
             /\ Moved(e).text = e.text
             /\ Moved(e).length > 0 /\ Moved(e).start + Moved(e).length <= r.length
             /\ \A k \in 1 .. r.length : Covers(Moved(e), k - 1) <=> Covers(e, r.start + k - 1)
  <2>1. /\ e.start \in Nat /\ e.length \in Nat /\ e.start >= r.start
        /\ e.start + e.length <= r.start + r.length
        /\ e.start - r.start \in Nat
    BY <1>3, <1>4 DEF Within
  <2>2. /\ Moved(e).start = e.start - r.start /\ Moved(e).length = e.length
        /\ Moved(e).text = e.text
    BY <1>3
  <2>3. Moved(e) \in [start : Nat, length : Nat, text : Seq(Cells)]
    BY <1>3, <2>1
  <2> HIDE DEF Moved
  <2>4. Moved(e).length > 0 /\ Moved(e).start + Moved(e).length <= r.length
    BY <1>3, <2>1, <2>2
  <2>5. \A k \in 1 .. r.length : Covers(Moved(e), k - 1) <=> Covers(e, r.start + k - 1)
    BY <2>1, <2>2 DEF Covers
  <2> QED BY <2>2, <2>3, <2>4, <2>5
<1> HIDE DEF Moved
<1>5. Sound(A, r.length)
  <2>1. ASSUME NEW f \in A
        PROVE  /\ f \in [start : Nat, length : Nat, text : Seq(Cells)]
               /\ f.length > 0 /\ f.start + f.length <= r.length
    BY <1>1, <1>4
  <2>2. ASSUME NEW f \in A, NEW g \in A, f # g PROVE Apart(f, g)
    <3>1. PICK e \in E : Within(e, r) /\ f = Moved(e)
      BY <1>1
    <3>2. PICK d \in E : Within(d, r) /\ g = Moved(d)
      BY <1>1
    <3>3. Apart(e, d)
      BY <2>2, <3>1, <3>2 DEF Sound
    <3>4. /\ f.start = e.start - r.start /\ f.length = e.length
          /\ e.start \in Nat /\ e.length \in Nat
          /\ g.start = d.start - r.start /\ g.length = d.length
          /\ d.start \in Nat /\ d.length \in Nat
      BY <1>3, <1>4, <3>1, <3>2
    <3> QED BY <3>3, <3>4 DEF Apart
  <2> QED BY <2>1, <2>2, Zenon DEF Sound
<1>6. ASSUME KeepsWidth(E) PROVE KeepsWidth(A)
  <2> SUFFICES ASSUME NEW f \in A PROVE Len(f.text) = f.length
    BY DEF KeepsWidth
  <2>1. PICK e \in E : Within(e, r) /\ f = Moved(e)
    BY <1>1
  <2>2. f.text = e.text /\ f.length = e.length
    BY <1>4, <2>1
  <2> QED BY <1>6, <2>2 DEF KeepsWidth
<1>7. ASSUME NEW f \in A
      PROVE  \E e \in E :
              /\ f.start = e.start - r.start /\ f.text = e.text
              /\ f.start \in Nat /\ e.start \in Nat
              /\ \A k \in 1 .. r.length : Covers(f, k - 1) <=> Covers(e, r.start + k - 1)
  <2>1. PICK e \in E : Within(e, r) /\ f = Moved(e)
    BY <1>1
  <2>2. e.start \in Nat /\ f.start \in Nat
    BY <1>3, <1>4, <2>1
  <2> QED BY <1>4, <2>1, <2>2
<1>8. ASSUME NEW e \in E, NEW k \in 1 .. r.length, Covers(e, r.start + k - 1)
      PROVE  \E f \in A : f.start = e.start - r.start /\ f.text = e.text /\ Covers(f, k - 1)
  <2>1. ~ Apart(e, r)
    <3>1. e.start \in Nat /\ e.length \in Nat
      BY <1>3
    <3> QED BY <1>8, <3>1 DEF Apart, Covers
  <2>2. Within(e, r)
    BY <2>1
  <2> QED BY <1>2, <1>4, <1>8, <2>2
<1> QED BY <1>5, <1>6, <1>7, <1>8 DEF A

\* A pass that reads an operand finds it as renaming leaves it, whether its
\* names were written in place or still wait.
LEMMA ReadRenames ==
  ASSUME layout \in Layouts, NEW r \in Ranges(layout.size),
         \A n \in layout.names : Apart(n, r) \/ Within(n, r)
  PROVE  Read(Overwritten(Original(layout), Aliased), Waiting, r) = RenamedText(r)
<1> DEFINE O == Original(layout)
           t == Overwritten(O, Aliased)
           u == SubSeq(t, r.start + 1, r.start + r.length)
           E == AtRange(Aliased, r)
           F == AtRange(Waiting, r)
           c == Pieces(u, F)
           d == RenamedCells(r)
           n == layout.size
<1>1. /\ n \in Nat /\ r.start \in Nat /\ r.length \in Nat /\ r.start + r.length <= n
  BY NamesAre DEF Ranges
<1>2. O \in Seq(Cells) /\ Len(O) = n /\ \A k \in 1 .. n : O[k] = <<"source", k - 1>>
  BY OriginalIs
<1>3. /\ Sound(NameEdits, n) /\ Sound(Aliased, n) /\ Sound(Waiting, n) /\ KeepsWidth(Aliased)
      /\ NameEdits = Aliased \cup Waiting
  BY NamesSound
<1>4. \A e \in NameEdits : Apart(e, r) \/ Within(e, r)
  <2> SUFFICES ASSUME NEW e \in NameEdits PROVE Apart(e, r) \/ Within(e, r)
    OBVIOUS
  <2>1. PICK m \in layout.names : e.start = m.start /\ e.length = m.length
    BY DEF NameEdits, NameEdit
  <2>2. Apart(m, r) \/ Within(m, r)
    OBVIOUS
  <2> QED BY <2>1, <2>2, OnlyPlaces
<1> HIDE DEF O
<1>5. t \in Seq(Cells) /\ Len(t) = n
  <2>1. Sound(Aliased, Len(O))
    BY <1>2, <1>3
  <2> QED BY <1>2, <1>3, <2>1, OverwrittenType
<1>6. /\ \A e \in Aliased : \A k \in 1 .. n : Covers(e, k - 1) => t[k] = e.text[k - e.start]
      /\ \A k \in 1 .. n : (\A e \in Aliased : ~ Covers(e, k - 1)) => t[k] = <<"source", k - 1>>
  <2>1. Sound(Aliased, Len(O))
    BY <1>2, <1>3
  <2> HIDE DEF t
  <2> QED BY <1>2, <1>3, <2>1, OverwrittenAt DEF t
<1> HIDE DEF t, n
<1>7. u \in Seq(Cells) /\ Len(u) = r.length /\ \A k \in 1 .. r.length : u[k] = t[r.start + k]
  <2>1. \A i \in r.start + 1 .. r.start + r.length : t[i] \in Cells
    BY <1>1, <1>5
  <2>2. /\ u \in Seq(Cells)
        /\ Len(u) = IF r.start + 1 <= r.start + r.length THEN r.start + r.length - (r.start + 1) + 1 ELSE 0
        /\ \A i \in 1 .. r.start + r.length - (r.start + 1) + 1 : u[i] = t[r.start + 1 + i - 1]
    BY <1>1, <2>1, SubSeqProperties
  <2> HIDE DEF u
  <2>3. /\ r.start + r.length - (r.start + 1) + 1 = r.length
        /\ (r.start + 1 <= r.start + r.length \/ r.length = 0)
    BY <1>1
  <2>4. \A i \in 1 .. r.length : r.start + 1 + i - 1 = r.start + i
    BY <1>1
  <2> QED BY <2>2, <2>3, <2>4
<1> HIDE DEF u
<1>8. \A e \in Aliased : Apart(e, r) \/ Within(e, r)
  BY <1>3, <1>4
<1>9. \A e \in Waiting : Apart(e, r) \/ Within(e, r)
  BY <1>3, <1>4
<1>10. Sound(E, r.length) /\ KeepsWidth(E)
  BY <1>1, <1>3, <1>8, AtRangeIs
<1>11. Sound(F, r.length)
  BY <1>1, <1>3, <1>9, AtRangeIs
<1>12. Read(t, Waiting, r) = FlattenSeq(c)
  <2>1. Read(t, Waiting, r) = ApplyEdits(u, F)
    BY DEF Read, u, F, AtRange
  <2>2. Sound(F, Len(u))
    BY <1>7, <1>11
  <2> QED BY <1>7, <2>1, <2>2, AppliedAreFlat
<1>13. c \in Seq(Seq(Cells)) /\ Len(c) = r.length
  <2>2. Sound(F, Len(u))
    BY <1>7, <1>11
  <2> QED BY <1>7, <2>2, PiecesType
<1>14. d \in Seq(Seq(Cells)) /\ Len(d) = r.length /\ RenamedText(r) = FlattenSeq(d)
  BY <1>1, RenamedType
<1>15. ASSUME NEW k \in 1 .. r.length
       PROVE  /\ \A e \in F : Covers(e, k - 1) => c[k] = IF k = e.start + 1 THEN e.text ELSE <<>>
              /\ (\A e \in F : ~ Covers(e, k - 1)) => c[k] = <<u[k]>>
  <2>1. Sound(F, Len(u)) /\ k \in 1 .. Len(u)
    BY <1>7, <1>11
  <2> HIDE DEF F, c
  <2> QED BY <1>7, <2>1, PieceAt DEF c
<1> HIDE DEF c
<1>16. ASSUME NEW k \in 1 .. r.length
       PROVE  d[k] = RenamedCell(r.start + k - 1)
  BY DEF RenamedCells
<1> HIDE DEF d
<1>17. /\ \A f \in E : \E e \in Aliased :
              /\ f.start = e.start - r.start /\ f.text = e.text
              /\ f.start \in Nat /\ e.start \in Nat
              /\ \A k \in 1 .. r.length : Covers(f, k - 1) <=> Covers(e, r.start + k - 1)
       /\ \A e \in Aliased : \A k \in 1 .. r.length : Covers(e, r.start + k - 1) =>
              \E f \in E : f.start = e.start - r.start /\ f.text = e.text /\ Covers(f, k - 1)
  BY <1>1, <1>3, <1>8, AtRangeIs
<1>18. /\ \A f \in F : \E e \in Waiting :
              /\ f.start = e.start - r.start /\ f.text = e.text
              /\ f.start \in Nat /\ e.start \in Nat
              /\ \A k \in 1 .. r.length : Covers(f, k - 1) <=> Covers(e, r.start + k - 1)
       /\ \A e \in Waiting : \A k \in 1 .. r.length : Covers(e, r.start + k - 1) =>
              \E f \in F : f.start = e.start - r.start /\ f.text = e.text /\ Covers(f, k - 1)
  BY <1>1, <1>3, <1>9, AtRangeIs
<1> HIDE DEF E, F
<1>19. \A k \in 1 .. r.length : r.start + k - 1 \in Nat /\ r.start + k \in 1 .. n /\ r.start + k - 1 = (r.start + k) - 1
  BY <1>1
<1>20. \A e \in Aliased : \A f \in Waiting : e # f
  BY DEF Aliased, Waiting
<1>21. ASSUME NEW f \in E, NEW k \in 1 .. r.length, Covers(f, k - 1)
       PROVE  /\ c[k] = <<f.text[k - f.start]>>
              /\ d[k] = IF k = f.start + 1 THEN f.text ELSE <<>>
  <2> DEFINE i == r.start + k - 1
             l == r.start + k
  <2>0. i \in Nat /\ l \in 1 .. n /\ i = l - 1
    BY <1>19
  <2>1. PICK e \in Aliased :
              /\ f.start = e.start - r.start /\ f.text = e.text
              /\ f.start \in Nat /\ e.start \in Nat
              /\ Covers(e, i)
    BY <1>17, <1>21
  <2>2. k - f.start = l - e.start /\ (k = f.start + 1 <=> i = e.start)
    BY <1>1, <2>1
  <2> HIDE DEF i, l
  <2>3. \A g \in F : ~ Covers(g, k - 1)
    <3> SUFFICES ASSUME NEW g \in F, Covers(g, k - 1) PROVE FALSE
      OBVIOUS
    <3>1. PICK h \in Waiting : Covers(h, i)
      BY <1>18 DEF i
    <3>2. h = e
      <4>1. h \in NameEdits /\ e \in NameEdits
        BY <1>3
      <4> QED BY <1>1, <1>3, <2>0, <2>1, <3>1, <4>1, OneCovers DEF n
    <3> QED BY <1>20, <3>2
  <2>4. c[k] = <<u[k]>> /\ u[k] = t[l]
    BY <1>7, <1>15, <2>3 DEF l
  <2>5. t[l] = e.text[l - e.start]
    BY <1>6, <2>0, <2>1
  <2>6. RenamedCell(i) = IF i = e.start THEN e.text ELSE <<>>
    BY <1>3, <2>0, <2>1, RenamedCellIs
  <2>7. d[k] = RenamedCell(i)
    BY <1>16 DEF i
  <2>8. c[k] = <<f.text[k - f.start]>>
    BY <2>1, <2>2, <2>4, <2>5
  <2> QED BY <2>1, <2>2, <2>6, <2>7, <2>8
<1>22. ASSUME NEW k \in 1 .. r.length, \A f \in E : ~ Covers(f, k - 1)
       PROVE  c[k] = d[k]
  <2> DEFINE i == r.start + k - 1
             l == r.start + k
  <2>0. i \in Nat /\ l \in 1 .. n /\ i = l - 1
    BY <1>19
  <2>1. \A e \in Aliased : ~ Covers(e, i)
    BY <1>17, <1>22
  <2>2. d[k] = RenamedCell(i)
    BY <1>16
  <2>3. CASE \E f \in F : Covers(f, k - 1)
    <3>1. PICK f \in F : Covers(f, k - 1)
      BY <2>3
    <3>2. PICK e \in Waiting :
              /\ f.start = e.start - r.start /\ f.text = e.text
              /\ f.start \in Nat /\ e.start \in Nat
              /\ Covers(e, i)
      BY <1>18, <3>1
    <3>3. k = f.start + 1 <=> i = e.start
      BY <1>1, <3>2
    <3>4. c[k] = IF k = f.start + 1 THEN f.text ELSE <<>>
      BY <1>15, <3>1
    <3> HIDE DEF i
    <3>5. RenamedCell(i) = IF i = e.start THEN e.text ELSE <<>>
      BY <1>3, <2>0, <3>2, RenamedCellIs
    <3> QED BY <2>2, <3>2, <3>3, <3>4, <3>5
  <2>4. CASE \A f \in F : ~ Covers(f, k - 1)
    <3>1. \A e \in Waiting : ~ Covers(e, i)
      BY <1>18, <2>4
    <3> HIDE DEF i
    <3>2. c[k] = <<u[k]>> /\ u[k] = t[l]
      BY <1>7, <1>15, <2>4
    <3>3. t[l] = <<"source", i>>
      BY <1>6, <2>0, <2>1
    <3>4. RenamedCell(i) = <<<<"source", i>>>>
      BY <1>3, <2>0, <2>1, <3>1, RenamedCellIs
    <3> QED BY <2>2, <3>2, <3>3, <3>4
  <2> QED BY <2>3, <2>4
<1>23. Spreads(c, d, E, r.length)
  BY <1>13, <1>14, <1>21, <1>22 DEF Spreads
<1>24. FlattenSeq(c) = FlattenSeq(d)
  BY <1>1, <1>10, <1>23, SpreadAlike
<1> QED BY <1>12, <1>14, <1>24 DEF t, O

\* An operand of an expression is a range no name straddles.
LEMMA OperandIs ==
  ASSUME layout \in Layouts, NEW e \in layout.expressions, NEW i \in DOMAIN e.operands
  PROVE  /\ e.operands[i] \in Ranges(layout.size)
         /\ e.operands[i].start \in Nat /\ e.operands[i].length \in Nat
         /\ \A n \in layout.names : Apart(n, e.operands[i]) \/ Within(n, e.operands[i])
         /\ RenamedText(e.operands[i]) \in Seq(Cells)
<1> DEFINE r == e.operands[i]
<1>1. layout.size \in Nat
  BY NamesAre
<1>2. e.operands \in Seq(Ranges(layout.size))
  BY ExpressionsAre
<1>3. r \in Ranges(layout.size) /\ i \in Nat
  BY <1>2
<1>4. r.start \in Nat /\ r.length \in Nat /\ r.length > 0
  BY <1>1, <1>3 DEF Ranges
<1>5. RenamedText(r) \in Seq(Cells)
  BY <1>4, RenamedType
<1>6. Within(r, e) /\ e.start \in Nat /\ e.length \in Nat
  BY ExpressionsAre
<1>7. ASSUME NEW n \in layout.names PROVE Apart(n, r) \/ Within(n, r)
  <2>0. n.start \in Nat /\ n.length \in Nat
    BY NamesAre
  <2>1. Apart(n, e) \/ \E j \in DOMAIN e.operands : Within(n, e.operands[j])
    BY ExpressionsAre
  <2>2. CASE Apart(n, e)
    <3> HIDE DEF r
    <3> QED BY <1>4, <1>6, <2>0, <2>2 DEF Apart, Within
  <2>3. CASE \E j \in DOMAIN e.operands : Within(n, e.operands[j])
    <3>1. PICK j \in DOMAIN e.operands : Within(n, e.operands[j])
      BY <2>3
    <3> DEFINE s == e.operands[j]
    <3>2. s \in Ranges(layout.size) /\ j \in Nat
      BY <1>2
    <3>3. s.start \in Nat /\ s.length \in Nat /\ s.length > 0
      BY <1>1, <3>2 DEF Ranges
    <3>4. /\ i < j => r.start + r.length <= s.start
          /\ j < i => s.start + s.length <= r.start
      BY ExpressionsAre
    <3>5. i = j \/ i < j \/ j < i
      BY <1>3, <3>2
    <3>6. Within(n, s)
      BY <3>1
    <3>7. i = j => s = r
      OBVIOUS
    <3> HIDE DEF s, r
    <3>8. CASE i = j
      BY <3>6, <3>7, <3>8
    <3>9. CASE i # j
      BY <1>4, <2>0, <3>3, <3>4, <3>5, <3>6, <3>9 DEF Apart, Within
    <3> QED BY <3>8, <3>9
  <2> QED BY <2>1, <2>2, <2>3
<1> QED BY <1>3, <1>4, <1>5, <1>7

\* A call is rendered from operands as renaming leaves them.
LEMMA CallingIs ==
  ASSUME layout \in Layouts, NEW e \in layout.expressions
  PROVE  /\ Calling(e) \in Seq(Cells)
         /\ CallText(Overwritten(Original(layout), Aliased), Waiting, e) = Calling(e)
<1> DEFINE t == Overwritten(Original(layout), Aliased)
           s == [i \in DOMAIN e.operands |-> RenamedText(e.operands[i])]
           c == [i \in DOMAIN e.operands |-> Read(t, Waiting, e.operands[i])]
<1>1. \A i \in DOMAIN e.operands : RenamedText(e.operands[i]) \in Seq(Cells)
  BY OperandIs
<1>2. DOMAIN e.operands = 1 .. Len(e.operands) /\ Len(e.operands) \in Nat
  BY ExpressionsAre
<1>3. s \in Seq(Seq(Cells))
  BY <1>1, <1>2
<1>4. FlattenSeq(s) \in Seq(Cells)
  <2> HIDE DEF s
  <2> QED BY <1>3, FlatType
<1>5. <<HelperName>> \in Seq(Cells)
  BY CellsAre
<1>6. Calling(e) \in Seq(Cells)
  <2>1. Calling(e) = <<HelperName>> \o FlattenSeq(s)
    BY DEF Calling
  <2> HIDE DEF s
  <2> QED BY <1>4, <1>5, <2>1
<1>7. ASSUME NEW i \in DOMAIN e.operands
      PROVE  Read(t, Waiting, e.operands[i]) = RenamedText(e.operands[i])
  BY OperandIs, ReadRenames
<1>8. c = s
  <2> HIDE DEF t
  <2> QED BY <1>7
<1>9. CallText(t, Waiting, e) = <<HelperName>> \o FlattenSeq(c)
  BY DEF CallText
<1>10. Calling(e) = <<HelperName>> \o FlattenSeq(s)
  BY DEF Calling
<1> QED BY <1>6, <1>8, <1>9, <1>10

LEMMA PaddedIs ==
  ASSUME NEW t \in Seq(Cells), NEW w \in Nat, Len(t) <= w
  PROVE  Padded(t, w) \in Seq(Cells) /\ Len(Padded(t, w)) = w
<1> DEFINE b == [i \in 1 .. w - Len(t) |-> Blank]
<1>1. w - Len(t) \in Nat /\ Len(t) \in Nat
  OBVIOUS
<1>2. b \in Seq(Cells) /\ Len(b) = w - Len(t)
  BY <1>1, CellsAre
<1> HIDE DEF b
<1>3. t \o b \in Seq(Cells) /\ Len(t \o b) = Len(t) + Len(b)
  BY <1>2
<1> QED BY <1>1, <1>2, <1>3 DEF Padded, b

LEMMA WordEdits ==
  ASSUME layout \in Layouts
  PROVE  /\ \A g \in AddressEdits :
              /\ g.start \in layout.addresses /\ g.length = 1
              /\ g = [start |-> g.start, length |-> 1, text |-> <<Uint256>>]
              /\ \A d \in layout.expressions : Apart([start |-> g.start, length |-> 1], d)
         /\ \A g \in PureEdits :
              /\ g.start \in layout.pures /\ g.length = 1 /\ layout.pureCall
              /\ g = [start |-> g.start, length |-> 1, text |-> <<View>>]
              /\ \A d \in layout.expressions : Apart([start |-> g.start, length |-> 1], d)
<1>1. ASSUME NEW g \in AddressEdits
      PROVE  /\ g.start \in layout.addresses /\ g.length = 1
             /\ g = [start |-> g.start, length |-> 1, text |-> <<Uint256>>]
             /\ \A d \in layout.expressions : Apart([start |-> g.start, length |-> 1], d)
  <2>1. PICK w \in layout.addresses :
         /\ g = [start |-> w, length |-> 1, text |-> <<Uint256>>]
         /\ \A e \in layout.expressions : Apart([start |-> w, length |-> 1], e)
    BY DEF AddressEdits
  <2>2. g.start = w /\ g.length = 1
    BY <2>1
  <2> QED BY <2>1, <2>2
<1>2. ASSUME NEW g \in PureEdits
      PROVE  /\ g.start \in layout.pures /\ g.length = 1 /\ layout.pureCall
             /\ g = [start |-> g.start, length |-> 1, text |-> <<View>>]
             /\ \A d \in layout.expressions : Apart([start |-> g.start, length |-> 1], d)
  <2>1. PICK w \in layout.pures : /\ g = [start |-> w, length |-> 1, text |-> <<View>>]
                                  /\ layout.pureCall
    BY DEF PureEdits
  <2>2. g.start = w /\ g.length = 1
    BY <2>1
  <2>3. \A d \in layout.expressions : Apart([start |-> w, length |-> 1], d)
    BY WordsAre
  <2> QED BY <2>1, <2>2, <2>3
<1> QED BY <1>1, <1>2

\* Replacements are apart and keep widths, and a name is inside one or apart from
\* all of them.
LEMMA ReplacementsAre ==
  ASSUME layout \in Layouts, Fitting
  PROVE  /\ Sound(Replacing, layout.size) /\ KeepsWidth(Replacing)
         /\ Sound(PureEdits, layout.size) /\ KeepsWidth(PureEdits)
         /\ \A e \in NameEdits :
              (\E f \in Replacing : Within(e, f)) \/ (\A f \in Replacing : Apart(e, f))
         /\ \A w \in PureEdits : \A e \in NameEdits \cup Replacing : Apart(w, e) /\ Apart(e, w)
<1> DEFINE n == layout.size
<1>0. n \in Nat
  BY NamesAre
<1>1. \A f \in CallEdits : \E e \in layout.expressions :
         f = [start |-> e.start, length |-> e.length, text |-> RenderedCall(e)]
  BY DEF CallEdits
<1>2. \A g \in AddressEdits :
         /\ g.start \in layout.addresses /\ g.length = 1
         /\ g = [start |-> g.start, length |-> 1, text |-> <<Uint256>>]
         /\ \A d \in layout.expressions : Apart([start |-> g.start, length |-> 1], d)
  BY WordEdits
<1>3. \A g \in PureEdits :
         /\ g.start \in layout.pures /\ g.length = 1
         /\ g = [start |-> g.start, length |-> 1, text |-> <<View>>]
         /\ \A d \in layout.expressions : Apart([start |-> g.start, length |-> 1], d)
  BY WordEdits
<1>4. ASSUME NEW f \in CallEdits
      PROVE  /\ f \in [start : Nat, length : Nat, text : Seq(Cells)]
             /\ f.length > 0 /\ f.start + f.length <= n /\ Len(f.text) = f.length
  <2>1. PICK e \in layout.expressions :
         f = [start |-> e.start, length |-> e.length, text |-> RenderedCall(e)]
    BY <1>1
  <2>2. e.start \in Nat /\ e.length \in Nat /\ e.length > 0 /\ e.start + e.length <= n
    BY ExpressionsAre
  <2>3. Calling(e) \in Seq(Cells) /\ Len(Calling(e)) <= e.length
    BY CallingIs DEF Fitting
  <2>4. RenderedCall(e) = Padded(Calling(e), e.length)
    BY DEF RenderedCall, Calling
  <2>5. RenderedCall(e) \in Seq(Cells) /\ Len(RenderedCall(e)) = e.length
    BY <2>2, <2>3, <2>4, PaddedIs
  <2> QED BY <2>1, <2>2, <2>5
<1>5. ASSUME NEW f \in AddressEdits \cup PureEdits
      PROVE  /\ f \in [start : Nat, length : Nat, text : Seq(Cells)]
             /\ f.length > 0 /\ f.start + f.length <= n /\ Len(f.text) = f.length
  <2>1. PICK w \in layout.addresses \cup layout.pures, x \in {Uint256, View} :
         f = [start |-> w, length |-> 1, text |-> <<x>>]
    BY <1>2, <1>3
  <2>2. w \in Nat /\ w < n
    BY WordsAre
  <2>3. x \in Cells
    BY CellsAre
  <2>4. w + 1 <= n /\ <<x>> \in Seq(Cells) /\ Len(<<x>>) = 1
    BY <1>0, <2>2, <2>3
  <2> QED BY <2>1, <2>2, <2>4
<1>6. ASSUME NEW f \in CallEdits, NEW g \in CallEdits, f # g PROVE Apart(f, g)
  <2>1. PICK e \in layout.expressions :
         f = [start |-> e.start, length |-> e.length, text |-> RenderedCall(e)]
    BY <1>1
  <2>2. PICK d \in layout.expressions :
         g = [start |-> d.start, length |-> d.length, text |-> RenderedCall(d)]
    BY <1>1
  <2>3. Apart(e, d)
    BY <1>6, <2>1, <2>2, ExpressionsAre
  <2>4. f.start = e.start /\ f.length = e.length /\ g.start = d.start /\ g.length = d.length
    BY <2>1, <2>2
  <2> QED BY <2>3, <2>4, OnlyPlaces
<1>7. ASSUME NEW f \in CallEdits, NEW g \in AddressEdits \cup PureEdits
      PROVE Apart(f, g) /\ Apart(g, f)
  <2>1. PICK e \in layout.expressions : f.start = e.start /\ f.length = e.length
    BY <1>1
  <2>2. PICK w \in layout.addresses \cup layout.pures :
          /\ g.start = w /\ g.length = 1
          /\ \A d \in layout.expressions : Apart([start |-> w, length |-> 1], d)
    BY <1>2, <1>3
  <2> DEFINE v == [start |-> w, length |-> 1]
  <2>3. Apart(v, e) /\ v.start = w /\ v.length = 1
    BY <2>2
  <2> HIDE DEF v
  <2> QED BY <2>1, <2>2, <2>3, OnlyPlaces
<1>8. ASSUME NEW f \in AddressEdits \cup PureEdits, NEW g \in AddressEdits \cup PureEdits, f # g
      PROVE  Apart(f, g)
  <2>1. f.start \in Nat /\ f.length = 1 /\ g.start \in Nat /\ g.length = 1
    BY <1>5, <1>2, <1>3
  <2>2. f.start # g.start
    <3> SUFFICES ASSUME f.start = g.start PROVE f = g
      BY <1>8
    <3>1. \A w \in layout.addresses : w \notin layout.pures
      BY WordsAre
    <3>2. CASE f \in AddressEdits
      BY <1>2, <1>3, <3>1, <3>2
    <3>3. CASE f \in PureEdits
      BY <1>2, <1>3, <3>1, <3>3
    <3> QED BY <3>2, <3>3
  <2> QED BY <2>1, <2>2 DEF Apart
<1>9. Sound(Replacing, n)
  <2>1. ASSUME NEW f \in Replacing
        PROVE  /\ f \in [start : Nat, length : Nat, text : Seq(Cells)]
               /\ f.length > 0 /\ f.start + f.length <= n
    BY <1>4, <1>5 DEF Replacing
  <2>2. ASSUME NEW f \in Replacing, NEW g \in Replacing, f # g PROVE Apart(f, g)
    BY <1>6, <1>7, <1>8, <2>2 DEF Replacing
  <2> QED BY <2>1, <2>2, Zenon DEF Sound
<1>10. KeepsWidth(Replacing) /\ KeepsWidth(PureEdits)
  BY <1>4, <1>5 DEF KeepsWidth, Replacing
<1>11. Sound(PureEdits, n)
  BY <1>5, <1>8 DEF Sound
<1>12. ASSUME NEW g \in AddressEdits \cup PureEdits, NEW e \in NameEdits
       PROVE Apart(g, e) /\ Apart(e, g)
  <2>1. PICK m \in layout.names : e.start = m.start /\ e.length = m.length
    BY DEF NameEdits, NameEdit
  <2>2. PICK w \in layout.addresses \cup layout.pures : g.start = w /\ g.length = 1
    BY <1>2, <1>3
  <2> DEFINE v == [start |-> w, length |-> 1]
  <2>3. Apart(v, m) /\ v.start = w /\ v.length = 1
    BY WordsAre
  <2> HIDE DEF v
  <2> QED BY <2>1, <2>2, <2>3, OnlyPlaces
<1>13. ASSUME NEW e \in NameEdits
       PROVE  (\E f \in Replacing : Within(e, f)) \/ (\A f \in Replacing : Apart(e, f))
  <2>1. PICK m \in layout.names : e.start = m.start /\ e.length = m.length
    BY DEF NameEdits, NameEdit
  <2>2. CASE \E d \in layout.expressions : ~ Apart(m, d)
    <3>1. PICK d \in layout.expressions : ~ Apart(m, d)
      BY <2>2
    <3>2. PICK i \in DOMAIN d.operands : Within(m, d.operands[i])
      BY <3>1, ExpressionsAre
    <3> DEFINE r == d.operands[i]
    <3>3. /\ Within(r, d) /\ d.start \in Nat /\ d.length \in Nat
          /\ r.start \in Nat /\ r.length \in Nat /\ m.start \in Nat /\ m.length \in Nat
      BY ExpressionsAre, NamesAre, OperandIs
    <3>4. Within(m, r)
      BY <3>2
    <3> HIDE DEF r
    <3>5. Within(m, d)
      BY <3>3, <3>4 DEF Within
    <3> DEFINE f == [start |-> d.start, length |-> d.length, text |-> RenderedCall(d)]
    <3>6. f \in Replacing /\ f.start = d.start /\ f.length = d.length
      BY DEF Replacing, CallEdits
    <3> HIDE DEF f
    <3>7. Within(e, f)
      BY <2>1, <3>5, <3>6, OnlyPlaces
    <3> QED BY <3>6, <3>7
  <2>3. CASE \A d \in layout.expressions : Apart(m, d)
    <3>1. ASSUME NEW f \in CallEdits PROVE Apart(e, f)
      <4>1. PICK d \in layout.expressions : f.start = d.start /\ f.length = d.length
        BY <1>1
      <4> QED BY <2>1, <2>3, <4>1, OnlyPlaces
    <3> QED BY <1>12, <3>1 DEF Replacing
  <2> QED BY <2>2, <2>3
<1>14. ASSUME NEW w \in PureEdits, NEW e \in NameEdits \cup Replacing
       PROVE Apart(w, e) /\ Apart(e, w)
  <2>1. CASE e \in NameEdits
    BY <1>12, <2>1
  <2>2. CASE e \in CallEdits
    BY <1>7, <2>2
  <2>3. CASE e \in AddressEdits
    <3>1. w # e
      <4>1. \A v \in layout.addresses : v \notin layout.pures
        BY WordsAre
      <4>2. e.start \in layout.addresses /\ w.start \in layout.pures
        BY <1>2, <1>3, <2>3
      <4> QED BY <4>1, <4>2
    <3> QED BY <1>8, <2>3, <3>1
  <2> QED BY <2>1, <2>2, <2>3 DEF Replacing
<1> QED BY <1>9, <1>10, <1>11, <1>13, <1>14

-----------------------------------------------------------------------------
(* The passes *)

\* What becomes of the names that no replacement takes in, and all edits at last.
Kept == NotIn(Aliased, Replacing) \cup Replacing
AllEdits == NotIn(NameEdits, Replacing) \cup Replacing \cup PureEdits

\* The inductive invariant: each pass leaves the original with the edits so far
\* made at once, and the names that are neither written nor in a replacement wait.
EditsInv ==
    /\ layout \in Layouts
    /\ lowering \in {"alias", "replace", "refused", "pure", "lengthen", "lowered"}
    /\ lowering = "alias" => content = Original(layout) /\ longerNames = {}
    /\ lowering \in {"replace", "refused"} =>
         content = Overwritten(Original(layout), Aliased) /\ longerNames = Waiting
    /\ lowering \in {"pure", "lengthen", "lowered"} =>
         Fitting /\ longerNames = NotIn(Waiting, Replacing)
    /\ lowering = "pure" =>
         content = Overwritten(Original(layout), Kept) \o <<AppendedDeclarations>>
    /\ lowering = "lengthen" =>
         content = Overwritten(Original(layout), Kept \cup PureEdits) \o <<AppendedDeclarations>>
    /\ lowering = "lowered" =>
         content = ApplyEdits(Original(layout), AllEdits) \o <<AppendedDeclarations>>

\* The edits depend on the layout alone, which no pass changes.
LEMMA LayoutOnly ==
  ASSUME layout' = layout
  PROVE  /\ NameEdits' = NameEdits /\ Aliased' = Aliased /\ Waiting' = Waiting
         /\ Replacing' = Replacing /\ PureEdits' = PureEdits /\ (Fitting' <=> Fitting)
         /\ Kept' = Kept /\ AllEdits' = AllEdits
<1>1. ASSUME NEW i PROVE RenamedCell(i)' = RenamedCell(i)
  BY Zenon DEF RenamedCell
<1>2. ASSUME NEW r PROVE RenamedText(r)' = RenamedText(r)
  BY <1>1 DEF RenamedText
<1>3. ASSUME NEW e PROVE Calling(e)' = Calling(e)
  BY <1>2 DEF Calling
<1>4. ASSUME NEW e PROVE RenderedCall(e)' = RenderedCall(e)
  BY <1>2 DEF RenderedCall
<1>5. NameEdits' = NameEdits /\ Aliased' = Aliased /\ Waiting' = Waiting
  <2>1. NameEdits' = NameEdits
    BY DEF NameEdits
  <2> QED BY <2>1 DEF Aliased, Waiting
<1>6. CallEdits' = CallEdits
  BY <1>4 DEF CallEdits
<1>7. AddressEdits' = AddressEdits
  BY DEF AddressEdits
<1>8. Replacing' = Replacing
  BY <1>6, <1>7 DEF Replacing
<1>9. PureEdits' = PureEdits
  BY DEF PureEdits
<1>10. Fitting' <=> Fitting
  BY <1>3 DEF Fitting
<1>11. Kept' = Kept /\ AllEdits' = AllEdits
  BY <1>5, <1>8, <1>9 DEF Kept, AllEdits, NotIn
<1> QED BY <1>5, <1>8, <1>9, <1>10, <1>11

\* A text after the helper declarations were appended to it.
Ended(t) == t \o <<AppendedDeclarations>>

AllApart(E, F) == \A e \in E : \A f \in F : Apart(e, f)

\* A pass that comes after others that kept all widths, and after something was
\* appended, makes its edits as if they were the first.
LEMMA MadeAfter ==
  ASSUME NEW t \in Seq(Cells), NEW K, Sound(K, Len(t)), KeepsWidth(K),
         NEW F, Sound(F, Len(t)), AllApart(K, F)
  PROVE  /\ Sound(K \cup F, Len(t))
         /\ ApplyEdits(Ended(Overwritten(t, K)), F) = Ended(ApplyEdits(t, K \cup F))
<1> DEFINE u == Overwritten(t, K)
           n == Len(t)
<1>1. u \in Seq(Cells) /\ Len(u) = n
  BY OverwrittenType
<1> HIDE DEF u
<1>2. NotIn(K, F) = K
  <2>1. ASSUME NEW e \in K, NEW f \in F PROVE ~ Within(e, f)
    <3>1. /\ e.start \in Nat /\ e.length \in Nat /\ e.length > 0
          /\ f.start \in Nat /\ f.length \in Nat
      BY DEF Sound
    <3>2. Apart(e, f)
      BY DEF AllApart
    <3> QED BY <3>1, <3>2 DEF Apart, Within
  <2> QED BY <2>1 DEF NotIn
<1>3. Sound(K \cup F, n) /\ ApplyEdits(u, F) = ApplyEdits(t, K \cup F)
  <2>1. \A e \in K : (\E f \in F : Within(e, f)) \/ (\A f \in F : Apart(e, f))
    BY DEF AllApart
  <2>2. Sound(NotIn(K, F) \cup F, Len(t)) /\ ApplyEdits(Overwritten(t, K), F) = ApplyEdits(t, NotIn(K, F) \cup F)
    BY <2>1, Merged
  <2> QED BY <1>2, <2>2 DEF u, n
<1>4. ApplyEdits(Ended(u), F) = Ended(ApplyEdits(u, F))
  <2>1. Sound(F, Len(u))
    BY <1>1
  <2> QED BY <1>1, <2>1, CellsAre, Lengthened DEF Ended
<1> QED BY <1>3, <1>4 DEF u, n

\* The edits that remain of all passes are apart from each other.
LEMMA KeptIs ==
  ASSUME layout \in Layouts, Fitting
  PROVE  /\ Sound(Kept, layout.size) /\ KeepsWidth(Kept)
         /\ Sound(Kept \cup PureEdits, layout.size) /\ KeepsWidth(Kept \cup PureEdits)
         /\ Sound(NotIn(Waiting, Replacing), layout.size)
         /\ Sound(AllEdits, layout.size)
         /\ \A e \in Kept : \A f \in PureEdits : Apart(e, f)
         /\ \A e \in Kept \cup PureEdits : \A f \in NotIn(Waiting, Replacing) : Apart(e, f)
         /\ AllEdits = Kept \cup PureEdits \cup NotIn(Waiting, Replacing)
<1> DEFINE n == layout.size
           L == NotIn(Waiting, Replacing)
           A == NotIn(Aliased, Replacing)
<1>1. /\ Sound(Replacing, n) /\ KeepsWidth(Replacing)
      /\ Sound(PureEdits, n) /\ KeepsWidth(PureEdits)
      /\ \A e \in NameEdits :
           (\E f \in Replacing : Within(e, f)) \/ (\A f \in Replacing : Apart(e, f))
      /\ \A w \in PureEdits : \A e \in NameEdits \cup Replacing : Apart(w, e) /\ Apart(e, w)
  BY ReplacementsAre
<1>2. /\ Sound(NameEdits, n) /\ KeepsWidth(Aliased) /\ NameEdits = Aliased \cup Waiting
  BY NamesSound
<1>3. \A e \in Aliased : \A f \in Waiting : e # f
  BY DEF Aliased, Waiting
<1>4. /\ L \subseteq NameEdits /\ A \subseteq NameEdits
      /\ L \subseteq Waiting /\ A \subseteq Aliased
      /\ \A e \in L \cup A : \A f \in Replacing : Apart(e, f) /\ Apart(f, e)
      /\ NotIn(NameEdits, Replacing) = A \cup L
  <2>1. L \subseteq Waiting /\ A \subseteq Aliased /\ NotIn(NameEdits, Replacing) = A \cup L
    BY <1>2 DEF NotIn
  <2>2. \A e \in L \cup A : \A f \in Replacing : Apart(e, f)
    BY <1>1, <1>2, Zenon DEF NotIn
  <2>3. \A e, f : Apart(e, f) <=> Apart(f, e)
    BY OnlyPlaces
  <2> HIDE DEF L, A
  <2> QED BY <1>2, <2>1, <2>2, <2>3
<1> HIDE DEF L, A
<1>5. AllEdits = A \cup L \cup Replacing \cup PureEdits /\ Kept = A \cup Replacing
  BY <1>4 DEF AllEdits, Kept, A
<1>6. ASSUME NEW e \in AllEdits
      PROVE  /\ e \in [start : Nat, length : Nat, text : Seq(Cells)]
             /\ e.length > 0 /\ e.start + e.length <= n
  BY <1>1, <1>2, <1>4, <1>5 DEF Sound
<1>7. ASSUME NEW e \in AllEdits, NEW f \in AllEdits, e # f PROVE Apart(e, f)
  <2>1. e \in A \cup L \cup Replacing \cup PureEdits /\ f \in A \cup L \cup Replacing \cup PureEdits
    BY <1>5
  <2>2. CASE e \in A \cup L /\ f \in A \cup L
    BY <1>2, <1>4, <1>7, <2>2 DEF Sound
  <2>3. CASE e \in Replacing /\ f \in Replacing
    BY <1>1, <1>7, <2>3, Zenon DEF Sound
  <2>4. CASE e \in PureEdits /\ f \in PureEdits
    BY <1>1, <1>7, <2>4, Zenon DEF Sound
  <2>5. CASE (e \in A \cup L /\ f \in Replacing) \/ (f \in A \cup L /\ e \in Replacing)
    BY <1>4, <2>5
  <2>6. CASE e \in PureEdits /\ f \in A \cup L \cup Replacing
    BY <1>1, <1>4, <2>6
  <2>7. CASE f \in PureEdits /\ e \in A \cup L \cup Replacing
    BY <1>1, <1>4, <2>7
  <2> QED BY <2>1, <2>2, <2>3, <2>4, <2>5, <2>6, <2>7
<1>8. Sound(AllEdits, n)
  BY <1>6, <1>7, Zenon DEF Sound
<1>9. /\ Kept \subseteq AllEdits /\ Kept \cup PureEdits \subseteq AllEdits /\ L \subseteq AllEdits
      /\ AllEdits = Kept \cup PureEdits \cup L
  BY <1>5
<1>10. Sound(Kept, n) /\ Sound(Kept \cup PureEdits, n) /\ Sound(L, n)
  BY <1>6, <1>7, <1>9, Zenon DEF Sound
<1>11. KeepsWidth(Kept) /\ KeepsWidth(Kept \cup PureEdits)
  BY <1>1, <1>2, <1>4, <1>5 DEF KeepsWidth
<1>12. \A e \in Kept : \A f \in PureEdits : Apart(e, f)
  BY <1>1, <1>4, <1>5
<1>13. \A e \in Kept \cup PureEdits : \A f \in L : Apart(e, f)
  <2> SUFFICES ASSUME NEW e \in Kept \cup PureEdits, NEW f \in L PROVE Apart(e, f)
    OBVIOUS
  <2>1. CASE e \in A
    <3>1. e # f
      BY <1>3, <1>4, <2>1
    <3> QED BY <1>7, <1>9, <3>1
  <2>2. CASE e \in Replacing
    BY <1>4, <2>2
  <2>3. CASE e \in PureEdits
    BY <1>1, <1>4, <2>3
  <2> QED BY <1>5, <2>1, <2>2, <2>3
<1> QED BY <1>8, <1>9, <1>10, <1>11, <1>12, <1>13 DEF L

LEMMA EditsInvInit == EditsInit => EditsInv
BY DEF EditsInit, EditsInv

\* Every pass keeps the invariant.
LEMMA EditsInvStep == EditsInv /\ [EditsNext]_editVars => EditsInv'
<1> DEFINE O == Original(layout)
           D == <<AppendedDeclarations>>
<1> SUFFICES ASSUME EditsInv, [EditsNext]_editVars PROVE EditsInv'
  OBVIOUS
<1>0. layout' = layout /\ layout' \in Layouts /\ layout \in Layouts
  BY DEF EditsInv, EditsNext, editVars, AliasNames, RefuseWideCall, ReplaceExpressions,
         PureToView, LengthenNames
<1>1. /\ NameEdits' = NameEdits /\ Aliased' = Aliased /\ Waiting' = Waiting
      /\ Replacing' = Replacing /\ PureEdits' = PureEdits /\ (Fitting' <=> Fitting)
      /\ Kept' = Kept /\ AllEdits' = AllEdits
  BY <1>0, LayoutOnly
<1>2. /\ O \in Seq(Cells) /\ Len(O) = layout.size
      /\ Sound(NameEdits, Len(O)) /\ Sound(Aliased, Len(O)) /\ Sound(Waiting, Len(O))
      /\ KeepsWidth(Aliased)
  BY <1>0, OriginalIs, NamesSound
<1> HIDE DEF O, D
<1>3. ASSUME Fitting
      PROVE  /\ Sound(Replacing, Len(O)) /\ KeepsWidth(Replacing)
             /\ Sound(PureEdits, Len(O)) /\ KeepsWidth(PureEdits)
             /\ \A e \in NameEdits :
                 (\E f \in Replacing : Within(e, f)) \/ (\A f \in Replacing : Apart(e, f))
             /\ Sound(Kept, Len(O)) /\ KeepsWidth(Kept)
             /\ Sound(Kept \cup PureEdits, Len(O)) /\ KeepsWidth(Kept \cup PureEdits)
             /\ Sound(NotIn(Waiting, Replacing), Len(O))
             /\ \A e \in Kept : \A f \in PureEdits : Apart(e, f)
             /\ \A e \in Kept \cup PureEdits : \A f \in NotIn(Waiting, Replacing) : Apart(e, f)
             /\ AllEdits = Kept \cup PureEdits \cup NotIn(Waiting, Replacing)
  BY <1>0, <1>2, <1>3, ReplacementsAre, KeptIs
<1>4. ASSUME NEW e \in layout.expressions
      PROVE  CallText(Overwritten(O, Aliased), Waiting, e) = Calling(e)
  BY <1>0, CallingIs DEF O
<1>5. CASE AliasNames
  <2>1. /\ lowering = "alias" /\ lowering' = "replace" /\ content = O
        /\ content' = ApplyEdits(content, Aliased) /\ longerNames' = Waiting
    BY <1>5 DEF AliasNames, EditsInv, Aliased, Waiting, NameEdits, O
  <2>2. ApplyEdits(O, Aliased) = Overwritten(O, Aliased)
    BY <1>2, AppliedOverwrite
  <2> QED BY <1>0, <1>1, <2>1, <2>2 DEF EditsInv, O
<1>6. CASE RefuseWideCall
  BY <1>0, <1>1, <1>6 DEF RefuseWideCall, EditsInv
<1>7. CASE ReplaceExpressions
  <2> DEFINE t == Overwritten(O, Aliased)
  <2>1. lowering = "replace" /\ lowering' = "pure" /\ content = t /\ longerNames = Waiting
    BY <1>7 DEF ReplaceExpressions, EditsInv, O
  <2>2. \A e \in layout.expressions : CallText(content, longerNames, e) = Calling(e)
    BY <1>4, <2>1
  <2>3. Fitting
    BY <1>7, <2>2 DEF ReplaceExpressions, Fitting
  <2>4. \A e \in layout.expressions :
          Padded(CallText(content, longerNames, e), e.length) = RenderedCall(e)
    BY <2>2 DEF RenderedCall, Calling
  <2>5. ExpressionEdits = CallEdits
    BY <2>4 DEF ExpressionEdits, CallEdits
  <2>6. ExpressionEdits \cup AddressEdits = Replacing
    BY <2>5 DEF Replacing
  <2>7. /\ content' = ApplyEdits(content, Replacing) \o D
        /\ longerNames' = Remaining(longerNames, Replacing)
    BY <1>7, <2>6, Zenon DEF ReplaceExpressions, D
  <2>8. longerNames' = NotIn(Waiting, Replacing)
    BY <2>1, <2>7, Zenon DEF Remaining, NotIn
  <2>9. ApplyEdits(t, Replacing) = ApplyEdits(O, Kept)
    <3>1. \A e \in Aliased :
            (\E f \in Replacing : Within(e, f)) \/ (\A f \in Replacing : Apart(e, f))
      BY <1>3, <2>3 DEF Aliased
    <3> QED BY <1>2, <1>3, <2>3, <3>1, Merged DEF Kept
  <2>10. ApplyEdits(O, Kept) = Overwritten(O, Kept)
    BY <1>2, <1>3, <2>3, AppliedOverwrite
  <2>11. content' = Overwritten(O, Kept) \o D
    BY <2>1, <2>7, <2>9, <2>10
  <2> HIDE DEF t
  <2> QED BY <1>0, <1>1, <2>1, <2>3, <2>8, <2>11 DEF EditsInv, O, D
<1>8. CASE PureToView
  <2>1. /\ lowering = "pure" /\ lowering' = "lengthen" /\ content = Overwritten(O, Kept) \o D
        /\ Fitting /\ longerNames = NotIn(Waiting, Replacing) /\ longerNames' = longerNames
    BY <1>8 DEF PureToView, EditsInv, O, D
  <2>2. content' = ApplyEdits(content, PureEdits)
    BY <1>8 DEF PureToView, PureEdits
  <2>3. ApplyEdits(Overwritten(O, Kept) \o D, PureEdits) = ApplyEdits(O, Kept \cup PureEdits) \o D
    <3> DEFINE K == Kept
               F == PureEdits
    <3>1. /\ Sound(K, Len(O)) /\ KeepsWidth(K) /\ Sound(F, Len(O))
          /\ AllApart(K, F)
      BY <1>3, <2>1 DEF AllApart
    <3> HIDE DEF K, F
    <3>2. ApplyEdits(Ended(Overwritten(O, K)), F) = Ended(ApplyEdits(O, K \cup F))
      BY <1>2, <3>1, MadeAfter
    <3> QED BY <3>2 DEF K, F, D, Ended
  <2>4. ApplyEdits(O, Kept \cup PureEdits) = Overwritten(O, Kept \cup PureEdits)
    BY <1>2, <1>3, <2>1, AppliedOverwrite
  <2>5. content' = Overwritten(O, Kept \cup PureEdits) \o D
    BY <2>1, <2>2, <2>3, <2>4
  <2> QED BY <1>0, <1>1, <2>1, <2>5 DEF EditsInv, O, D
<1>9. CASE LengthenNames
  <2>1. /\ lowering = "lengthen" /\ lowering' = "lowered"
        /\ content = Overwritten(O, Kept \cup PureEdits) \o D
        /\ Fitting /\ longerNames = NotIn(Waiting, Replacing) /\ longerNames' = longerNames
    BY <1>9 DEF LengthenNames, EditsInv, O, D
  <2>2. content' = ApplyEdits(content, NotIn(Waiting, Replacing))
    BY <1>9, <2>1 DEF LengthenNames
  <2>3. ApplyEdits(Overwritten(O, Kept \cup PureEdits) \o D, NotIn(Waiting, Replacing))
           = ApplyEdits(O, Kept \cup PureEdits \cup NotIn(Waiting, Replacing)) \o D
    <3> DEFINE K == Kept \cup PureEdits
               F == NotIn(Waiting, Replacing)
    <3>1. /\ Sound(K, Len(O)) /\ KeepsWidth(K) /\ Sound(F, Len(O))
          /\ AllApart(K, F)
      BY <1>3, <2>1 DEF AllApart
    <3> HIDE DEF K, F
    <3>2. ApplyEdits(Ended(Overwritten(O, K)), F) = Ended(ApplyEdits(O, K \cup F))
      BY <1>2, <3>1, MadeAfter
    <3> QED BY <3>2 DEF K, F, D, Ended
  <2>4. content' = ApplyEdits(O, AllEdits) \o D
    BY <1>3, <2>1, <2>2, <2>3
  <2> QED BY <1>0, <1>1, <2>1, <2>4 DEF EditsInv, O, D
<1>10. CASE UNCHANGED editVars
  BY <1>0, <1>1, <1>10 DEF editVars, EditsInv
<1> QED BY <1>5, <1>6, <1>7, <1>8, <1>9, <1>10 DEF EditsNext

\* What is intended for a cell is what the edit that covers it says.
LEMMA RenderedCellIs ==
  ASSUME layout \in Layouts, Fitting, NEW i \in Nat
  PROVE  /\ \A e \in AllEdits : Covers(e, i) =>
              RenderedCell(i) = IF i = e.start THEN e.text ELSE <<>>
         /\ (\A e \in AllEdits : ~ Covers(e, i)) => RenderedCell(i) = <<<<"source", i>>>>
<1> DEFINE c == CHOOSE e \in layout.expressions : e.start = i
           v == [start |-> i, length |-> 1]
<1>1. RenderedCell(i) =
        IF \E e \in layout.expressions : e.start = i THEN RenderedCall(c)
        ELSE IF \E e \in layout.expressions : Within(v, e) THEN <<>>
        ELSE IF i \in layout.addresses THEN <<Uint256>>
        ELSE IF i \in layout.pures /\ layout.pureCall THEN <<View>>
        ELSE RenamedCell(i)
  BY Zenon DEF RenderedCell
<1>2. \A e \in layout.expressions : e.start \in Nat /\ e.length \in Nat /\ e.length > 0
  BY ExpressionsAre
<1>3. \A e \in layout.expressions : Within(v, e) <=> Covers(e, i)
  BY <1>2, ThisCell
<1>4. \A e \in layout.expressions : e.start = i => Covers(e, i)
  BY <1>2 DEF Covers
<1>5. \A e, d \in layout.expressions : Covers(e, i) /\ Covers(d, i) => e = d
  <2> SUFFICES ASSUME NEW e \in layout.expressions, NEW d \in layout.expressions,
                      Covers(e, i), Covers(d, i)
               PROVE  e = d
    OBVIOUS
  <2>1. ~ Apart(e, d)
    BY <1>2 DEF Apart, Covers
  <2> QED BY <2>1, ExpressionsAre
<1>6. \A e \in layout.expressions : e.start = i => c = e
  <2> SUFFICES ASSUME NEW e \in layout.expressions, e.start = i PROVE c = e
    OBVIOUS
  <2>1. c \in layout.expressions /\ c.start = i
    OBVIOUS
  <2> HIDE DEF c
  <2> QED BY <1>4, <1>5, <2>1
<1>7. \A e \in layout.expressions : ~ Covers(e, i) => Apart(v, e)
  <2> SUFFICES ASSUME NEW e \in layout.expressions, ~ Covers(e, i) PROVE Apart(v, e)
    OBVIOUS
  <2>1. v.start = i /\ v.length = 1
    OBVIOUS
  <2> HIDE DEF v
  <2> QED BY <1>2, <2>1 DEF Apart, Covers
<1>8. \A e : e.start \in Nat /\ e.length \in Nat /\ Apart(v, e) => ~ Covers(e, i)
  BY DEF Apart, Covers
<1>9. ASSUME NEW e \in layout.expressions, Covers(e, i)
      PROVE  RenderedCell(i) = IF i = e.start THEN RenderedCall(e) ELSE <<>>
  <2> HIDE DEF c, v
  <2>1. CASE i = e.start
    <3>1. RenderedCell(i) = RenderedCall(c)
      BY <1>1, <2>1, Zenon
    <3> QED BY <1>6, <2>1, <3>1
  <2>2. CASE i # e.start
    <3>1. ~ \E d \in layout.expressions : d.start = i
      BY <1>4, <1>5, <1>9, <2>2
    <3>2. \E d \in layout.expressions : Within(v, d)
      BY <1>3, <1>9
    <3>3. RenderedCell(i) = <<>>
      BY <1>1, <3>1, <3>2, Zenon
    <3> QED BY <2>2, <3>3
  <2> QED BY <2>1, <2>2
<1>10. ASSUME \A e \in layout.expressions : ~ Covers(e, i)
       PROVE  RenderedCell(i) =
                IF i \in layout.addresses THEN <<Uint256>>
                ELSE IF i \in layout.pures /\ layout.pureCall THEN <<View>>
                ELSE RenamedCell(i)
  <2> HIDE DEF c, v
  <2>1. ~ \E d \in layout.expressions : d.start = i
    BY <1>4, <1>10
  <2>2. ~ \E d \in layout.expressions : Within(v, d)
    BY <1>3, <1>10
  <2> QED BY <1>1, <2>1, <2>2, Zenon
<1>11. \A d \in layout.expressions : Covers(d, i) =>
         \E f \in CallEdits : Covers(f, i) /\ f.start = d.start /\ f.text = RenderedCall(d)
  <2> SUFFICES ASSUME NEW d \in layout.expressions, Covers(d, i)
               PROVE  \E f \in CallEdits : Covers(f, i) /\ f.start = d.start /\ f.text = RenderedCall(d)
    OBVIOUS
  <2> DEFINE f == [start |-> d.start, length |-> d.length, text |-> RenderedCall(d)]
  <2>1. f \in CallEdits /\ f.start = d.start /\ f.length = d.length /\ f.text = RenderedCall(d)
    BY DEF CallEdits
  <2> HIDE DEF f
  <2> QED BY <2>1, OnlyPlaces
<1>12. \A f \in CallEdits : \E d \in layout.expressions :
         f.start = d.start /\ f.length = d.length /\ f.text = RenderedCall(d)
  BY DEF CallEdits
<1>13. \A f \in AddressEdits :
         /\ f.start \in layout.addresses /\ f.length = 1 /\ f.text = <<Uint256>>
         /\ \A e \in layout.expressions : Apart([start |-> f.start, length |-> 1], e)
  <2> SUFFICES ASSUME NEW f \in AddressEdits PROVE f.text = <<Uint256>>
    BY WordEdits
  <2>1. f = [start |-> f.start, length |-> 1, text |-> <<Uint256>>]
    BY WordEdits
  <2> QED BY <2>1
<1>14. \A f \in PureEdits :
         f.start \in layout.pures /\ f.length = 1 /\ f.text = <<View>> /\ layout.pureCall
  BY DEF PureEdits
<1>15. \A f \in AddressEdits \cup PureEdits : Covers(f, i) => f.start = i
  <2> SUFFICES ASSUME NEW f \in AddressEdits \cup PureEdits, Covers(f, i) PROVE f.start = i
    OBVIOUS
  <2>1. f.length = 1 /\ f.start \in Nat
    <3>1. f.start \in layout.addresses \cup layout.pures /\ f.length = 1
      BY <1>13, <1>14
    <3> QED BY <3>1, WordsAre
  <2> QED BY <2>1 DEF Covers
<1>16. ASSUME i \in layout.addresses, \A e \in layout.expressions : ~ Covers(e, i)
       PROVE  \E f \in AddressEdits : Covers(f, i)
  <2> DEFINE f == [start |-> i, length |-> 1, text |-> <<Uint256>>]
  <2>1. f \in AddressEdits
    BY <1>7, <1>16 DEF AddressEdits
  <2>2. Covers(f, i)
    BY DEF Covers
  <2> QED BY <2>1, <2>2
<1>17. ASSUME i \in layout.pures, layout.pureCall PROVE \E f \in PureEdits : Covers(f, i)
  <2> DEFINE f == [start |-> i, length |-> 1, text |-> <<View>>]
  <2>1. f \in PureEdits
    BY <1>17 DEF PureEdits
  <2>2. Covers(f, i)
    BY DEF Covers
  <2> QED BY <2>1, <2>2
<1> HIDE DEF c, v
<1>18. /\ Sound(AllEdits, layout.size) /\ Sound(NameEdits, layout.size)
       /\ Sound(Replacing, layout.size)
       /\ \A e \in NameEdits :
            (\E f \in Replacing : Within(e, f)) \/ (\A f \in Replacing : Apart(e, f))
       /\ layout.size \in Nat
  BY KeptIs, NamesSound, ReplacementsAre, NamesAre
<1>19. /\ Replacing = CallEdits \cup AddressEdits
       /\ AllEdits = NotIn(NameEdits, Replacing) \cup Replacing \cup PureEdits
  BY DEF Replacing, AllEdits
<1>20. ASSUME NEW e \in AllEdits, Covers(e, i)
       PROVE  RenderedCell(i) = IF i = e.start THEN e.text ELSE <<>>
  <2>1. CASE e \in CallEdits
    <3>1. PICK d \in layout.expressions :
            e.start = d.start /\ e.length = d.length /\ e.text = RenderedCall(d)
      BY <1>12, <2>1
    <3>2. Covers(d, i)
      BY <1>20, <3>1, OnlyPlaces
    <3> QED BY <1>9, <3>1, <3>2
  <2>2. CASE e \in AddressEdits
    <3>1. e.start = i /\ i \in layout.addresses /\ e.text = <<Uint256>>
      BY <1>13, <1>15, <1>20, <2>2
    <3>2. \A d \in layout.expressions : Apart(v, d)
      BY <1>13, <2>2, <3>1 DEF v
    <3>3. \A d \in layout.expressions : ~ Covers(d, i)
      BY <1>2, <1>8, <3>2
    <3>4. RenderedCell(i) = <<Uint256>>
      BY <1>10, <3>1, <3>3, Zenon
    <3> QED BY <3>1, <3>4
  <2>3. CASE e \in PureEdits
    <3>1. e.start = i /\ i \in layout.pures /\ e.text = <<View>> /\ layout.pureCall
      BY <1>14, <1>15, <1>20, <2>3
    <3>2. \A d \in layout.expressions : Apart(v, d)
      BY <3>1, WordsAre DEF v
    <3>3. \A d \in layout.expressions : ~ Covers(d, i)
      BY <1>2, <1>8, <3>2
    <3>4. i \notin layout.addresses
      BY <3>1, WordsAre
    <3>5. RenderedCell(i) = <<View>>
      BY <1>10, <3>1, <3>3, <3>4, Zenon
    <3> QED BY <3>1, <3>5
  <2>4. CASE e \in NotIn(NameEdits, Replacing) /\ e \notin Replacing \cup PureEdits
    <3>1. \A f \in AllEdits : Covers(f, i) => f = e
      BY <1>18, <1>20, OneCovers
    <3>2. \A f \in Replacing \cup PureEdits : ~ Covers(f, i)
      BY <1>19, <2>4, <3>1
    <3>3. \A d \in layout.expressions : ~ Covers(d, i)
      BY <1>11, <1>19, <3>2
    <3>4. i \notin layout.addresses
      BY <1>16, <1>19, <3>2, <3>3
    <3>5. ~ (i \in layout.pures /\ layout.pureCall)
      BY <1>17, <3>2
    <3>6. RenderedCell(i) = RenamedCell(i)
      BY <1>10, <3>3, <3>4, <3>5, Zenon
    <3>7. e \in NameEdits
      BY <2>4 DEF NotIn
    <3> QED BY <1>20, <3>6, <3>7, RenamedCellIs
  <2> QED BY <1>19, <2>1, <2>2, <2>3, <2>4
<1>21. ASSUME \A e \in AllEdits : ~ Covers(e, i) PROVE RenderedCell(i) = <<<<"source", i>>>>
  <2>1. \A f \in Replacing \cup PureEdits : ~ Covers(f, i)
    BY <1>19, <1>21
  <2>2. \A d \in layout.expressions : ~ Covers(d, i)
    BY <1>11, <1>19, <2>1
  <2>3. i \notin layout.addresses
    BY <1>16, <1>19, <2>1, <2>2
  <2>4. ~ (i \in layout.pures /\ layout.pureCall)
    BY <1>17, <2>1
  <2>5. RenderedCell(i) = RenamedCell(i)
    BY <1>10, <2>2, <2>3, <2>4, Zenon
  <2>6. ASSUME NEW e \in NameEdits, Covers(e, i) PROVE FALSE
    <3>1. e \notin NotIn(NameEdits, Replacing)
      BY <1>19, <1>21, <2>6
    <3>2. PICK f \in Replacing : Within(e, f)
      BY <3>1 DEF NotIn
    <3>3. e.start \in Nat /\ e.length \in Nat /\ f.start \in Nat /\ f.length \in Nat
      BY <1>18 DEF Sound
    <3>4. Covers(f, i)
      BY <2>6, <3>2, <3>3 DEF Within, Covers
    <3> QED BY <2>1, <3>4
  <2> QED BY <2>5, <2>6, RenamedCellIs
<1> QED BY <1>20, <1>21

RenderedCells(r) == [k \in 1 .. r.length |-> RenderedCell(r.start + k - 1)]

\* All edits of a layout, cell by cell, are what is intended for its cells.
LEMMA PiecesRendered ==
  ASSUME layout \in Layouts, Fitting
  PROVE  Pieces(Original(layout), AllEdits) = RenderedCells(Whole)
<1> DEFINE O == Original(layout)
           n == layout.size
           s == Pieces(O, AllEdits)
           d == RenderedCells(Whole)
<1>1. O \in Seq(Cells) /\ Len(O) = n /\ n \in Nat /\ \A k \in 1 .. n : O[k] = <<"source", k - 1>>
  BY OriginalIs
<1>2. Sound(AllEdits, n)
  BY KeptIs
<1> HIDE DEF O
<1>3. s \in Seq(Seq(Cells)) /\ Len(s) = n
  <2>1. Sound(AllEdits, Len(O))
    BY <1>1, <1>2
  <2> QED BY <1>1, <2>1, PiecesType
<1> HIDE DEF n
<1>4. d = [k \in 1 .. n |-> RenderedCell(k - 1)]
  <2>1. Whole.start = 0 /\ Whole.length = n
    BY DEF Whole, n
  <2>2. \A k \in 1 .. n : 0 + k - 1 = k - 1
    BY <1>1
  <2> QED BY <2>1, <2>2 DEF RenderedCells
<1>5. ASSUME NEW k \in 1 .. n PROVE s[k] = RenderedCell(k - 1)
  <2>1. Sound(AllEdits, Len(O)) /\ k \in 1 .. Len(O)
    BY <1>1, <1>2
  <2>2. /\ \A e \in AllEdits : Covers(e, k - 1) => s[k] = IF k = e.start + 1 THEN e.text ELSE <<>>
        /\ (\A e \in AllEdits : ~ Covers(e, k - 1)) => s[k] = <<O[k]>>
    BY <1>1, <2>1, PieceAt
  <2>3. k - 1 \in Nat
    BY <1>1
  <2>4. /\ \A e \in AllEdits : Covers(e, k - 1) =>
              RenderedCell(k - 1) = IF k - 1 = e.start THEN e.text ELSE <<>>
        /\ (\A e \in AllEdits : ~ Covers(e, k - 1)) => RenderedCell(k - 1) = <<<<"source", k - 1>>>>
    BY <2>3, RenderedCellIs
  <2> HIDE DEF s
  <2>5. CASE \E e \in AllEdits : Covers(e, k - 1)
    <3>1. PICK e \in AllEdits : Covers(e, k - 1)
      BY <2>5
    <3>2. e.start \in Nat
      BY <1>2 DEF Sound
    <3>3. k = e.start + 1 <=> k - 1 = e.start
      BY <1>1, <3>2
    <3> QED BY <2>2, <2>4, <3>1, <3>3
  <2>6. CASE \A e \in AllEdits : ~ Covers(e, k - 1)
    BY <1>1, <2>2, <2>4, <2>6
  <2> QED BY <2>5, <2>6
<1>6. s = [k \in 1 .. n |-> s[k]]
  BY <1>1, <1>3
<1> HIDE DEF s, d
<1>7. s = d
  BY <1>4, <1>5, <1>6
<1> QED BY <1>7 DEF s, d, O

\* All edits of a layout, made at once, render the whole of it.
LEMMA LoweredText ==
  ASSUME layout \in Layouts, Fitting
  PROVE  /\ RenderedCells(Whole) \in Seq(Seq(Cells)) /\ Len(RenderedCells(Whole)) = layout.size
         /\ ApplyEdits(Original(layout), AllEdits) = FlattenSeq(RenderedCells(Whole))
         /\ Rendered(Whole) = FlattenSeq(RenderedCells(Whole))
<1>1. Original(layout) \in Seq(Cells) /\ Len(Original(layout)) = layout.size
  BY OriginalIs
<1>2. Sound(AllEdits, Len(Original(layout)))
  BY <1>1, KeptIs
<1>3. /\ Pieces(Original(layout), AllEdits) \in Seq(Seq(Cells))
      /\ Len(Pieces(Original(layout), AllEdits)) = layout.size
  BY <1>1, <1>2, PiecesType
<1>4. ApplyEdits(Original(layout), AllEdits) = FlattenSeq(Pieces(Original(layout), AllEdits))
  BY <1>1, <1>2, AppliedAreFlat
<1>5. Rendered(Whole) = FlattenSeq(RenderedCells(Whole))
  BY Zenon DEF Rendered, RenderedCells
<1> QED BY <1>3, <1>4, <1>5, PiecesRendered

LEMMA EditsInvLowered == EditsInv => LoweredAsIntended
<1> SUFFICES ASSUME EditsInv, lowering = "lowered"
             PROVE  content = Rendered(Whole) \o <<AppendedDeclarations>>
  BY DEF LoweredAsIntended
<1>1. /\ layout \in Layouts
      /\ Fitting
      /\ content = ApplyEdits(Original(layout), AllEdits) \o <<AppendedDeclarations>>
  BY DEF EditsInv
<1> QED BY <1>1, LoweredText

\* A lowered source is the original with each construct replaced where it stood,
\* whatever the AST has where: no pass of compilePqabi cuts, loses or repeats what
\* another has written, though all use the offsets of the original.
THEOREM LoweredCorrect == EditsSpec => []LoweredAsIntended
<1>1. EditsInit => EditsInv
  BY EditsInvInit
<1>2. EditsInv /\ [EditsNext]_editVars => EditsInv'
  BY EditsInvStep
<1>3. EditsInv => LoweredAsIntended
  BY EditsInvLowered
<1> QED BY <1>1, <1>2, <1>3, PTL DEF EditsSpec

-----------------------------------------------------------------------------
(* Where the passes move what *)

\* g holds the sums of the first widths of w, up to n of them.
Sums(g, w, n) == g = [p \in 0 .. n |-> IF p = 0 THEN 0 ELSE g[p - 1] + w[p]]

LEMMA SumsExist ==
  ASSUME NEW n \in Nat, NEW w, \A p \in 1 .. n : w[p] \in Int
  PROVE  \E g \in [0 .. n -> Int] : Sums(g, w, n)
<1> DEFINE T == {m \in Nat : m <= n => \E g \in [0 .. m -> Int] : Sums(g, w, m)}
<1>1. 0 \in T
  <2> DEFINE g == [p \in 0 .. 0 |-> 0]
  <2>1. g \in [0 .. 0 -> Int] /\ Sums(g, w, 0)
    BY DEF Sums
  <2> QED BY <2>1
<1>2. ASSUME NEW m \in Nat, m \in T PROVE m + 1 \in T
  <2> SUFFICES ASSUME m + 1 <= n PROVE \E g \in [0 .. m + 1 -> Int] : Sums(g, w, m + 1)
    OBVIOUS
  <2>1. PICK g \in [0 .. m -> Int] : Sums(g, w, m)
    BY <1>2
  <2> DEFINE h == [p \in 0 .. m + 1 |-> IF p = m + 1 THEN g[m] + w[m + 1] ELSE g[p]]
  <2>2. g[m] + w[m + 1] \in Int
    BY <2>1
  <2>3. h \in [0 .. m + 1 -> Int]
    BY <2>2
  <2>4. ASSUME NEW p \in 0 .. m + 1
        PROVE  h[p] = IF p = 0 THEN 0 ELSE h[p - 1] + w[p]
    <3>1. CASE p = m + 1
      <4>1. h[p] = g[m] + w[p] /\ h[p - 1] = g[m] /\ p # 0
        BY <3>1
      <4> QED BY <4>1
    <3>2. CASE p \in 0 .. m
      <4>1. g[p] = IF p = 0 THEN 0 ELSE g[p - 1] + w[p]
        BY <2>1, <3>2, Zenon DEF Sums
      <4>2. h[p] = g[p] /\ (p # 0 => h[p - 1] = g[p - 1])
        BY <3>2
      <4> HIDE DEF h
      <4> QED BY <4>1, <4>2, Zenon
    <3> QED BY <3>1, <3>2
  <2> HIDE DEF h
  <2>5. Sums(h, w, m + 1)
    BY <2>3, <2>4 DEF Sums
  <2> QED BY <2>3, <2>5
<1> HIDE DEF T
<1>3. Nat \subseteq T
  BY <1>1, <1>2, Induction
<1>4. n <= n
  OBVIOUS
<1> QED BY <1>3, <1>4 DEF T

\* How much wider the edit that ends at p makes its text.
Widening(E, p) ==
    IF \E e \in E : e.start + e.length = p
    THEN Growth(CHOOSE e \in E : e.start + e.length = p)
    ELSE 0

\* What is widened at an offset is what the edit that ends there widens.
LEMMA OneEnds ==
  ASSUME NEW E, NEW n \in Nat, Sound(E, n), NEW e \in E, NEW p, e.start + e.length = p
  PROVE  Widening(E, p) = Len(e.text) - e.length
<1> DEFINE c == CHOOSE f \in E : f.start + f.length = p
<1>1. c \in E /\ c.start + c.length = p
  OBVIOUS
<1> HIDE DEF c
<1>2. ~ Apart(c, e)
  <2>1. /\ c.start \in Nat /\ c.length \in Nat /\ c.length > 0
        /\ e.start \in Nat /\ e.length \in Nat /\ e.length > 0
    BY <1>1 DEF Sound
  <2> QED BY <1>1, <2>1 DEF Apart
<1>3. c = e
  BY <1>1, <1>2 DEF Sound
<1>4. Widening(E, p) = Growth(c)
  <2>1. \E f \in E : f.start + f.length = p
    OBVIOUS
  <2> QED BY <2>1, Zenon DEF Widening, c
<1> QED BY <1>3, <1>4 DEF Growth

LEMMA WideningIs ==
  ASSUME NEW E, NEW n \in Nat, Sound(E, n), NEW p
  PROVE  /\ Widening(E, p) \in Int
         /\ (\A e \in E : e.start + e.length # p) => Widening(E, p) = 0
<1>1. CASE \E e \in E : e.start + e.length = p
  <2>1. PICK e \in E : e.start + e.length = p
    BY <1>1
  <2>2. Widening(E, p) = Len(e.text) - e.length
    BY <2>1, OneEnds
  <2>3. e.text \in Seq(Cells) /\ e.length \in Nat
    BY DEF Sound
  <2>4. Len(e.text) \in Nat
    BY <2>3
  <2>5. Len(e.text) - e.length \in Int
    BY <2>3, <2>4
  <2> QED BY <1>1, <2>2, <2>5
<1>2. CASE ~ \E e \in E : e.start + e.length = p
  <2>1. Widening(E, p) = 0
    BY <1>2, Zenon DEF Widening
  <2> QED BY <2>1
<1> QED BY <1>1, <1>2

\* Shift sums the widening of the edits that wait, up to an offset.
LEMMA ShiftIs ==
  ASSUME layout \in Layouts, Sound(longerNames, layout.size)
  PROVE  /\ Shift(0) = 0
         /\ \A p \in 0 .. layout.size : Shift(p) \in Int
         /\ \A p \in 1 .. layout.size : Shift(p) = Shift(p - 1) + Widening(longerNames, p)
<1> DEFINE n == layout.size
           w == [p \in 1 .. n |-> Widening(longerNames, p)]
           c == CHOOSE g : g = [p \in 0 .. layout.size |->
                    IF p = 0 THEN 0
                    ELSE g[p - 1] + IF \E e \in longerNames : e.start + e.length = p
                                    THEN Growth(CHOOSE e \in longerNames : e.start + e.length = p)
                                    ELSE 0]
<1>0. n \in Nat
  BY NamesAre
<1>1. \A p \in 1 .. n : w[p] \in Int
  BY <1>0, WideningIs
<1> HIDE DEF n
<1>2. PICK g \in [0 .. n -> Int] : Sums(g, w, n)
  <2> HIDE DEF w
  <2> QED BY <1>0, <1>1, SumsExist
<1>3. g = [p \in 0 .. n |-> IF p = 0 THEN 0 ELSE g[p - 1] + w[p]]
  BY <1>2, Zenon DEF Sums
<1>4. \A p \in 0 .. n : g[p] = IF p = 0 THEN 0 ELSE g[p - 1] + w[p]
  <2> HIDE DEF w
  <2> QED BY <1>3, Zenon
<1>5. \A p \in 0 .. n : p # 0 => w[p] = Widening(longerNames, p)
  BY <1>0
<1> HIDE DEF w
<1>6. \A p \in 0 .. n : g[p] = IF p = 0 THEN 0 ELSE g[p - 1] + Widening(longerNames, p)
  BY <1>4, <1>5, Zenon
<1>7. g = [p \in 0 .. layout.size |->
                    IF p = 0 THEN 0
                    ELSE g[p - 1] + IF \E e \in longerNames : e.start + e.length = p
                                    THEN Growth(CHOOSE e \in longerNames : e.start + e.length = p)
                                    ELSE 0]
  <2>1. g = [p \in 0 .. n |-> g[p]]
    OBVIOUS
  <2>2. g = [p \in 0 .. n |-> IF p = 0 THEN 0 ELSE g[p - 1] + Widening(longerNames, p)]
    BY <1>6, <2>1
  <2> QED BY <2>2, Zenon DEF Widening, n
<1>8. c = [p \in 0 .. layout.size |->
                    IF p = 0 THEN 0
                    ELSE c[p - 1] + IF \E e \in longerNames : e.start + e.length = p
                                    THEN Growth(CHOOSE e \in longerNames : e.start + e.length = p)
                                    ELSE 0]
  BY <1>7, Zenon
<1>9. \A p : Shift(p) = c[p]
  BY Zenon DEF Shift
<1> HIDE DEF c
<1>10. \A p \in 0 .. n : c[p] = IF p = 0 THEN 0 ELSE c[p - 1] + Widening(longerNames, p)
  BY <1>8, Zenon DEF Widening, n
<1>11. c[0] = 0
  BY <1>0, <1>10
<1>12. \A p \in 1 .. n : c[p] = c[p - 1] + Widening(longerNames, p)
  BY <1>0, <1>10
<1> DEFINE T == {m \in Nat : m <= n => c[m] \in Int}
<1>13. 0 \in T
  BY <1>11
<1>14. ASSUME NEW m \in Nat, m \in T PROVE m + 1 \in T
  <2> SUFFICES ASSUME m + 1 <= n PROVE c[m + 1] \in Int
    OBVIOUS
  <2>1. m + 1 \in 1 .. n /\ m + 1 - 1 = m /\ m <= n
    BY <1>0
  <2>2. c[m + 1] = c[m] + Widening(longerNames, m + 1)
    BY <1>12, <2>1
  <2>3. Widening(longerNames, m + 1) \in Int
    BY <1>0, WideningIs DEF n
  <2>4. c[m] \in Int
    BY <1>14, <2>1
  <2> QED BY <2>2, <2>3, <2>4
<1> HIDE DEF T
<1>15. Nat \subseteq T
  BY <1>13, <1>14, Induction
<1>16. \A p \in 0 .. n : c[p] \in Int
  BY <1>0, <1>15 DEF T
<1> QED BY <1>9, <1>11, <1>12, <1>16 DEF n

\* What the first cells of s spell.
UpTo(s, p) == FlattenSeq(SubSeq(s, 1, p))

LEMMA UpToIs ==
  ASSUME NEW s \in Seq(Seq(Cells)), NEW p \in Nat, p < Len(s)
  PROVE  /\ UpTo(s, 0) = <<>>
         /\ UpTo(s, p) \in Seq(Cells) /\ s[p + 1] \in Seq(Cells)
         /\ UpTo(s, p + 1) = UpTo(s, p) \o s[p + 1]
         /\ Len(UpTo(s, p + 1)) = Len(UpTo(s, p)) + Len(s[p + 1])
<1> DEFINE u == SubSeq(s, 1, p)
<1>1. /\ p + 1 \in 1 .. Len(s) /\ p + 1 - 1 = p
      /\ 1 \in 1 .. Len(s) /\ p + 1 \in 1 .. p + 1 /\ 1 \in 1 .. p + 1
  OBVIOUS
<1>2. SubSeq(s, 1, p + 1) = u \o <<s[p + 1]>>
  <2>1. SubSeq(s, 1, p + 1) = SubSeq(s, 1, p + 1 - 1) \o <<s[p + 1]>>
    BY <1>1, SubSeqRecursiveSecond
  <2> QED BY <1>1, <2>1
<1>3. u \in Seq(Seq(Cells)) /\ s[p + 1] \in Seq(Cells) /\ <<s[p + 1]>> \in Seq(Seq(Cells))
  BY <1>1
<1>4. SubSeq(s, 1, 0) = <<>>
  OBVIOUS
<1> HIDE DEF u
<1>5. FlattenSeq(u \o <<s[p + 1]>>) = FlattenSeq(u) \o FlattenSeq(<<s[p + 1]>>)
  BY <1>3, FlatConcat
<1>6. FlattenSeq(<<s[p + 1]>>) = s[p + 1]
  BY <1>3, FlatSingle
<1>7. FlattenSeq(u) \in Seq(Cells)
  BY <1>3, FlatType
<1>8. UpTo(s, p) = FlattenSeq(u) /\ UpTo(s, p + 1) = UpTo(s, p) \o s[p + 1] /\ UpTo(s, 0) = <<>>
  BY <1>2, <1>4, <1>5, <1>6, FlatEmpty DEF UpTo, u
<1>9. Len(UpTo(s, p) \o s[p + 1]) = Len(UpTo(s, p)) + Len(s[p + 1])
  <2> DEFINE a == UpTo(s, p)
             b == s[p + 1]
  <2>1. a \in Seq(Cells) /\ b \in Seq(Cells)
    BY <1>3, <1>7, <1>8
  <2> HIDE DEF a, b
  <2>2. Len(a \o b) = Len(a) + Len(b)
    BY <2>1
  <2> QED BY <2>2 DEF a, b
<1> QED BY <1>3, <1>7, <1>8, <1>9

\* An offset no edit straddles.
Clear(E, p) == \A e \in E : ~ (e.start < p /\ p < e.start + e.length)

\* The edits that widen are those that wait: any other keeps the width.
LEMMA WideningAtEnd ==
  ASSUME layout \in Layouts, Fitting, longerNames = NotIn(Waiting, Replacing), NEW e \in AllEdits
  PROVE  Widening(longerNames, e.start + e.length) = Len(e.text) - e.length
<1>1. /\ Sound(AllEdits, layout.size) /\ Sound(longerNames, layout.size) /\ layout.size \in Nat
      /\ KeepsWidth(Kept \cup PureEdits)
      /\ AllEdits = Kept \cup PureEdits \cup longerNames
  BY KeptIs, NamesAre
<1>2. CASE e \in longerNames
  BY <1>1, <1>2, OneEnds
<1>3. CASE e \notin longerNames
  <2>1. Len(e.text) = e.length /\ e.length \in Nat
    BY <1>1, <1>3 DEF KeepsWidth, Sound
  <2>2. ASSUME NEW f \in longerNames, f.start + f.length = e.start + e.length PROVE FALSE
    <3>1. f \in AllEdits /\ f # e
      BY <1>1, <1>3
    <3>2. Apart(f, e)
      BY <1>1, <3>1 DEF Sound
    <3>3. /\ f.start \in Nat /\ f.length \in Nat /\ f.length > 0
          /\ e.start \in Nat /\ e.length \in Nat /\ e.length > 0
      BY <1>1, <3>1 DEF Sound
    <3> QED BY <2>2, <3>2, <3>3 DEF Apart
  <2>3. Widening(longerNames, e.start + e.length) = 0
    BY <1>1, <2>2, WideningIs
  <2> QED BY <2>1, <2>3
<1> QED BY <1>2, <1>3

\* The cells before an offset no edit straddles spell Shift more than the offset.
LEMMA UpToWidth ==
  ASSUME layout \in Layouts, Fitting, longerNames = NotIn(Waiting, Replacing)
  PROVE  \A p \in 0 .. layout.size : Clear(AllEdits, p) =>
           Len(UpTo(RenderedCells(Whole), p)) = p + Shift(p)
<1> DEFINE n == layout.size
           s == RenderedCells(Whole)
           F(p) == Len(UpTo(s, p))
           AtRest(p) == Clear(AllEdits, p) => F(p) = p + Shift(p)
           Amid(p) == \A e \in AllEdits : e.start < p /\ p < e.start + e.length =>
                        F(p) = e.start + Shift(p) + Len(e.text)
           T == {p \in Nat : p <= n => AtRest(p) /\ Amid(p)}
<1>1. n \in Nat /\ s \in Seq(Seq(Cells)) /\ Len(s) = n
  BY NamesAre, LoweredText
<1>2. Sound(AllEdits, n) /\ Sound(longerNames, n) /\ longerNames \subseteq AllEdits
  BY KeptIs
<1>3. /\ Shift(0) = 0 /\ \A p \in 0 .. n : Shift(p) \in Int
      /\ \A p \in 1 .. n : Shift(p) = Shift(p - 1) + Widening(longerNames, p)
  BY <1>2, ShiftIs
<1>4. \A e \in AllEdits :
        /\ e.start \in Nat /\ e.length \in Nat /\ e.length > 0 /\ e.start + e.length <= n
        /\ e.text \in Seq(Cells) /\ Len(e.text) \in Nat
        /\ Widening(longerNames, e.start + e.length) = Len(e.text) - e.length
  <2> SUFFICES ASSUME NEW e \in AllEdits
               PROVE  /\ e.start \in Nat /\ e.length \in Nat
                      /\ e.length > 0 /\ e.start + e.length <= n
                      /\ e.text \in Seq(Cells) /\ Len(e.text) \in Nat
                      /\ Widening(longerNames, e.start + e.length) = Len(e.text) - e.length
    OBVIOUS
  <2>1. /\ e.start \in Nat /\ e.length \in Nat /\ e.length > 0 /\ e.start + e.length <= n
        /\ e.text \in Seq(Cells)
    BY <1>2 DEF Sound
  <2> QED BY <2>1, WideningAtEnd
<1>5. \A p \in 0 .. n - 1 : s[p + 1] = RenderedCell(p)
  <2>1. Whole.start = 0 /\ Whole.length = n
    BY DEF Whole
  <2>2. \A p \in 0 .. n - 1 : p + 1 \in 1 .. n /\ 0 + (p + 1) - 1 = p
    BY <1>1
  <2> QED BY <2>1, <2>2 DEF RenderedCells
<1> HIDE DEF n, s
<1>6. ASSUME NEW p \in 0 .. n - 1
      PROVE  /\ \A e \in AllEdits : Covers(e, p) => s[p + 1] = IF p = e.start THEN e.text ELSE <<>>
             /\ (\A e \in AllEdits : ~ Covers(e, p)) => Len(s[p + 1]) = 1
  <2>1. p \in Nat
    BY <1>1
  <2>2. /\ \A e \in AllEdits : Covers(e, p) => RenderedCell(p) = IF p = e.start THEN e.text ELSE <<>>
        /\ (\A e \in AllEdits : ~ Covers(e, p)) => RenderedCell(p) = <<<<"source", p>>>>
    BY <2>1, RenderedCellIs
  <2>3. Len(<<<<"source", p>>>>) = 1
    OBVIOUS
  <2> QED BY <1>5, <2>2, <2>3
<1>7. \A p \in 0 .. n - 1 : F(p) \in Nat /\ F(p + 1) = F(p) + Len(s[p + 1])
  <2> SUFFICES ASSUME NEW p \in 0 .. n - 1
               PROVE  F(p) \in Nat /\ F(p + 1) = F(p) + Len(s[p + 1])
    OBVIOUS
  <2>1. p \in Nat /\ p < Len(s)
    BY <1>1
  <2>2. UpTo(s, p) \in Seq(Cells) /\ Len(UpTo(s, p + 1)) = Len(UpTo(s, p)) + Len(s[p + 1])
    BY <1>1, <2>1, UpToIs
  <2> QED BY <2>2
<1>8. F(0) = 0
  <2>1. SubSeq(s, 1, 0) = <<>> /\ Len(<<>>) = 0
    BY <1>1
  <2> QED BY <2>1, FlatEmpty DEF UpTo
<1> HIDE DEF F
<1>9. 0 \in T
  <2>1. AtRest(0)
    BY <1>3, <1>8
  <2>2. Amid(0)
    BY <1>4
  <2> QED BY <2>1, <2>2
<1>10. ASSUME NEW p \in Nat, p \in T PROVE p + 1 \in T
  <2> SUFFICES ASSUME p + 1 <= n PROVE AtRest(p + 1) /\ Amid(p + 1)
    <3> HIDE DEF AtRest, Amid
    <3> QED OBVIOUS
  <2> DEFINE q == p + 1
  <2>1. /\ q \in 1 .. n /\ q \in Nat /\ p \in 0 .. n - 1 /\ p \in 0 .. n /\ q \in 0 .. n
        /\ q - 1 = p /\ p <= n
    BY <1>1
  <2>2. AtRest(p) /\ Amid(p)
    BY <1>10, <2>1
  <2>3. F(q) = F(p) + Len(s[q]) /\ F(p) \in Nat
    BY <1>7, <2>1
  <2>4. Shift(q) = Shift(p) + Widening(longerNames, q) /\ Shift(p) \in Int /\ Shift(q) \in Int
    BY <1>3, <2>1
  <2>5. /\ \A e \in AllEdits : Covers(e, p) => s[q] = IF p = e.start THEN e.text ELSE <<>>
        /\ (\A e \in AllEdits : ~ Covers(e, p)) => Len(s[q]) = 1
    BY <1>6, <2>1
  <2>6. q = p + 1
    OBVIOUS
  <2> HIDE DEF q, T
  <2>7. \A f \in AllEdits : f.start + f.length = q => Covers(f, p)
    BY <1>4, <2>6 DEF Covers
  <2>8. \A f \in AllEdits : f.start < q /\ q < f.start + f.length => Covers(f, p)
    BY <1>4, <2>6 DEF Covers
  <2>9. CASE \E e \in AllEdits : Covers(e, p)
    <3>1. PICK e \in AllEdits : Covers(e, p)
      BY <2>9
    <3>2. \A f \in AllEdits : Covers(f, p) => f = e
      BY <1>1, <1>2, <3>1, OneCovers
    <3>3. /\ e.start \in Nat /\ e.length \in Nat /\ e.text \in Seq(Cells) /\ Len(e.text) \in Nat
          /\ e.start <= p /\ p < e.start + e.length
      BY <1>4, <3>1 DEF Covers
    <3>4. F(q) = e.start + Shift(p) + Len(e.text)
      <4>1. CASE p = e.start
        <5>1. Clear(AllEdits, p)
          <6> SUFFICES ASSUME NEW f \in AllEdits, f.start < p, p < f.start + f.length PROVE FALSE
            BY DEF Clear
          <6>1. Covers(f, p)
            BY <1>4 DEF Covers
          <6>2. f = e
            BY <3>2, <6>1
          <6> QED BY <3>3, <4>1, <6>2
        <5>2. F(p) = p + Shift(p)
          BY <2>2, <5>1
        <5>3. s[q] = e.text
          BY <2>5, <3>1, <4>1
        <5> QED BY <2>3, <2>4, <3>3, <4>1, <5>2, <5>3
      <4>2. CASE p # e.start
        <5>1. e.start < p /\ p < e.start + e.length
          BY <3>3, <4>2
        <5>2. F(p) = e.start + Shift(p) + Len(e.text)
          BY <2>2, <5>1
        <5>3. s[q] = <<>> /\ Len(<<>>) = 0
          BY <2>5, <3>1, <4>2
        <5> QED BY <2>3, <2>4, <3>3, <5>2, <5>3
      <4> QED BY <4>1, <4>2
    <3>5. CASE e.start + e.length = q
      <4>1. Widening(longerNames, q) = Len(e.text) - e.length
        BY <1>4, <3>5
      <4>2. F(q) = q + Shift(q)
        BY <2>4, <3>3, <3>4, <3>5, <4>1
      <4>3. ASSUME NEW f \in AllEdits, f.start < q, q < f.start + f.length PROVE FALSE
        <5>1. f = e
          BY <2>8, <3>2, <4>3
        <5> QED BY <3>3, <3>5, <4>3, <5>1
      <4> QED BY <2>6, <4>2, <4>3
    <3>6. CASE e.start + e.length # q
      <4>1. \A f \in longerNames : f.start + f.length # q
        BY <1>2, <2>7, <3>2, <3>6
      <4>2. Widening(longerNames, q) = 0
        BY <1>1, <1>2, <4>1, WideningIs
      <4>3. Shift(q) = Shift(p)
        BY <2>4, <4>2
      <4>4. ASSUME Clear(AllEdits, q) PROVE FALSE
        <5>1. e.start < q /\ q < e.start + e.length
          BY <2>6, <3>3, <3>6
        <5> QED BY <4>4, <5>1 DEF Clear
      <4>5. ASSUME NEW f \in AllEdits, f.start < q, q < f.start + f.length
            PROVE  F(q) = f.start + Shift(q) + Len(f.text)
        <5>1. f = e
          BY <2>8, <3>2, <4>5
        <5> QED BY <3>4, <4>3, <5>1
      <4> QED BY <2>6, <4>4, <4>5
    <3> QED BY <3>5, <3>6
  <2>10. CASE \A e \in AllEdits : ~ Covers(e, p)
    <3>1. Clear(AllEdits, p)
      <4> SUFFICES ASSUME NEW f \in AllEdits, f.start < p, p < f.start + f.length PROVE FALSE
        BY DEF Clear
      <4>1. Covers(f, p)
        BY <1>4 DEF Covers
      <4> QED BY <2>10, <4>1
    <3>2. F(p) = p + Shift(p) /\ Len(s[q]) = 1
      BY <2>2, <2>5, <2>10, <3>1
    <3>3. \A f \in longerNames : f.start + f.length # q
      BY <1>2, <2>7, <2>10
    <3>4. Widening(longerNames, q) = 0
      BY <1>1, <1>2, <3>3, WideningIs
    <3>5. F(q) = q + Shift(q)
      BY <2>3, <2>4, <2>6, <3>2, <3>4
    <3>6. \A f \in AllEdits : ~ (f.start < q /\ q < f.start + f.length)
      BY <2>8, <2>10
    <3> QED BY <2>6, <3>5, <3>6
  <2> QED BY <2>9, <2>10
<1> HIDE DEF T, AtRest, Amid
<1>11. Nat \subseteq T
  BY <1>9, <1>10, Induction
<1>12. \A p \in 0 .. n : AtRest(p)
  BY <1>1, <1>11 DEF T
<1> QED BY <1>12 DEF AtRest, F, n, s

\* The part of a text between two others.
LEMMA Middle ==
  ASSUME NEW x \in Seq(Cells), NEW y \in Seq(Cells), NEW z \in Seq(Cells)
  PROVE  SubSeq((x \o y) \o z, Len(x) + 1, Len(x) + Len(y)) = y
<1> DEFINE a == Len(x)
           b == Len(y)
           u == x \o y
           v == u \o z
           m == SubSeq(v, a + 1, a + b)
<1>1. a \in Nat /\ b \in Nat /\ \A i \in 1 .. b : y[i] \in Cells
  OBVIOUS
<1>2. u \in Seq(Cells) /\ Len(u) = a + b /\ \A i \in 1 .. b : u[a + i] = y[i]
  OBVIOUS
<1> HIDE DEF u, a, b
<1>3. Len(u) \in Nat
  BY <1>1, <1>2
<1>4. v \in Seq(Cells) /\ Len(v) = Len(u) + Len(z) /\ \A i \in 1 .. Len(u) : v[i] = u[i]
  <2>1. u \in Seq(Cells)
    BY <1>2
  <2> QED BY <2>1
<1> HIDE DEF v
<1>5. \A i \in 1 .. b : a + i \in 1 .. a + b
  BY <1>1
<1>6. \A i \in 1 .. b : v[a + i] = y[i]
  BY <1>2, <1>4, <1>5
<1>7. \A i \in a + 1 .. a + b : v[i] \in Cells
  <2> SUFFICES ASSUME NEW i \in a + 1 .. a + b PROVE v[i] \in Cells
    OBVIOUS
  <2>1. i - a \in 1 .. b /\ a + (i - a) = i
    BY <1>1
  <2> QED BY <1>1, <1>6, <2>1
<1>8. /\ m \in Seq(Cells)
      /\ Len(m) = IF a + 1 <= a + b THEN a + b - (a + 1) + 1 ELSE 0
      /\ \A i \in 1 .. a + b - (a + 1) + 1 : m[i] = v[a + 1 + i - 1]
  BY <1>1, <1>7, SubSeqProperties
<1> HIDE DEF m
<1>9. a + b - (a + 1) + 1 = b /\ (a + 1 <= a + b \/ b = 0)
  BY <1>1
<1>10. \A i \in 1 .. b : a + 1 + i - 1 = a + i
  BY <1>1
<1>11. Len(m) = b /\ \A i \in 1 .. b : m[i] = y[i]
  BY <1>6, <1>8, <1>9, <1>10
<1>12. m = y
  BY <1>8, <1>11, SeqEqual DEF b
<1> QED BY <1>12 DEF m, v, u, a, b

\* A text of pieces is what is before a range, in it, and after it.
LEMMA Cut ==
  ASSUME NEW s \in Seq(Seq(Cells)), NEW a \in Nat, NEW b \in Nat, a <= b, b <= Len(s),
         NEW c \in Seq(Seq(Cells)), Len(c) = b - a, \A k \in 1 .. b - a : c[k] = s[a + k]
  PROVE  \E z \in Seq(Cells) :
           /\ UpTo(s, b) = UpTo(s, a) \o FlattenSeq(c)
           /\ FlattenSeq(s) = UpTo(s, b) \o z
           /\ UpTo(s, a) \in Seq(Cells) /\ FlattenSeq(c) \in Seq(Cells) /\ UpTo(s, b) \in Seq(Cells)
<1> DEFINE n == Len(s)
           x == SubSeq(s, 1, a)
           y == SubSeq(s, a + 1, b)
           w == SubSeq(s, b + 1, n)
           z == FlattenSeq(w)
<1>1. n \in Nat /\ b <= n
  OBVIOUS
<1>2. x \in Seq(Seq(Cells)) /\ SubSeq(s, 1, b) \in Seq(Seq(Cells)) /\ w \in Seq(Seq(Cells))
  <2> HIDE DEF n
  <2>1. \A i \in 1 .. n : s[i] \in Seq(Cells)
    BY DEF n
  <2>2. \A i \in b + 1 .. n : s[i] \in Seq(Cells)
    BY <1>1, <2>1
  <2>3. w \in Seq(Seq(Cells))
    BY <1>1, <2>2, SubSeqProperties
  <2>4. x \in Seq(Seq(Cells)) /\ SubSeq(s, 1, b) \in Seq(Seq(Cells))
    OBVIOUS
  <2> QED BY <2>3, <2>4
<1>3. SubSeq(s, 1, b) = x \o y
  <2>1. /\ 1 \in 1 .. Len(s) + 1 /\ a \in 1 - 1 .. Len(s) /\ b \in a .. Len(s)
        /\ s \in Seq(Seq(Cells))
    OBVIOUS
  <2> HIDE DEF n, w, z
  <2> QED BY <2>1, ConcatAdjacentSubSeq
<1>4. s = SubSeq(s, 1, b) \o w
  <2>1. 1 \in 1 .. Len(s) + 1 /\ b \in 1 - 1 .. Len(s) /\ Len(s) \in b .. Len(s)
    OBVIOUS
  <2>2. SubSeq(s, 1, b) \o SubSeq(s, b + 1, Len(s)) = SubSeq(s, 1, Len(s))
    BY <2>1, ConcatAdjacentSubSeq
  <2>3. SubSeq(s, 1, Len(s)) = s
    OBVIOUS
  <2> QED BY <2>2, <2>3
<1>5. y = c
  <2>1. \A i \in a + 1 .. b : s[i] \in Seq(Cells)
    OBVIOUS
  <2>2. /\ y \in Seq(Seq(Cells))
        /\ Len(y) = IF a + 1 <= b THEN b - (a + 1) + 1 ELSE 0
        /\ \A i \in 1 .. b - (a + 1) + 1 : y[i] = s[a + 1 + i - 1]
    BY <2>1, SubSeqProperties
  <2> HIDE DEF y
  <2>3. b - (a + 1) + 1 = b - a /\ (a + 1 <= b \/ b - a = 0)
    OBVIOUS
  <2>4. \A i \in 1 .. b - a : a + 1 + i - 1 = a + i
    OBVIOUS
  <2>5. Len(y) = Len(c) /\ \A i \in 1 .. Len(y) : y[i] = c[i]
    BY <2>2, <2>3, <2>4
  <2> QED BY <2>2, <2>5, SeqEqual
<1> HIDE DEF x, y, w, n
<1>6. FlattenSeq(x \o c) = FlattenSeq(x) \o FlattenSeq(c)
  BY <1>2, FlatConcat
<1>7. FlattenSeq(s) = FlattenSeq(SubSeq(s, 1, b)) \o FlattenSeq(w)
  <2> DEFINE u == SubSeq(s, 1, b)
  <2>1. u \in Seq(Seq(Cells)) /\ s = u \o w
    BY <1>2, <1>4
  <2> HIDE DEF u
  <2>2. FlattenSeq(u \o w) = FlattenSeq(u) \o FlattenSeq(w)
    BY <1>2, <2>1, FlatConcat
  <2> QED BY <2>1, <2>2 DEF u
<1>8. /\ FlattenSeq(x) \in Seq(Cells) /\ FlattenSeq(c) \in Seq(Cells)
      /\ FlattenSeq(w) \in Seq(Cells) /\ UpTo(s, b) \in Seq(Cells)
  <2>1. FlattenSeq(SubSeq(s, 1, b)) \in Seq(Cells)
    BY <1>2, FlatType
  <2> QED BY <1>2, <2>1, FlatType DEF UpTo
<1> QED BY <1>3, <1>5, <1>6, <1>7, <1>8 DEF UpTo, x

LEMMA EditsInvPaired == EditsInv => DeclarationsPaired
<1> SUFFICES ASSUME EditsInv, lowering = "lowered", NEW r \in Ranges(layout.size),
                    \A x \in layout.names \cup layout.expressions : Apart(r, x) \/ Within(x, r)
             PROVE  SubSeq(content, SourceLocation(r).start + 1,
                           SourceLocation(r).start + SourceLocation(r).length) = Rendered(r)
  BY Zenon DEF DeclarationsPaired
<1> DEFINE n == layout.size
           s == RenderedCells(Whole)
           c == RenderedCells(r)
           a == r.start
           b == r.start + r.length
           L == SourceLocation(r)
<1>1. /\ layout \in Layouts /\ Fitting /\ longerNames = NotIn(Waiting, Replacing)
      /\ content = ApplyEdits(Original(layout), AllEdits) \o <<AppendedDeclarations>>
  BY DEF EditsInv
<1>2. /\ n \in Nat /\ s \in Seq(Seq(Cells)) /\ Len(s) = n
      /\ content = FlattenSeq(s) \o <<AppendedDeclarations>>
  BY <1>1, NamesAre, LoweredText
<1>3. r.length \in Nat /\ a \in Nat /\ b \in Nat /\ a <= b /\ b <= n /\ b - a = r.length
  BY <1>2 DEF Ranges
<1>4. /\ \A k \in 1 .. n : s[k] = RenderedCell(k - 1)
      /\ c = [k \in 1 .. r.length |-> RenderedCell(a + k - 1)]
  <2>1. Whole.start = 0 /\ Whole.length = n
    BY DEF Whole
  <2>2. \A k \in 1 .. n : 0 + k - 1 = k - 1
    BY <1>2
  <2> QED BY <2>1, <2>2 DEF RenderedCells
<1>5. \A e \in AllEdits : /\ e.start \in Nat /\ e.length \in Nat
                     /\ \/ e.length = 1
                        \/ \E x \in layout.names \cup layout.expressions :
                             e.start = x.start /\ e.length = x.length
  <2> SUFFICES ASSUME NEW e \in AllEdits
               PROVE  /\ e.start \in Nat /\ e.length \in Nat
                      /\ \/ e.length = 1
                         \/ \E x \in layout.names \cup layout.expressions :
                              e.start = x.start /\ e.length = x.length
    OBVIOUS
  <2>1. e.start \in Nat /\ e.length \in Nat
    BY <1>1, KeptIs DEF Sound
  <2>2. e \in NameEdits \/ e \in CallEdits \/ e \in AddressEdits \/ e \in PureEdits
    BY DEF AllEdits, NotIn, Replacing
  <2>3. CASE e \in NameEdits
    BY <2>1, <2>3 DEF NameEdits, NameEdit
  <2>4. CASE e \in CallEdits
    BY <2>1, <2>4 DEF CallEdits
  <2>5. CASE e \in AddressEdits \/ e \in PureEdits
    BY <1>1, <2>1, <2>5, WordEdits
  <2> QED BY <2>2, <2>3, <2>4, <2>5
<1> HIDE DEF a, b
<1>6. Clear(AllEdits, a) /\ Clear(AllEdits, b)
  <2> SUFFICES ASSUME NEW e \in AllEdits
               PROVE  /\ ~ (e.start < a /\ a < e.start + e.length)
                      /\ ~ (e.start < b /\ b < e.start + e.length)
    BY DEF Clear
  <2>1. CASE e.length = 1
    BY <1>3, <1>5, <2>1
  <2>2. CASE \E x \in layout.names \cup layout.expressions :
               e.start = x.start /\ e.length = x.length
    <3>1. PICK x \in layout.names \cup layout.expressions :
                 e.start = x.start /\ e.length = x.length
      BY <2>2
    <3>2. Apart(r, x) \/ Within(x, r)
      OBVIOUS
    <3>3. e.start \in Nat /\ e.length \in Nat
      BY <1>5
    <3>4. \/ b <= e.start \/ e.start + e.length <= a
          \/ e.start >= a /\ e.start + e.length <= b
      BY <3>1, <3>2 DEF Apart, Within, a, b
    <3> QED BY <1>3, <3>3, <3>4
  <2> QED BY <1>5, <2>1, <2>2
<1> HIDE DEF s, c, n
<1>7. c \in Seq(Seq(Cells)) /\ Len(c) = b - a /\ \A k \in 1 .. b - a : c[k] = s[a + k]
  <2>1. \A k \in 1 .. b - a : a + k \in 1 .. n /\ s[a + k] \in Seq(Cells)
    <3>1. \A k \in 1 .. b - a : a + k \in 1 .. n
      BY <1>2, <1>3
    <3> QED BY <1>2, <3>1
  <2>2. \A k \in 1 .. b - a : c[k] = s[a + k]
    <3> SUFFICES ASSUME NEW k \in 1 .. b - a PROVE c[k] = s[a + k]
      OBVIOUS
    <3>1. c[k] = RenderedCell(a + k - 1)
      BY <1>3, <1>4
    <3> DEFINE l == a + k
    <3>2. l \in 1 .. n /\ l - 1 = a + k - 1
      BY <1>2, <1>3, <2>1
    <3>3. s[l] = RenderedCell(l - 1)
      BY <1>4, <3>2
    <3> QED BY <3>1, <3>2, <3>3
  <2>3. c \in [1 .. b - a -> Seq(Cells)]
    <3>1. c = [k \in 1 .. b - a |-> c[k]]
      BY <1>3, <1>4
    <3>2. \A k \in 1 .. b - a : c[k] \in Seq(Cells)
      BY <2>1, <2>2
    <3> QED BY <3>1, <3>2
  <2>4. b - a \in Nat
    BY <1>3
  <2>5. c \in Seq(Seq(Cells)) /\ Len(c) = b - a
    <3> DEFINE l == b - a
    <3>1. l \in Nat /\ c \in [1 .. l -> Seq(Cells)]
      BY <2>3, <2>4
    <3> HIDE DEF l
    <3>2. c \in Seq(Seq(Cells)) /\ Len(c) = l
      BY <3>1
    <3> QED BY <3>2 DEF l
  <2> QED BY <2>2, <2>5
<1>8. PICK z \in Seq(Cells) :
           /\ UpTo(s, b) = UpTo(s, a) \o FlattenSeq(c)
           /\ FlattenSeq(s) = UpTo(s, b) \o z
           /\ UpTo(s, a) \in Seq(Cells) /\ FlattenSeq(c) \in Seq(Cells) /\ UpTo(s, b) \in Seq(Cells)
  BY <1>2, <1>3, <1>7, Cut
<1>9. Len(UpTo(s, a)) = a + Shift(a) /\ Len(UpTo(s, b)) = b + Shift(b)
  <2>1. a \in 0 .. n /\ b \in 0 .. n
    BY <1>2, <1>3
  <2> QED BY <1>1, <1>6, <2>1, UpToWidth DEF s, n
<1> DEFINE x == UpTo(s, a)
           y == FlattenSeq(c)
           e == z \o <<AppendedDeclarations>>
<1>10. x \in Seq(Cells) /\ y \in Seq(Cells) /\ e \in Seq(Cells) /\ Len(x) \in Nat /\ Len(y) \in Nat
  <2>1. <<AppendedDeclarations>> \in Seq(Cells)
    BY CellsAre
  <2>2. x \in Seq(Cells) /\ y \in Seq(Cells)
    BY <1>8
  <2>3. e \in Seq(Cells)
    BY <2>1
  <2> HIDE DEF x, y, e
  <2> QED BY <2>2, <2>3
<1>11. content = (x \o y) \o e
  <2>1. ((x \o y) \o z) \o <<AppendedDeclarations>> = (x \o y) \o e
    <3> DEFINE v == x \o y
               d == <<AppendedDeclarations>>
    <3>1. v \in Seq(Cells) /\ d \in Seq(Cells)
      BY <1>8, <1>10, CellsAre
    <3> HIDE DEF v, d
    <3>2. (v \o z) \o d = v \o (z \o d)
      BY <3>1, Associative
    <3> QED BY <3>2 DEF v, d
  <2> QED BY <1>2, <1>8, <2>1
<1>12. Len(x) = a + Shift(a) /\ Len(x) + Len(y) = b + Shift(b)
  <2>1. Len(UpTo(s, b)) = Len(x) + Len(y)
    <3>1. UpTo(s, b) = x \o y
      BY <1>8
    <3> HIDE DEF x, y
    <3> QED BY <1>10, <3>1
  <2> QED BY <1>9, <2>1
<1>13. L.start = a + Shift(a) /\ L.length = b + Shift(b) - L.start
  <2>1. L = [start |-> r.start + Shift(r.start),
             length |-> r.start + r.length + Shift(r.start + r.length) - (r.start + Shift(r.start))]
    BY Zenon DEF SourceLocation
  <2> HIDE DEF L
  <2>2. L.start = r.start + Shift(r.start)
    BY <2>1
  <2>3. L.length = r.start + r.length + Shift(r.start + r.length) - (r.start + Shift(r.start))
    BY <2>1
  <2> QED BY <2>2, <2>3, Zenon DEF a, b
<1> HIDE DEF x, y, e, L
<1>14. L.start = Len(x) /\ L.start + L.length = Len(x) + Len(y)
  <2>1. Shift(a) \in Int /\ Shift(b) \in Int
    <3>1. a \in 0 .. n /\ b \in 0 .. n
      BY <1>2, <1>3
    <3>2. Sound(longerNames, layout.size)
      BY <1>1, KeptIs
    <3> QED BY <1>1, <3>1, <3>2, ShiftIs DEF n
  <2> DEFINE i == L.start
             p == Shift(b)
             l == L.length
  <2>2. i = Len(x) /\ b + p = Len(x) + Len(y) /\ l = b + p - i /\ p \in Int
    BY <1>12, <1>13, <2>1
  <2> HIDE DEF i, p, l
  <2>3. i + l = Len(x) + Len(y)
    BY <1>3, <1>10, <2>2
  <2> QED BY <2>2, <2>3 DEF i, l
<1>15. SubSeq(content, L.start + 1, L.start + L.length) = y
  BY <1>10, <1>11, <1>14, Middle
<1>16. Rendered(r) = y
  BY Zenon DEF Rendered, RenderedCells, c, y
<1> QED BY <1>15, <1>16 DEF L

\* The translated range of a declaration (sourceLocation) holds just what the
\* declaration became, whatever became longer before it or inside it.
THEOREM PairedCorrect == EditsSpec => []DeclarationsPaired
<1>1. EditsInit => EditsInv
  BY EditsInvInit
<1>2. EditsInv /\ [EditsNext]_editVars => EditsInv'
  BY EditsInvStep
<1>3. EditsInv => DeclarationsPaired
  BY EditsInvPaired
<1> QED BY <1>1, <1>2, <1>3, PTL DEF EditsSpec

LEMMA EditsInvTyped == EditsInv => EditsTypeOK
<1> DEFINE O == Original(layout)
           D == <<AppendedDeclarations>>
<1> SUFFICES ASSUME EditsInv PROVE EditsTypeOK
  OBVIOUS
<1>1. layout \in Layouts /\ layout.size \in Nat
  BY NamesAre DEF EditsInv
<1>2. O \in Seq(Cells) /\ Len(O) = layout.size /\ Sound(Aliased, Len(O)) /\ KeepsWidth(Aliased)
  BY <1>1, OriginalIs, NamesSound
<1> HIDE DEF O
<1>3. Overwritten(O, Aliased) \in Seq(Cells) /\ Len(Overwritten(O, Aliased)) = layout.size
  BY <1>2, OverwrittenType
<1>4. \A t \in Seq(Cells) : t \o D \in Seq(Cells) /\ Len(t \o D) = Len(t) + 1
  BY CellsAre
<1> HIDE DEF D
<1>5. ASSUME Fitting
      PROVE  /\ Sound(Kept, Len(O)) /\ KeepsWidth(Kept)
             /\ Sound(Kept \cup PureEdits, Len(O)) /\ KeepsWidth(Kept \cup PureEdits)
             /\ ApplyEdits(O, AllEdits) \in Seq(Cells)
  <2>1. /\ RenderedCells(Whole) \in Seq(Seq(Cells))
        /\ ApplyEdits(O, AllEdits) = FlattenSeq(RenderedCells(Whole))
    BY <1>1, <1>5, LoweredText DEF O
  <2>2. FlattenSeq(RenderedCells(Whole)) \in Seq(Cells)
    BY <2>1, FlatType
  <2> QED BY <1>1, <1>2, <1>5, <2>1, <2>2, KeptIs
<1>6. ASSUME Fitting
      PROVE  /\ Overwritten(O, Kept) \in Seq(Cells) /\ Len(Overwritten(O, Kept)) = layout.size
             /\ Overwritten(O, Kept \cup PureEdits) \in Seq(Cells)
             /\ Len(Overwritten(O, Kept \cup PureEdits)) = layout.size
  BY <1>2, <1>5, <1>6, OverwrittenType
<1>7. Waiting \subseteq NameEdits /\ NotIn(Waiting, Replacing) \subseteq NameEdits
  BY DEF Waiting, NotIn
<1>8. CASE lowering \in {"alias", "replace", "refused"}
  BY <1>1, <1>2, <1>3, <1>7, <1>8 DEF EditsInv, EditsTypeOK, NameEdits, O
<1>9. CASE lowering = "pure"
  <2>1. Fitting /\ content = Overwritten(O, Kept) \o D /\ longerNames = NotIn(Waiting, Replacing)
    BY <1>9 DEF EditsInv, O, D
  <2>2. content \in Seq(Cells) /\ Len(content) = layout.size + 1
    BY <1>4, <1>6, <2>1
  <2> QED BY <1>1, <1>7, <1>9, <2>1, <2>2 DEF EditsTypeOK, NameEdits
<1>10. CASE lowering = "lengthen"
  <2>1. /\ Fitting
        /\ content = Overwritten(O, Kept \cup PureEdits) \o D
        /\ longerNames = NotIn(Waiting, Replacing)
    BY <1>10 DEF EditsInv, O, D
  <2>2. content \in Seq(Cells) /\ Len(content) = layout.size + 1
    BY <1>4, <1>6, <2>1
  <2> QED BY <1>1, <1>7, <1>10, <2>1, <2>2 DEF EditsTypeOK, NameEdits
<1>11. CASE lowering = "lowered"
  <2>1. Fitting /\ content = ApplyEdits(O, AllEdits) \o D /\ longerNames = NotIn(Waiting, Replacing)
    BY <1>11 DEF EditsInv, O, D
  <2>2. content \in Seq(Cells)
    BY <1>4, <1>5, <2>1
  <2> QED BY <1>1, <1>7, <1>11, <2>1, <2>2 DEF EditsTypeOK, NameEdits
<1>12. lowering \in {"alias", "replace", "refused", "pure", "lengthen", "lowered"}
  BY DEF EditsInv
<1> QED BY <1>8, <1>9, <1>10, <1>11, <1>12

\* Every pass keeps types, and the text as wide as the original until the last one,
\* which the offsets of the passes in compilePqabi rely on.
THEOREM EditsTypeCorrect == EditsSpec => []EditsTypeOK
<1>1. EditsInit => EditsInv
  BY EditsInvInit
<1>2. EditsInv /\ [EditsNext]_editVars => EditsInv'
  BY EditsInvStep
<1>3. EditsInv => EditsTypeOK
  BY EditsInvTyped
<1> QED BY <1>1, <1>2, <1>3, PTL DEF EditsSpec

=============================================================================
