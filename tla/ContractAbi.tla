----------------------------- MODULE ContractAbi -----------------------------
(* Calls of a contract through its ABI (src/src/contracts.ts): the function  *)
(* is found by name or canonical signature, the arguments are encoded, the   *)
(* contract runs what the selector says, and its answer is decoded.  An      *)
(* address of Shell fills a 32-byte word, while the ABI keeps saying         *)
(* "address": wherever one occurs, however deep, the types handed to viem    *)
(* say bytes32 instead, and everything else goes to viem as it is.           *)
(*                                                                           *)
(* viem and the contract are external.  viem encodes what fits the types it  *)
(* is given, and its "address" has 20 bytes: it refuses a longer one, and    *)
(* cuts one down when it decodes.  Encoded values keep their nesting; a      *)
(* selector is the signature it hashes, with the types of the ABI.  Numbers  *)
(* are given where numbers are due, as the types of the options demand.      *)
EXTENDS Integers, FiniteSets, SequencesExt

CONSTANTS
    Interfaces,     \* ABIs: sequences of entries
    Addresses,
    MaxNesting,     \* bound: levels of a type
    MaxItems,       \* bound: items of an array
    Unset           \* not encoded, not answered, not decoded

ASSUME NestingAssumption == MaxNesting \in Nat

\* Types are trees: the component of an array is the type of its items, since the
\* code takes brackets off one by one; a tuple has those of its fields.
Atomic == {"address", "bytes32", "uint256"}
Type(base, components) == [base |-> base, components |-> components]

TypesFrom(parts) ==
    {p \in [base : Atomic \cup {"array", "tuple"}, components : Seq(parts)] :
        /\ p.base \in Atomic => p.components = <<>>
        /\ p.base = "array" => Len(p.components) = 1}

TypesOf[n \in 0 .. MaxNesting] == IF n = 0 THEN {} ELSE TypesFrom(TypesOf[n - 1])

Types == TypesOf[MaxNesting]

\* The entries of an ABI; a contract has one constructor at most.
Entries == [type : STRING, name : STRING, inputs : Seq(Types), outputs : Seq(Types)]

ASSUME InterfaceAssumption ==
    \A a \in Interfaces :
        /\ a \in Seq(Entries)
        /\ \A i, j \in DOMAIN a : a[i].type = "constructor" /\ a[j].type = "constructor" => i = j

ASSUME UnsetAssumption == Unset \notin Seq(Types)

VARIABLES
    abi, call,      \* what the caller uses, and what it asks for
    callStage,      \* "asked", "sent", "answered", "done", "refused" or "unread"
    data,           \* the encoded call
    ran,            \* the contract: the entry that ran, and its arguments
    answered,       \* what it returned
    result          \* what the caller gets

abiVars == <<abi, call, callStage, data, ran, answered, result>>

-----------------------------------------------------------------------------
(* Values *)

\* An address of 32 bytes in lower or mixed case, one of 20, a number, and lists
\* for arrays and tuples.
Word(a, letters) == [is |-> "word", of |-> a, letters |-> letters]
Short(a) == [is |-> "short", of |-> a]
Number == [is |-> "number"]
List(items) == [is |-> "list", items |-> items]

\* A list with one item from each of the sets, and an array of any items of one.
Products(sets) ==
    {s \in [DOMAIN sets -> UNION Range(sets)] : \A i \in DOMAIN sets : s[i] \in sets[i]}
Sequences(set) == UNION {[1 .. n -> set] : n \in 0 .. MaxItems}

\* The values of a type, given those of atomic types.
Values(atoms) ==
    LET of[p \in Types] ==
            LET parts == [i \in DOMAIN p.components |-> of[p.components[i]]]
            IN  IF p.base = "array" THEN {List(s) : s \in Sequences(parts[1])}
                ELSE IF p.base = "tuple" THEN {List(s) : s \in Products(parts)}
                ELSE atoms[p.base]
    IN  of

\* change for the atoms of a value, its lists as they are.
Mapped(atoms, change) ==
    LET of[p \in Types] ==
            LET parts == [i \in DOMAIN p.components |-> of[p.components[i]]]
            IN  [v \in Values(atoms)[p] |->
                    IF p.base \in Atomic THEN change[p.base][v]
                    ELSE List([i \in DOMAIN v.items |->
                                 parts[IF p.base = "array" THEN 1 ELSE i][v.items[i]]])]
    IN  of

Tuples(ps, atoms) == Products([i \in DOMAIN ps |-> Values(atoms)[ps[i]]])

\* Atoms as three parties know them: on the wire, in Shell, and in viem.
Words(letters) == {Word(a, l) : a \in Addresses, l \in letters}
Shorts == {Short(a) : a \in Addresses}
Known(addresses, words) == [address |-> addresses, bytes32 |-> words, uint256 |-> {Number}]

OnWire == Known(Words({"lower"}), Words({"lower"}))
Proper == Known(Words({"lower", "mixed"}), Words({"lower", "mixed"}))
ForViem == Known(Shorts, Words({"lower", "mixed"}))

\* What callers write: addresses may be wrong.
Written == Known(Words({"lower", "mixed"}) \cup Shorts \cup {Number}, Words({"lower", "mixed"}))

-----------------------------------------------------------------------------
(* viem *)

\* Bytes have no letters.
Lowered(atoms) ==
    [b \in Atomic |-> [v \in atoms[b] |-> IF v.is = "word" THEN Word(v.of, "lower") ELSE v]]

\* An address of viem is the last 20 bytes of a word.
Cut == [b \in Atomic |-> [v \in OnWire[b] |-> IF b = "address" THEN Short(v.of) ELSE v]]

Encoded(p, v) == Mapped(ForViem, Lowered(ForViem))[p][v]

Decoded(p, v) == Mapped(OnWire, Cut)[p][v]

-----------------------------------------------------------------------------
(* Types and values of Shell *)

TransformShellAddressParameter[p \in Types] ==
    Type(IF p.base = "address" THEN "bytes32" ELSE p.base,
         [i \in DOMAIN p.components |-> TransformShellAddressParameter[p.components[i]]])

Transformed(ps) == [i \in DOMAIN ps |-> TransformShellAddressParameter[ps[i]]]

HasShellAddress[p \in Types] ==
    p.base = "address" \/ \E i \in DOMAIN p.components : HasShellAddress[p.components[i]]

HasShellAddressParameter(ps) == \E i \in DOMAIN ps : HasShellAddress[ps[i]]

\* Deliberate fault: tuples and arrays are not looked into.
TopTypesForViem(ps) ==
    IF \E i \in DOMAIN ps : ps[i].base = "address" THEN Transformed(ps) ELSE ps

TypesForViem(ps) == IF HasShellAddressParameter(ps) THEN Transformed(ps) ELSE ps

\* encodeShellAddressArgs, or viem alone.  transformShellAddressValue checks
\* addresses and arrays of them, down to the words, which viem checks again;
\* what is inside a tuple is left to viem.
Accepted(ps, values) ==
    /\ Len(values) = Len(ps)
    /\ \A i \in DOMAIN ps : values[i] \in Values(ForViem)[TypesForViem(ps)[i]]

Data(selector, ps, values) ==
    [selector |-> selector,
     args |-> [i \in DOMAIN values |-> Encoded(TypesForViem(ps)[i], values[i])]]

-----------------------------------------------------------------------------
(* Finding functions *)

\* functionName is a signature, or a name alone.
Signature(entry) == <<entry.name, entry.inputs>>
Name(entry) == <<entry.name, Unset>>

Functions == {i \in DOMAIN abi : abi[i].type = "function"}

AnyCount == -1

Suits(i, functionName, argCount) ==
    /\ functionName \in {Name(abi[i]), Signature(abi[i])}
    /\ argCount \in {AnyCount, Len(abi[i].inputs)}

\* Deliberate fault: of several functions the first is taken.
FirstSuiting(functionName, argCount) ==
    {i \in Functions : /\ Suits(i, functionName, argCount)
                       /\ \A j \in Functions : Suits(j, functionName, argCount) => i <= j}

Suiting(functionName, argCount) ==
    {i \in Functions : Suits(i, functionName, argCount)}

\* findFunctionAbi throws unless there is just one.
FindFunctionAbi(functionName, argCount) ==
    IF Cardinality(Suiting(functionName, argCount)) = 1
    THEN Suiting(functionName, argCount) ELSE {}

-----------------------------------------------------------------------------

EndCall(stage) == callStage' = stage /\ UNCHANGED <<abi, call, data, ran, answered, result>>

SendCall(encoded) ==
    /\ data' = encoded
    /\ callStage' = "sent"
    /\ UNCHANGED <<abi, call, ran, answered, result>>

\* encodeFunctionData, in readContract by the signature of what was found, or
\* buildContractCallTransaction; both check the contract's address first.
CallFunction ==
    /\ callStage = "asked" /\ call.how # "deploy"
    /\ LET found == FindFunctionAbi(call.functionName, Len(call.args))
       IN  \/ /\ call.target = "good"
              /\ \E i \in found :
                   /\ Accepted(abi[i].inputs, call.args)
                   /\ SendCall(Data(Signature(abi[i]), abi[i].inputs, call.args))
           \/ /\ \/ call.target = "malformed"
                 \/ \A i \in found : ~ Accepted(abi[i].inputs, call.args)
              /\ EndCall("refused")

Creation == <<"creation">>

Constructors == {i \in DOMAIN abi : abi[i].type = "constructor"}

ConstructorInputs == IF Constructors = {} THEN <<>> ELSE abi[CHOOSE i \in Constructors : TRUE].inputs

\* buildDeployTransaction; bytecode that still has to be linked is no hex.
Deploy ==
    /\ callStage = "asked" /\ call.how = "deploy"
    /\ IF call.target = "good" /\ Accepted(ConstructorInputs, call.args)
       THEN SendCall(Data(Creation, ConstructorInputs, call.args))
       ELSE EndCall("refused")

\* The contract runs what the selector names; its addresses are words.
Execute ==
    /\ callStage = "sent"
    /\ \E i \in DOMAIN abi :
         /\ IF data.selector = Creation THEN i \in Constructors
            ELSE i \in Functions /\ data.selector = Signature(abi[i])
         /\ ran' = [entry |-> i, args |-> data.args]
         /\ answered' \in Tuples(abi[i].outputs, OnWire)
    /\ callStage' = IF call.how \in {"readContract", "by hand"} THEN "answered" ELSE "done"
    /\ UNCHANGED <<abi, call, data, result>>

\* Without a constructor the contract is just created; a selector it does not
\* have makes it revert.
NothingRuns ==
    /\ callStage = "sent"
    /\ IF data.selector = Creation THEN Constructors = {} /\ EndCall("done")
       ELSE data.selector \notin {Signature(abi[i]) : i \in Functions} /\ EndCall("refused")

\* One value is returned as it is, several as a list, none as undefined: the
\* empty list.
Shaped(values) == IF Len(values) = 1 THEN values[1] ELSE List(values)

\* Deliberate fault: the answer is read by the name that was called.
NameAsked(signature) == call.functionName

\* readContract reads the answer by the signature it called; a caller who does
\* the same by hand passes the name it has.
NameForDecoding(signature) ==
    IF call.how = "readContract" THEN signature ELSE call.functionName

\* decodeFunctionResult
DecodeFunctionResult ==
    /\ callStage = "answered"
    /\ LET found == FindFunctionAbi(NameForDecoding(data.selector), AnyCount)
       IN  IF found = {} THEN EndCall("unread")
           ELSE /\ \E i \in found :
                     result' = Shaped([k \in DOMAIN answered |->
                                 Decoded(TypesForViem(abi[i].outputs)[k], answered[k])])
                /\ callStage' = "done"
                /\ UNCHANGED <<abi, call, data, ran, answered>>

-----------------------------------------------------------------------------

Asked(entry) ==
    LET arguments == Tuples(entry.inputs, Written) \cup {<<>>}
    IN  IF entry.type = "constructor"
        THEN [how : {"deploy"}, target : {"good", "malformed"}, functionName : {Unset},
              args : arguments]
        ELSE {c \in [how : {"readContract", "by hand", "write"}, target : {"good", "malformed"},
                     functionName : {Name(entry), Signature(entry)}, args : arguments] :
                c.how = "by hand" => c.target = "good"}

NoConstructor == [type |-> "constructor", inputs |-> <<>>]

\* A caller asks for what an entry of the ABI offers, or for a bare deployment.
AbiInit ==
    /\ abi \in Interfaces
    /\ call \in Asked(NoConstructor) \cup UNION {Asked(e) : e \in Range(abi)}
    /\ callStage = "asked"
    /\ data = Unset /\ ran = Unset /\ answered = Unset /\ result = Unset

AbiNext == CallFunction \/ Deploy \/ Execute \/ NothingRuns \/ DecodeFunctionResult

AbiSpec == AbiInit /\ [][AbiNext]_abiVars

-----------------------------------------------------------------------------

\* Entries that the caller may mean.
Meant ==
    IF call.how = "deploy" THEN Constructors
    ELSE {i \in Functions : /\ Len(abi[i].inputs) = Len(call.args)
                            /\ call.functionName \in {Name(abi[i]), Signature(abi[i])}}

\* The arguments as bytes, by the types of the ABI and nothing viem is told.
Bytes(ps, values) ==
    [i \in DOMAIN values |-> Mapped(Proper, Lowered(Proper))[ps[i]][values[i]]]

\* What runs is the one function the caller can mean by that name and number of
\* arguments, with those arguments, every address whole; what is returned is what
\* it answered, every address whole, also if functions of that name answer
\* otherwise.  A call is refused only if it is not clear which function is meant,
\* or an address is not one, and its result only if it is read by a name that is
\* not unique.
CallsAsNamed ==
    /\ ran # Unset =>
         /\ Meant = {ran.entry}
         /\ ran.args = Bytes(abi[ran.entry].inputs, call.args)
         /\ ran.args \in Tuples(abi[ran.entry].inputs, OnWire)
    /\ result # Unset => result = Shaped(answered)
    /\ callStage = "refused" =>
         \/ call.target = "malformed"
         \/ Cardinality(Meant) # 1
         \/ \E i \in Meant : call.args \notin Tuples(abi[i].inputs, Proper)
    /\ callStage = "unread" =>
         /\ call.how = "by hand"
         /\ \E i, j \in Functions :
              i # j /\ call.functionName = Name(abi[i]) /\ call.functionName = Name(abi[j])

=============================================================================
