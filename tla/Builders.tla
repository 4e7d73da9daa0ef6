------------------------------ MODULE Builders ------------------------------
(* The builders of transactions (src/src/transactions.ts): a caller lists    *)
(* the inner calls of a bundle, has a batch, sponsored or session-key bundle *)
(* built, or a plain or system transaction, and hashes what it was given in  *)
(* order to sign it.                                                         *)
(*                                                                           *)
(* Three kinds of number meet here: safe integers of the runtime, u64 and    *)
(* u256 of the protocol; each builder checks some of them and the hash the   *)
(* rest.  A bundle holds the caller's own list of calls, not a copy          *)
(* (transactions.ts:680); the caller leaves it alone once a bundle is built. *)
EXTENDS Integers, Sequences

CONSTANTS
    None,           \* an option that is not given
    NotInteger,     \* what BigInt refuses and "<= 0" lets pass: 1.5, NaN, "0xzz"
    SafeMax,        \* Number.MAX_SAFE_INTEGER
    U64Max, U256Max,
    BaseGas,        \* BASE_AA_OUTER_INTRINSIC_GAS
    CallGas,        \* AA_INNER_CALL_INTRINSIC_GAS
    SessionGas,     \* AA_SESSION_KEY_GAS_SURCHARGE
    BundleGas,      \* DEFAULT_AA_GAS_LIMIT
    TransferGas, SystemGas,     \* the other default gas limits
    DefaultFee, DefaultTip,
    BundleType,     \* AA_BUNDLE_TX_TYPE
    MaxCalls,       \* AA_MAX_INNER_CALLS
    MaxBlobs,
    Amounts,        \* values a caller may write
    Gases,          \* gas limits a caller may write
    Fees            \* fees a caller may write

ASSUME BuildersAssumption ==
    /\ {SafeMax, U64Max, U256Max, BaseGas, CallGas, SessionGas, BundleGas,
        TransferGas, SystemGas, DefaultFee, DefaultTip, MaxCalls, MaxBlobs} \subseteq Nat
    /\ SafeMax < U64Max /\ U64Max < U256Max
    /\ BundleGas <= SafeMax /\ DefaultTip <= DefaultFee /\ DefaultFee <= SafeMax
    /\ MaxCalls > 0 /\ BundleType \in 4 .. SafeMax
    /\ Amounts \cup Gases \cup Fees \subseteq Int
    /\ None \notin Int /\ NotInteger \notin Int

VARIABLES
    innerCalls,     \* the caller's list
    tx, bundle,     \* what a builder returned
    stage           \* "listing", "built", "hashed", "unhashable" or "refused"

builderVars == <<innerCalls, tx, bundle, stage>>

Given(option, default) == IF option = None THEN default ELSE option

Safe(n) == n \in 0 .. SafeMax

-----------------------------------------------------------------------------

BuildersInit == innerCalls = <<>> /\ tx = None /\ bundle = None /\ stage = "listing"

Refuse == stage' = "refused" /\ UNCHANGED <<innerCalls, tx, bundle>>

\* buildInnerTransfer and buildInnerCall: amounts and limits are numbers.
InnerCall(value, gas) ==
    /\ stage = "listing"
    /\ Len(innerCalls) <= MaxCalls
    /\ IF value \in 0 .. U256Max /\ Safe(gas)
       THEN /\ innerCalls' = Append(innerCalls, [value |-> value, gas |-> gas, form |-> "good"])
            /\ UNCHANGED <<tx, bundle, stage>>
       ELSE Refuse

\* A call written by hand, with hex quantities no builder has looked at.
CallByHand(value, gas, form) ==
    /\ stage = "listing"
    /\ Len(innerCalls) <= MaxCalls
    /\ innerCalls' = Append(innerCalls, [value |-> value, gas |-> gas, form |-> form])
    /\ UNCHANGED <<tx, bundle, stage>>

-----------------------------------------------------------------------------
(* buildTransaction *)

\* A plain transaction's options; blobs counts its versioned hashes.
Plain == [to |-> "account", nonce |-> 0, value |-> None, gasLimit |-> None,
          maxFee |-> None, tip |-> None, txType |-> None,
          blobFee |-> None, blobs |-> None, blobForm |-> "hashes"]

\* Deliberate fault: the options are compared, not the fees with defaults.
OptionsCompared(o) == o.tip # None /\ o.maxFee # None => o.tip <= o.maxFee

FeesOrdered(o) == Given(o.tip, DefaultTip) <= Given(o.maxFee, DefaultFee)

BlobFields(o) ==
    IF Given(o.txType, 2) = 3
    THEN o.blobFee # None /\ o.blobs \in 1 .. MaxBlobs /\ o.to # "null"
    ELSE o.blobFee = None /\ o.blobs = None

Acceptable(o) ==
    /\ o.to # "malformed"
    /\ Given(o.value, 0) >= 0
    /\ \A n \in {o.nonce, o.gasLimit, o.maxFee, o.tip, o.blobFee, o.txType} \ {None} : Safe(n)
    /\ FeesOrdered(o)
    /\ BlobFields(o)

Transaction(o) ==
    [o EXCEPT !.value = Given(@, 0), !.gasLimit = Given(@, TransferGas),
              !.maxFee = Given(@, DefaultFee), !.tip = Given(@, DefaultTip),
              !.txType = Given(@, 2)]

Build(o, accepted, attached) ==
    IF accepted /\ Acceptable(o)
    THEN tx' = Transaction(o) /\ bundle' = attached /\ stage' = "built" /\ UNCHANGED innerCalls
    ELSE Refuse

BuildTransaction(o) ==
    stage = "listing" /\ innerCalls = <<>> /\ Build(o, TRUE, None)

\* buildSystemTransaction and the three built on it; data encodes a public
\* key of 1 to 4096 bytes, a code hash, or nothing.
BuildSystemTransaction(o, dataEncodes) ==
    /\ stage = "listing" /\ innerCalls = <<>>
    /\ Build([o EXCEPT !.to = "accountManager", !.value = 0,
                       !.gasLimit = Given(@, SystemGas)], dataEncodes, None)

-----------------------------------------------------------------------------
(* Bundles *)

\* The first n of a list of numbers, added up in a loop.
Total(numbers, n) ==
    LET sum[i \in 0 .. Len(numbers)] == IF i = 0 THEN 0 ELSE sum[i - 1] + numbers[i]
    IN  sum[n]

CallValues == [i \in 1 .. Len(innerCalls) |-> innerCalls[i].value]

CallLimits == [i \in 1 .. Len(innerCalls) |-> innerCalls[i].gas]

InnerValue == Total(CallValues, Len(innerCalls))

InnerGas == Total(CallLimits, Len(innerCalls))

Later == IF innerCalls = <<>> THEN 0 ELSE Len(innerCalls) - 1

\* Deliberate fault: only the first call is free of the charge per call.
AboveBase(gasLimit, surcharge) == gasLimit >= BaseGas + InnerGas + surcharge

\* validateAaGasBudget
CoversGas(gasLimit, surcharge) ==
    gasLimit >= BaseGas + InnerGas + Later * CallGas + surcharge

\* Deliberate fault: each value is checked and their sum is not.
CallsChecked(o) ==
    /\ Len(innerCalls) \in 1 .. MaxCalls
    /\ \A i \in DOMAIN innerCalls :
          innerCalls[i].value <= U256Max /\ innerCalls[i].gas <= U64Max /\ innerCalls[i].form = "good"
    /\ Safe(Given(o.gasLimit, BundleGas)) /\ CoversGas(Given(o.gasLimit, BundleGas), 0)

\* What buildBatchTransaction demands of the list and of the gas limit.
BatchAccepts(o) ==
    /\ Len(innerCalls) \in 1 .. MaxCalls
    /\ \A i \in DOMAIN innerCalls :
          /\ innerCalls[i].value <= U256Max
          /\ innerCalls[i].gas <= U64Max
          /\ innerCalls[i].form = "good"
    /\ InnerValue <= U256Max
    /\ Safe(Given(o.gasLimit, BundleGas))
    /\ CoversGas(Given(o.gasLimit, BundleGas), 0)

Outer(o) ==
    [o EXCEPT !.to = "null", !.value = InnerValue,
              !.gasLimit = Given(@, BundleGas), !.txType = BundleType]

Bare == [paymaster |-> None, signature |-> None, context |-> None, session |-> None]

BuildBundle(o, accepted, attached) ==
    stage = "listing" /\ Build(Outer(o), accepted /\ BatchAccepts(o), attached)

BuildBatch(o) == BuildBundle(o, TRUE, Bare)

\* validateProtocolBytes of the paymaster's signature or context.
BuildSponsored(o, signature) ==
    BuildBundle(o, signature = "fits",
                [Bare EXCEPT !.paymaster = "paymaster", !.signature = signature])

BuildContractPaymaster(o, context) ==
    BuildBundle(o, context = "fits",
                [Bare EXCEPT !.paymaster = "paymaster", !.context = context])

SizesFit(auth) == auth.pubkey = "fits" /\ auth.root = "fits" /\ auth.signature = "fits"

\* Deliberate fault: block 0 is taken for an expiry.
ZeroExpiry(auth) ==
    SizesFit(auth) /\ auth.algo \in 0 .. 2 /\ (auth.expiry \in Int => auth.expiry >= 0)

\* validateSessionAuthShape.  It has no test of target and value_cap, and only
\* expiry_block <= 0 is refused, which a number that is no integer is not.
WellShaped(auth) ==
    SizesFit(auth) /\ auth.algo \in 0 .. 2 /\ (auth.expiry \in Int => auth.expiry > 0)

\* Deliberate fault: the budget is checked once, before the session is known.
SessionUncharged(o, auth) ==
    BuildBundle(o, WellShaped(auth), [Bare EXCEPT !.session = auth])

BuildSession(o, auth) ==
    BuildBundle(o, WellShaped(auth) /\ CoversGas(Given(o.gasLimit, BundleGas), SessionGas),
                [Bare EXCEPT !.session = auth])

-----------------------------------------------------------------------------

\* What encodeU64Be, encodeU256Be and the blob hashes' length check demand.
Encodable ==
    /\ {tx.nonce, tx.gasLimit, tx.maxFee, tx.tip} \subseteq 0 .. U64Max
    /\ tx.value \in 0 .. U256Max
    /\ tx.txType = 3 => tx.blobFee \in 0 .. U64Max /\ tx.blobForm = "hashes"

\* What shellAddressToBytes and toRlpUint demand of an authorisation's fields;
\* toRlpUint has no width.
SessionEncodable(auth) == auth.target # "malformed" /\ {auth.cap, auth.expiry} \subseteq Nat

\* What hashBatchTransaction encodes besides: the calls and the paymaster were
\* checked when the bundle was built, the authorisation was not.
BundleEncodable ==
    bundle # None => (bundle.session # None => SessionEncodable(bundle.session))

\* hashTransaction, or hashBatchTransaction around it for a bundle.
Hash ==
    /\ stage = "built"
    /\ stage' = IF Encodable /\ BundleEncodable THEN "hashed" ELSE "unhashable"
    /\ UNCHANGED <<innerCalls, tx, bundle>>

-----------------------------------------------------------------------------

Sizes == {"empty", "fits", "oversize"}

Limited(g) == [Plain EXCEPT !.gasLimit = g]

GasOptions == {Limited(g) : g \in Gases \cup {None}}

Paying(f, t) == [Plain EXCEPT !.maxFee = f, !.tip = t]

BatchOptions ==
    GasOptions \cup {Paying(f, t) : f, t \in Fees \cup {None}}

Sending(v, r, n) == [Plain EXCEPT !.value = v, !.to = r, !.nonce = n]

Carrying(k, f, b, r, w) ==
    [Plain EXCEPT !.txType = k, !.blobFee = f, !.blobs = b, !.to = r, !.blobForm = w]

PlainOptions ==
    BatchOptions
      \cup {Sending(v, r, n) :
               v \in Amounts \cup {None}, r \in {"account", "null", "malformed"},
               n \in {-1, 0, SafeMax + 1}}
      \cup {Carrying(k, f, b, r, w) :
               k \in {None, 2, 3}, f \in {None, -1, 0}, b \in {None} \cup 0 .. MaxBlobs + 1,
               r \in {"account", "null"}, w \in {"hashes", "other"}}

\* createSessionAuth checks what it is given, so what it makes can be encoded; a
\* caller may also write an authorisation by hand, with anything in its fields.
InOrder == [pubkey |-> "fits", root |-> "fits", signature |-> "fits", algo |-> 0,
            target |-> "null", cap |-> 0, expiry |-> 1]

Granting(r, c, e) == [InOrder EXCEPT !.target = r, !.cap = c, !.expiry = e]

Authorisations ==
    {[InOrder EXCEPT !.algo = 3]} \cup
      {[InOrder EXCEPT ![f] = s] : f \in {"pubkey", "root", "signature"}, s \in Sizes} \cup
      {Granting(r, c, e) : r \in {"null", "account", "malformed"},
                           c \in {0, U256Max + 1, NotInteger},
                           e \in {0, 1, U64Max + 1, NotInteger}}

BuildersNext ==
    \/ \E v \in Amounts, g \in Gases : InnerCall(v, g)
    \/ \E v \in Amounts \cap Nat, g \in Gases \cap Nat, form \in {"good", "malformed"} :
          (form = "malformed" => v = 0 /\ g = 0) /\ CallByHand(v, g, form)
    \/ \E o \in PlainOptions : BuildTransaction(o)
    \/ \E o \in PlainOptions, b \in BOOLEAN : BuildSystemTransaction(o, b)
    \/ \E o \in BatchOptions : BuildBatch(o)
    \/ \E o \in GasOptions, s \in Sizes : BuildSponsored(o, s) \/ BuildContractPaymaster(o, s)
    \/ \E o \in GasOptions :
          \E auth \in Authorisations : BuildSession(o, auth)
    \/ Hash

BuildersSpec == BuildersInit /\ [][BuildersNext]_builderVars

-----------------------------------------------------------------------------

Surcharge == IF bundle.session = None THEN 0 ELSE SessionGas

\* What every call costs the calls after it.
Charged == [i \in 1 .. Len(innerCalls) |-> innerCalls[i].gas + CallGas]

\* The gas a bundle has used before call i.
SpentBefore(i) == BaseGas + Surcharge + Total(Charged, i - 1)

\* The charge per call is for every call after the first: call i pays it
\* before it runs, if i > 1.
RunsToItsEnd ==
    \A i \in DOMAIN innerCalls : tx.gasLimit - SpentBefore(i) >= innerCalls[i].gas

\* A field of a session authorisation that no builder looks at.
WrittenWrong(auth) == auth.target = "malformed" \/ NotInteger \in {auth.cap, auth.expiry}

\* A caller signs only what the node can run.  A bundle runs to its end: the
\* gas left before each call covers that call's limit, once the envelope, the
\* charge per call and a session key's surcharge are paid; the outer value is
\* what the calls move; a session key has not expired from the start.  A bundle
\* that a builder accepted fails when it is hashed exactly if the target, the
\* cap or the expiry of its session authorisation cannot be encoded, which
\* validateSessionAuthShape does not test (session.ts 265-290); nothing is said
\* of the widths of cap and expiry, which nobody tests.  Anything hashed fits
\* the protocol's widths otherwise, tips within its fee and has blobs exactly
\* if it is a blob transaction with a recipient, whichever fields were left to
\* the defaults.
SignedIsSound ==
    /\ stage = "unhashable" /\ bundle # None =>
         bundle.session # None /\ WrittenWrong(bundle.session)
    /\ stage = "hashed" =>
         /\ {tx.nonce, tx.gasLimit, tx.maxFee, tx.tip} \subseteq 0 .. U64Max
         /\ tx.value \in 0 .. U256Max
         /\ tx.tip <= tx.maxFee
         /\ tx.blobs # None <=> tx.txType = 3
         /\ tx.txType = 3 => tx.to # "null"
         /\ bundle # None =>
              /\ RunsToItsEnd
              /\ innerCalls # <<>>
              /\ tx.value = Total(CallValues, Len(innerCalls))
              /\ bundle.session # None =>
                   ~WrittenWrong(bundle.session) /\ bundle.session.expiry > 0

=============================================================================
