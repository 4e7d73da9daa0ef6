----------------------------- MODULE Submission -----------------------------
(***************************************************************************)
(* Concurrent calls of deployContract and writeContract                    *)
(* (src/src/contracts.ts) against one node: each call reads the pending    *)
(* nonce, then whether the sender's key is registered, has the transaction *)
(* signed by its ShellSigner (src/src/signer.ts), submits it once through  *)
(* ShellProvider.sendTransaction (src/src/provider.ts) and, when asked to, *)
(* waits for the receipt.  Every await is a place where other calls, the   *)
(* caller, dispose() and the node take steps; between two awaits the code  *)
(* runs without interruption and is one action.                            *)
(*                                                                         *)
(* The node is external.  It serves a request at any time after it was     *)
(* sent, also after the client has given up on the answer; it may refuse   *)
(* any transaction, and a faulty node may acknowledge a wrong hash.  What  *)
(* the calls rely on: a pending nonce is one that no transaction the node  *)
(* keeps occupies, a key once registered stays so, a transaction is mined  *)
(* at its sender's next nonce.  The receipt wait appears by its outcomes   *)
(* only; ReceiptWait models it.                                            *)
(***************************************************************************)
EXTENDS Integers

CONSTANTS
    Calls,              \* concurrent calls of deployContract / writeContract
    Signers,            \* ShellSigner objects
    Adapters,           \* the SignerAdapter objects behind them
    Accounts,           \* sender addresses
    Contents,           \* what a transaction does, apart from sender and nonce
    CallOptions,        \* the options objects a caller passes
    AdapterOf,          \* signer -> adapter; two signers may share one
    AccountOf,          \* signer -> address it signs for
    MaxNonce,           \* bound on nonces, counted from each account's first
    NoId                \* the absence of a transaction

NoNonce == -1

Options == [signer : Signers, kind : {"deploy", "write"}, content : Contents,
            nonce : {NoNonce} \cup 0 .. MaxNonce,
            includeKey : {"auto", "yes", "no"}, wait : BOOLEAN]

ASSUME ObjectsAssumption ==
    /\ AdapterOf \in [Signers -> Adapters]
    /\ AccountOf \in [Signers -> Accounts]
    /\ CallOptions \subseteq Options
    /\ CallOptions # {}
ASSUME MaxNonceAssumption == MaxNonce \in Nat

Ids == [from : Accounts, nonce : 0 .. MaxNonce, content : Contents]

ASSUME NoIdAssumption == NoId \notin Ids

VARIABLES
    pc,                 \* where each call stands
    live,               \* the caller's own options object of each call
    request,            \* const request = { ...options }
    nonce,              \* tx.nonce
    withKey,            \* includePublicKey, once decided
    signedId,           \* the transaction id the call's signature was made over
    wire,               \* what the call handed to shell_sendTransaction
    verdict,            \* how the promise of the call settled
    nonceReply,         \* answer to eth_getTransactionCount, under way
    keyReply,           \* answer to shell_getPqPubkey, under way
    submission,         \* what became of the call's shell_sendTransaction
    ackReply,           \* answer to shell_sendTransaction, under way
    disposed,           \* ShellSigner.disposed
    holdsKey,           \* the adapter's _secretKey is not null
    pool,               \* node: accepted transactions that are not mined
    mined,              \* node: mined transactions with their status
    count,              \* node: number of mined transactions per account
    registered,         \* node: accounts whose public key is on chain
    before              \* history: calls acknowledged when this one started

client == <<pc, live, request, nonce, withKey, signedId, wire, verdict>>
replies == <<nonceReply, keyReply, submission, ackReply>>
keys == <<disposed, holdsKey>>
node == <<pool, mined, count, registered>>
vars == <<client, replies, keys, node, before>>

Stages == {"idle", "nonce", "key", "signing", "sending", "waiting", "done"}
Acknowledged == {"submitted", "confirmed", "reverted", "noAddress", "waitFailed"}
CleanFailures == {"readError", "signError", "rejected"}
Ambiguous == {"transport", "ackMismatch"}
Verdicts == {"pending"} \cup Acknowledged \cup CleanFailures \cup Ambiguous

From(c) == AccountOf[request[c].signer]

\* Deliberate fault: the transaction is assembled from the caller's object.
IdFromCaller(c, n) ==
    [from |-> AccountOf[live[c].signer], nonce |-> n, content |-> live[c].content]

\* The transaction id: blake3 over sender and signing hash, that is over
\* everything but signature and public key.
Id(c, n) == [from |-> From(c), nonce |-> n, content |-> request[c].content]

Known(id) == id \in pool \/ \E ok \in BOOLEAN : <<id, ok>> \in mined

Occupied(a, n) ==
    \/ n < count[a]
    \/ \E id \in pool : id.from = a /\ id.nonce = n

\* Deliberate fault: the nonce is asked for without the "pending" tag.
LatestNonces(a) == {n \in 0 .. MaxNonce : n = count[a]}

\* Deliberate fault: the pending count is taken for the nonce in use.
NonceAfterPending(a) ==
    {n + 1 : n \in {m \in 0 .. MaxNonce :
        ~ Occupied(a, m) /\ \A k \in 0 .. (m - 1) : Occupied(a, k)}}

\* eth_getTransactionCount(address, "pending"): the first free nonce.
PendingNonces(a) ==
    {n \in 0 .. MaxNonce :
        ~ Occupied(a, n) /\ \A k \in 0 .. (n - 1) : Occupied(a, k)}

-----------------------------------------------------------------------------

Init ==
    /\ pc = [c \in Calls |-> "idle"]
    /\ live \in [Calls -> CallOptions]
    /\ request = live
    /\ nonce = [c \in Calls |-> 0]
    /\ withKey = [c \in Calls |-> FALSE]
    /\ signedId = [c \in Calls |-> NoId]
    /\ wire = [c \in Calls |-> NoId]
    /\ verdict = [c \in Calls |-> "pending"]
    /\ nonceReply = [c \in Calls |-> NoNonce]
    /\ keyReply = [c \in Calls |-> "none"]
    /\ submission = [c \in Calls |-> "none"]
    /\ ackReply = [c \in Calls |-> "none"]
    /\ disposed = [s \in Signers |-> FALSE]
    /\ holdsKey = [a \in Adapters |-> TRUE]
    /\ pool = {}
    /\ mined = {}
    /\ count = [a \in Accounts |-> 0]
    /\ registered \in SUBSET Accounts
    /\ before = [c \in Calls |-> {}]

Settle(c, how) ==
    /\ pc' = [pc EXCEPT ![c] = "done"]
    /\ verdict' = [verdict EXCEPT ![c] = how]

\* Deliberate fault: the adapter's own check is dropped.
SignerNotDisposed(s) == ~ disposed[s]

\* ShellSigner.sign and the adapter's sign each look before they use the key.
CanSign(s) == ~ disposed[s] /\ holdsKey[AdapterOf[s]]

\* From the last answer needed to the call of adapter.sign nothing yields: the
\* nonce is set, the hash computed over it, and the guards of sign evaluated.
StartSigning(c, n, key) ==
    /\ nonce' = [nonce EXCEPT ![c] = n]
    /\ withKey' = [withKey EXCEPT ![c] = key]
    /\ \/ /\ CanSign(request[c].signer)
          /\ pc' = [pc EXCEPT ![c] = "signing"]
          /\ signedId' = [signedId EXCEPT ![c] = Id(c, n)]
          /\ UNCHANGED verdict
       \/ /\ ~ CanSign(request[c].signer)
          /\ Settle(c, "signError")
          /\ UNCHANGED signedId

AskForKey(c, n) ==
    /\ nonce' = [nonce EXCEPT ![c] = n]
    /\ pc' = [pc EXCEPT ![c] = "key"]
    /\ UNCHANGED <<withKey, signedId, verdict>>

\* request.includePublicKey ?? await shouldIncludePublicKey(...)
DecideKey(c, n) ==
    \/ request[c].includeKey = "auto" /\ AskForKey(c, n)
    \/ request[c].includeKey # "auto"
         /\ StartSigning(c, n, request[c].includeKey = "yes")

\* The call up to its first await: the options are captured and, unless a
\* nonce is given, the pending nonce is asked for.
Call(c) ==
    /\ pc[c] = "idle"
    /\ before' = [before EXCEPT ![c] =
                    {d \in Calls : pc[d] = "waiting" \/ verdict[d] \in Acknowledged}]
    /\ \/ /\ request[c].nonce = NoNonce
          /\ pc' = [pc EXCEPT ![c] = "nonce"]
          /\ UNCHANGED <<nonce, withKey, signedId, verdict>>
       \/ /\ request[c].nonce # NoNonce
          /\ DecideKey(c, request[c].nonce)
    /\ UNCHANGED <<live, request, wire, replies, keys, node>>

\* The caller goes on using its options object.
CallerMutates(c) ==
    /\ pc[c] \notin {"idle", "done"}
    /\ \E o \in CallOptions : live' = [live EXCEPT ![c] = o]
    /\ UNCHANGED <<pc, request, nonce, withKey, signedId, wire, verdict, replies,
                   keys, node, before>>

NonceArrives(c) ==
    /\ pc[c] = "nonce"
    /\ nonceReply[c] # NoNonce
    /\ DecideKey(c, nonceReply[c])
    /\ UNCHANGED <<live, request, wire, replies, keys, node, before>>

\* Deliberate fault: a known key is taken for an unknown one and vice versa.
IncludeKnownKey(reply) == reply = "key"

\* shouldIncludePublicKey
ShouldIncludePublicKey(reply) == reply = "null"

KeyArrives(c) ==
    /\ pc[c] = "key"
    /\ keyReply[c] # "none"
    /\ StartSigning(c, nonce[c], ShouldIncludePublicKey(keyReply[c]))
    /\ UNCHANGED <<live, request, wire, replies, keys, node, before>>

\* A transport error, an error reply, or a nonce that is no safe integer.
ReadFails(c) ==
    /\ pc[c] \in {"nonce", "key"}
    /\ Settle(c, "readError")
    /\ UNCHANGED <<live, request, nonce, withKey, signedId, wire, replies, keys,
                   node, before>>

\* The adapter has signed: the transaction is assembled and sent.
Send(c) ==
    /\ pc[c] = "signing"
    /\ pc' = [pc EXCEPT ![c] = "sending"]
    /\ wire' = [wire EXCEPT ![c] = Id(c, nonce[c])]
    /\ submission' = [submission EXCEPT ![c] = "inFlight"]
    /\ UNCHANGED <<live, request, nonce, withKey, signedId, verdict, nonceReply,
                   keyReply, ackReply, keys, node, before>>

AdapterFails(c) ==
    /\ pc[c] = "signing"
    /\ Settle(c, "signError")
    /\ UNCHANGED <<live, request, nonce, withKey, signedId, wire, replies, keys,
                   node, before>>

\* sendTransaction: only the acknowledgement of the expected id is a success.
AckArrives(c) ==
    /\ pc[c] = "sending"
    /\ \/ /\ ackReply[c] = "hash"
          /\ request[c].wait
          /\ pc' = [pc EXCEPT ![c] = "waiting"]
          /\ UNCHANGED verdict
       \/ ackReply[c] = "hash" /\ ~ request[c].wait /\ Settle(c, "submitted")
       \/ ackReply[c] = "other" /\ Settle(c, "ackMismatch")
       \/ ackReply[c] = "error" /\ Settle(c, "rejected")
    /\ UNCHANGED <<live, request, nonce, withKey, signedId, wire, replies, keys,
                   node, before>>

\* Deliberate fault: a lost answer is reported like a refusal.
TransportFailsAsRejected(c) ==
    /\ pc[c] = "sending"
    /\ Settle(c, "rejected")
    /\ UNCHANGED <<live, request, nonce, withKey, signedId, wire, replies, keys,
                   node, before>>

\* fetch rejects, the HTTP status is not ok, or the body is no JSON-RPC answer:
\* whether the node has, or will get, the transaction is not known.
TransportFails(c) ==
    /\ pc[c] = "sending"
    /\ Settle(c, "transport")
    /\ UNCHANGED <<live, request, nonce, withKey, signedId, wire, replies, keys,
                   node, before>>

\* The wait ended with the receipt of the transaction: its status is looked at
\* before, in a deployment, the contract address.
ReceiptArrives(c) ==
    /\ pc[c] = "waiting"
    /\ \/ <<wire[c], FALSE>> \in mined /\ Settle(c, "reverted")
       \/ <<wire[c], TRUE>> \in mined /\ Settle(c, "confirmed")
       \/ /\ <<wire[c], TRUE>> \in mined
          /\ request[c].kind = "deploy"
          /\ Settle(c, "noAddress")
    /\ UNCHANGED <<live, request, nonce, withKey, signedId, wire, replies, keys,
                   node, before>>

\* Timeout, failed RPC, or the receipt of another transaction.
WaitFails(c) ==
    /\ pc[c] = "waiting"
    /\ Settle(c, "waitFailed")
    /\ UNCHANGED <<live, request, nonce, withKey, signedId, wire, replies, keys,
                   node, before>>

\* ShellSigner.dispose, which empties the adapter for every signer sharing it.
Dispose(s) ==
    /\ ~ disposed[s]
    /\ disposed' = [disposed EXCEPT ![s] = TRUE]
    /\ holdsKey' = [holdsKey EXCEPT ![AdapterOf[s]] = FALSE]
    /\ UNCHANGED <<client, replies, node, before>>

-----------------------------------------------------------------------------
(* The node *)

ServeNonce(c) ==
    /\ pc[c] = "nonce"
    /\ nonceReply[c] = NoNonce
    /\ \E n \in PendingNonces(From(c)) : nonceReply' = [nonceReply EXCEPT ![c] = n]
    /\ UNCHANGED <<client, keyReply, submission, ackReply, keys, node, before>>

\* shell_getPqPubkey: pending transactions register nothing.
ServeKey(c) ==
    /\ pc[c] = "key"
    /\ keyReply[c] = "none"
    /\ keyReply' = [keyReply EXCEPT ![c] =
                      IF From(c) \in registered THEN "key" ELSE "null"]
    /\ UNCHANGED <<client, nonceReply, submission, ackReply, keys, node, before>>

Admissible(c) ==
    /\ wire[c].nonce >= count[wire[c].from]
    /\ withKey[c] \/ wire[c].from \in registered

\* A new transaction may take the place of one with the same nonce.
Accept(c) ==
    /\ submission[c] = "inFlight"
    /\ ~ Known(wire[c])
    /\ Admissible(c)
    /\ pool' = {id \in pool : id.from # wire[c].from \/ id.nonce # wire[c].nonce}
                 \cup {wire[c]}
    /\ submission' = [submission EXCEPT ![c] = "accepted"]
    /\ \E a \in {"hash", "other"} : ackReply' = [ackReply EXCEPT ![c] = a]
    /\ UNCHANGED <<client, nonceReply, keyReply, keys, mined, count, registered,
                   before>>

\* The same transaction has arrived before, from another call.
AnswerDuplicate(c) ==
    /\ submission[c] = "inFlight"
    /\ Known(wire[c])
    /\ submission' = [submission EXCEPT ![c] = "duplicate"]
    /\ \E a \in {"hash", "error"} : ackReply' = [ackReply EXCEPT ![c] = a]
    /\ UNCHANGED <<client, nonceReply, keyReply, keys, node, before>>

Refuse(c) ==
    /\ submission[c] = "inFlight"
    /\ submission' = [submission EXCEPT ![c] = "refused"]
    /\ \E a \in {"error", "other"} : ackReply' = [ackReply EXCEPT ![c] = a]
    /\ UNCHANGED <<client, nonceReply, keyReply, keys, node, before>>

Mine(id) ==
    /\ id \in pool
    /\ id.nonce = count[id.from]
    /\ pool' = pool \ {id}
    /\ \E ok \in BOOLEAN : mined' = mined \cup {<<id, ok>>}
    /\ count' = [count EXCEPT ![id.from] = @ + 1]
    /\ registered' = registered \cup {id.from}
    /\ UNCHANGED <<client, replies, keys, before>>

Next ==
    \/ \E c \in Calls :
         \/ Call(c) \/ CallerMutates(c)
         \/ NonceArrives(c) \/ KeyArrives(c) \/ ReadFails(c)
         \/ Send(c) \/ AdapterFails(c)
         \/ AckArrives(c) \/ TransportFails(c)
         \/ ReceiptArrives(c) \/ WaitFails(c)
         \/ ServeNonce(c) \/ ServeKey(c)
         \/ Accept(c) \/ AnswerDuplicate(c) \/ Refuse(c)
    \/ \E s \in Signers : Dispose(s)
    \/ \E id \in pool : Mine(id)

Spec == Init /\ [][Next]_vars

-----------------------------------------------------------------------------

\* Every variable keeps its type; in particular the nonces handed out stay
\* within what the calls of the instance can occupy.
TypeOK ==
    /\ pc \in [Calls -> Stages]
    /\ live \in [Calls -> CallOptions]
    /\ request \in [Calls -> CallOptions]
    /\ nonce \in [Calls -> 0 .. MaxNonce]
    /\ withKey \in [Calls -> BOOLEAN]
    /\ signedId \in [Calls -> Ids \cup {NoId}]
    /\ wire \in [Calls -> Ids \cup {NoId}]
    /\ verdict \in [Calls -> Verdicts]
    /\ nonceReply \in [Calls -> {NoNonce} \cup 0 .. MaxNonce]
    /\ keyReply \in [Calls -> {"none", "null", "key"}]
    /\ submission \in
         [Calls -> {"none", "inFlight", "accepted", "duplicate", "refused"}]
    /\ ackReply \in [Calls -> {"none", "hash", "other", "error"}]
    /\ disposed \in [Signers -> BOOLEAN]
    /\ holdsKey \in [Adapters -> BOOLEAN]
    /\ pool \subseteq Ids
    /\ mined \subseteq Ids \X BOOLEAN
    /\ count \in [Accounts -> 0 .. MaxNonce + 1]
    /\ registered \subseteq Accounts
    /\ before \in [Calls -> SUBSET Calls]

\* The way a call settles tells the truth about its transaction, now and for
\* good: a result with a receipt means it is mined with that status, a hash
\* means the node took it, and a failure other than a lost or wrong
\* acknowledgement means that this call never adds it to the node, also not
\* through a request that is still on its way.
VerdictTruthful ==
    \A c \in Calls :
        /\ verdict[c] \in {"confirmed", "noAddress"} => <<wire[c], TRUE>> \in mined
        /\ verdict[c] = "reverted" => <<wire[c], FALSE>> \in mined
        /\ verdict[c] \in Acknowledged
             => submission[c] \in {"accepted", "duplicate"}
        /\ verdict[c] \in CleanFailures
             => submission[c] \in {"none", "duplicate", "refused"}

\* A call that started after another was acknowledged, and looks up its nonce,
\* never submits under the nonce of the earlier one, mined or still pending
\* (getPendingNonce).  Calls that overlap have no such guarantee.
FreshNonceInSequence ==
    \A c, d \in Calls :
        /\ c \in before[d]
        /\ request[d].nonce = NoNonce
        /\ wire[d] # NoId
        /\ wire[c].from = wire[d].from
        => wire[c].nonce # wire[d].nonce

\* A call that decides itself about the public key leaves it out only when the
\* node needs none: first calls that overlap all carry it, since a pending
\* transaction registers nothing (shouldIncludePublicKey).
KeyPresentWhenNeeded ==
    \A c \in Calls :
        request[c].includeKey = "auto" /\ wire[c] # NoId /\ ~ withKey[c]
        => wire[c].from \in registered

\* What reaches the node is what the caller asked for when it called, under the
\* nonce the call reports and signed as submitted, whatever the caller does to
\* its options object meanwhile.
SubmitsWhatWasAsked ==
    \A c \in Calls :
        wire[c] # NoId =>
            /\ wire[c] = signedId[c]
            /\ wire[c].from = AccountOf[request[c].signer]
            /\ wire[c].content = request[c].content
            /\ wire[c].nonce = nonce[c]
            /\ request[c].nonce # NoNonce => wire[c].nonce = request[c].nonce

\* A call caught by dispose() before its signature was asked for: through its
\* own signer, or through another signer that shares the adapter.
Doomed(c) ==
    /\ pc[c] \in {"nonce", "key"}
    /\ \/ disposed[request[c].signer]
       \/ ~ holdsKey[AdapterOf[request[c].signer]]

\* Such a call never signs: it fails without a submission.
DisposeStops ==
    [][\A c \in Calls :
         Doomed(c) => \/ Doomed(c)'
                      \/ /\ pc'[c] = "done"
                         /\ verdict'[c] \in {"readError", "signError"}
                         /\ submission'[c] = "none"]_vars

=============================================================================
