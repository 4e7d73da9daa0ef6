------------------------------ MODULE RpcClient ------------------------------
(***************************************************************************)
(* A ShellProvider (src/src/provider.ts) is created and called once: the   *)
(* checks and conversions of the arguments, the one HTTP request, what is  *)
(* made of the answer, and the two places that take an error for "this     *)
(* node does not have it".  Calls share no state.  sendTransaction and the *)
(* histories have modules of their own (Submission, HistoryPaging) and the *)
(* same request.                                                           *)
(*                                                                         *)
(* The node is external and honest: it executes a request and answers with *)
(* a result, or refuses it with an error.  What is in between is not: the  *)
(* answer may be lost, cut, or replaced by something that answers no       *)
(* request of this client.  All requests have the id 1; that an answer     *)
(* belongs to the request is what HTTP guarantees, and is not modelled.    *)
(* A server that says "method not found" in words does not have it.        *)
(***************************************************************************)
EXTENDS Integers, Sequences

CONSTANTS Nothing       \* no call, no answer, no code

ASSUME NothingAssumption == Nothing \notin Int \cup {"refused", "unreported", "garbled"}

-----------------------------------------------------------------------------
(* The methods, with what each checks its arguments to be, in order *)

BlockQueries ==
    [rpcCapabilities |-> <<>>, pendingCount |-> <<>>, getChainSnapshot |-> <<>>,
     getShellBlockByNumber |-> <<"block">>, getShellBlockByHash |-> <<"hash">>,
     getBlocksRange |-> <<"block">>, getAddressSummary |-> <<"address">>,
     getTransactionSummary |-> <<"hash">>, getValidatorSnapshot |-> <<"window">>]

ValidatorCalls ==
    [getValidators |-> <<>>, getValidatorStatus |-> <<"address">>,
     getGovernanceInfo |-> <<>>, estimateGovernanceGas |-> <<>>,
     encodeAddValidator |-> <<"address">>, encodeRemoveValidator |-> <<"address">>,
     encodeSetValidatorStake |-> <<"address", "quantity">>,
     proposeAddValidator |-> <<"address">>, proposeRemoveValidator |-> <<"address">>,
     proposeSetValidatorWeight |-> <<"address", "integer">>,
     proposeSetValidatorStake |-> <<"address", "quantity">>]

NodeQueries ==
    [getBlockReceipts |-> <<>>, getNodeInfo |-> <<>>, getNetworkStats |-> <<>>,
     getChainStats |-> <<>>, getFinalityInfo |-> <<>>, getFinalityProof |-> <<"hash">>,
     consensusInfo |-> <<>>, transactionCount |-> <<>>, getWitness |-> <<>>,
     getBlockWitnesses |-> <<>>, getProofAmendment |-> <<"hash">>,
     getAlgorithmRegistry |-> <<>>, setBalance |-> <<"address", "quantity">>]

BundleQueries ==
    [getStorageProfile |-> <<>>, estimateBatch |-> <<>>, estimatePaymasterGas |-> <<>>,
     getPaymasterPolicy |-> <<>>, isSponsored |-> <<>>, verifyWitnessRoot |-> <<>>]

Tables == {BlockQueries, ValidatorCalls, NodeQueries, BundleQueries}
Methods == UNION {DOMAIN t : t \in Tables}
Checks(m) == (CHOOSE t \in Tables : m \in DOMAIN t)[m]

\* Arguments by kind, as far as the checks tell them apart.  null passes for an
\* address (deployments have none); the types of the queries exclude it.
Arguments(kind) ==
    CASE kind = "address" -> {"address", "malformed"}
      [] kind = "hash" -> {"hash", "malformed"}
      [] kind = "block" -> {"tag", "hex", "malformed", "integer", "unsafe"}
      [] kind = "quantity" -> {"bigint", "negative", "hex", "malformed", "integer", "unsafe"}
      [] kind = "integer" -> {"integer", "unsafe"}
      [] kind = "window" -> {"null", "integer", "outside"}

Kinds == {"address", "hash", "block", "quantity", "integer", "window"}

Refused == {"malformed", "unsafe", "negative", "outside"}

\* Deliberate fault: a stake given as a number is passed on as a number.
NumberAsIs(kind, argument) == IF argument = "bigint" THEN "hex" ELSE argument

\* toRpcQuantity and toBlockNumberParam write numbers as 0x-prefixed quantities.
OnWire(kind, argument) ==
    IF kind \in {"block", "quantity"} /\ argument \in {"bigint", "integer"}
    THEN "hex" ELSE argument

\* What the node understands.
WireForms(kind) ==
    CASE kind = "block" -> {"tag", "hex"} [] kind = "quantity" -> {"hex"}
      [] kind = "window" -> {"null", "integer"} [] OTHER -> {kind}

\* rpcHttpUrl or the chain's first one, as far as validateRpcUrl tells them apart.
Urls == {"https", "http to this host", "http", "private address", "wss", "no URL"}
ValidUrls == {"https", "http to this host", "wss"}

Keys == {"none", "key", "empty", "newline"}

-----------------------------------------------------------------------------

VARIABLES
    options,            \* what the provider is created with
    called, arguments,  \* the call to be made with it
    stage,              \* "create", "called", "sent", "answered", or "settled"
    wire,               \* the parameters that were sent
    executed,           \* the node: how often it executed the call
    answer,             \* what comes back
    reason,             \* history: why there is no result, as its author has it
    outcome             \* of the promise

given == <<options, called, arguments>>
rpcVars == <<given, stage, wire, executed, answer, reason, outcome>>

\* An answer, and what the author of one may put in place of its parts.
Answer == [http |-> 200, text |-> "OK", body |-> "object", mine |-> TRUE,
           error |-> "absent", code |-> Nothing, message |-> "other", result |-> "value"]

Resolved(value) == [is |-> "resolved", value |-> value, code |-> Nothing]
Rejected(why) == [is |-> "rejected", value |-> why, code |-> Nothing]
RpcRequestError(code, message) == [is |-> "rejected", value |-> message, code |-> code]

RpcInit ==
    /\ options \in [url : Urls, key : Keys]
    /\ called \in Methods
    /\ arguments \in [1 .. Len(Checks(called)) -> UNION {Arguments(k) : k \in Kinds}]
    /\ \A i \in DOMAIN arguments : arguments[i] \in Arguments(Checks(called)[i])
    /\ stage = "create"
    /\ wire = <<>> /\ executed = 0 /\ answer = Answer
    /\ reason = Nothing /\ outcome = Nothing

\* createShellProvider: the key, then the URL, which may also be one for WebSockets.
Create ==
    /\ stage = "create"
    /\ IF options.key \in {"empty", "newline"} \/ options.url \notin ValidUrls
       THEN stage' = "settled" /\ outcome' = Rejected("options")
       ELSE stage' = "called" /\ UNCHANGED outcome
    /\ UNCHANGED <<given, wire, executed, answer, reason>>

\* The checks come before anything is sent.
Validate ==
    /\ stage = "called"
    /\ IF \E i \in DOMAIN arguments : arguments[i] \in Refused
       THEN /\ outcome' = Rejected("arguments")
            /\ stage' = "settled"
            /\ UNCHANGED wire
       ELSE /\ wire' = [i \in DOMAIN arguments |-> OnWire(Checks(called)[i], arguments[i])]
            /\ stage' = "sent"
            /\ UNCHANGED outcome
    /\ UNCHANGED <<given, executed, answer, reason>>

\* fetch knows no WebSockets.
Reachable == stage = "sent" /\ options.url # "wss"

Execute ==
    /\ Reachable
    /\ executed' = executed + 1
    /\ \E r \in {"value", "null", "empty"} :     \* "empty": an object without profile
         /\ answer' = [Answer EXCEPT !.result = r]
         /\ reason' = IF r = "empty" THEN "unreported" ELSE Nothing
    /\ stage' = "answered"
    /\ UNCHANGED <<given, wire, outcome>>

\* One code of JSON-RPC says that there is no such method; any other may come with
\* words that sound like it.
NoSuchMethod == -32601
ServerError == -32000

Refuse ==
    /\ Reachable
    /\ \E c \in {NoSuchMethod, ServerError}, w \in {"other", "method not found", "profile not configured"} :
         /\ answer' = [Answer EXCEPT !.error = "error", !.code = c, !.message = w,
                                     !.result = "missing"]
         /\ reason' = IF c = NoSuchMethod \/ w = "profile not configured" THEN "unreported" ELSE "refused"
    /\ stage' = "answered"
    /\ UNCHANGED <<given, wire, executed, outcome>>

\* A server in front of the node has no such method, and says so without JSON-RPC.
Unrouted ==
    /\ Reachable
    /\ answer' = [Answer EXCEPT !.http = 404, !.text = "method not found"]
    /\ reason' = "unreported"
    /\ stage' = "answered"
    /\ UNCHANGED <<given, wire, executed, outcome>>

Garbled ==
    {[Answer EXCEPT !.http = 502, !.text = "other"]}
      \cup {[Answer EXCEPT !.body = b] : b \in {"none", "no JSON", "no object"}}
      \cup {[Answer EXCEPT !.mine = FALSE, !.error = e, !.code = NoSuchMethod] : e \in {"absent", "error"}}
      \cup {[Answer EXCEPT !.error = e] : e \in {"null", "malformed"}}
      \cup {[Answer EXCEPT !.result = "missing"]}

\* Before the request reaches the node, or on the way back.
Garble ==
    /\ Reachable \/ stage = "answered"
    /\ answer' \in Garbled
    /\ reason' = "garbled"
    /\ stage' = "answered"
    /\ UNCHANGED <<given, wire, executed, outcome>>

\* fetch rejects; there is no timeout, and a request that hangs stays "sent".
NetworkFails ==
    /\ stage \in {"sent", "answered"}
    /\ outcome' = Rejected("network")
    /\ stage' = "settled"
    /\ UNCHANGED <<given, wire, executed, answer, reason>>

\* Deliberate fault: an error is read before the identity of the answer.
ErrorBeforeIdentity(a) ==
    IF a.http # 200 THEN Rejected(a.text)
    ELSE IF a.body # "object" THEN Rejected("body")
    ELSE IF a.error = "error" THEN RpcRequestError(a.code, a.message)
    ELSE IF ~ a.mine THEN Rejected("identity")
    ELSE IF a.result = "missing" THEN Rejected("missing") ELSE Resolved(a.result)

\* request and parseJsonRpcResponse.  An error of null is malformed, too.
Parsed(a) ==
    IF a.http # 200 THEN Rejected(a.text)
    ELSE IF a.body # "object" THEN Rejected("body")
    ELSE IF ~ a.mine THEN Rejected("identity")
    ELSE IF a.error \in {"null", "malformed"} THEN Rejected("malformed error")
    ELSE IF a.error = "error" THEN RpcRequestError(a.code, a.message)
    ELSE IF a.result = "missing" THEN Rejected("missing") ELSE Resolved(a.result)

\* Deliberate fault: words count, whatever the code.
WordsCount(o) == o.is = "rejected" /\ (o.code = NoSuchMethod \/ o.value = "method not found")

\* isMethodNotFoundError: of an error of the node only the code counts.
MethodNotFoundError(o) ==
    /\ o.is = "rejected"
    /\ IF o.code # Nothing THEN o.code = NoSuchMethod ELSE o.value = "method not found"

\* getStorageProfile reads a field of the result and takes some errors for "the
\* node does not report it"; a result of null is a TypeError.
Profile(o) ==
    IF MethodNotFoundError(o) \/ (o.is = "rejected" /\ o.value = "profile not configured")
    THEN Resolved("undefined")
    ELSE IF o.is = "rejected" THEN o
    ELSE IF o.value = "null" THEN Rejected("type error")
    ELSE IF o.value = "empty" THEN Resolved("undefined") ELSE o

\* Deliberate fault: a request that was answered with an HTTP error is sent again.
RetryHttpErrors ==
    /\ stage = "answered"
    /\ IF answer.http # 200 /\ executed < 2
       THEN stage' = "sent" /\ UNCHANGED outcome
       ELSE stage' = "settled" /\ outcome' = Parsed(answer)
    /\ UNCHANGED <<given, wire, executed, answer, reason>>

Settle ==
    /\ stage = "answered"
    /\ outcome' = IF called = "getStorageProfile" THEN Profile(Parsed(answer)) ELSE Parsed(answer)
    /\ stage' = "settled"
    /\ UNCHANGED <<given, wire, executed, answer, reason>>

RpcNext ==
    \/ Create \/ Validate
    \/ Execute \/ Refuse \/ Unrouted
    \/ Garble \/ NetworkFails
    \/ Settle

RpcSpec == RpcInit /\ [][RpcNext]_rpcVars

-----------------------------------------------------------------------------

\* What the caller may conclude, whatever happened to the answer: a result means
\* that the node executed the call, once, with arguments as it understands them;
\* an RpcRequestError, or an error in arguments or options, that it did not; any other
\* error leaves it open, but the call was not executed twice.
OutcomeIsDefinite ==
    /\ executed <= 1
    /\ executed = 1 =>
         \A i \in DOMAIN wire : wire[i] \in WireForms(Checks(called)[i])
    /\ stage = "settled" =>
         /\ outcome.is = "resolved" /\ outcome.value # "undefined" => executed = 1
         /\ outcome.is = "rejected" /\ (outcome.code # Nothing \/ outcome.value \in {"options", "arguments"})
              => executed = 0

\* "undefined if the node does not report it" (getStorageProfile): never for an
\* answer that was garbled, nor for an error of another kind that sounds alike;
\* and a node that does not report it is no error.
UndefinedMeansUnreported ==
    stage = "settled" /\ called = "getStorageProfile" /\ outcome.value # "network" =>
        (outcome = Resolved("undefined") <=> reason = "unreported")

=============================================================================
