--------------------------- MODULE ReceiptPromise ---------------------------
(***************************************************************************)
(* What waitForTransactionReceipt (src/src/contracts.ts) promises to the   *)
(* code that awaits it: a one-shot verdict measured against a deadline.    *)
(* Nothing is said of polls, timers or races; ReceiptWait is the           *)
(* mechanism, and implements this specification.                           *)
(***************************************************************************)
EXTENDS Integers

CONSTANT Horizon        \* last clock value considered

VARIABLES
    now,                \* Date.now(), counted from the call
    deadline,           \* the clock value at which the wait is over
    mined,              \* the node has the receipt of the transaction
    outcome             \* how the returned promise settled

vars == <<now, deadline, mined, outcome>>

Init ==
    /\ now = 0
    /\ deadline \in 0 .. Horizon
    /\ mined \in BOOLEAN
    /\ outcome = "pending"

Tick ==
    /\ now < Horizon
    /\ now' = now + 1
    /\ UNCHANGED <<deadline, mined, outcome>>

Mine ==
    /\ ~ mined
    /\ mined' = TRUE
    /\ UNCHANGED <<now, deadline, outcome>>

\* A receipt is handed over only while the deadline is ahead, and only the
\* receipt of a transaction that the node really has.
Deliver ==
    /\ outcome = "pending"
    /\ mined
    /\ now < deadline
    /\ outcome' = "receipt"
    /\ UNCHANGED <<now, deadline, mined>>

\* A timeout is never early.
TimeOut ==
    /\ outcome = "pending"
    /\ now >= deadline
    /\ outcome' = "timeout"
    /\ UNCHANGED <<now, deadline, mined>>

\* The node answered with the receipt of another transaction.
RefuseForeign ==
    /\ outcome = "pending"
    /\ now < deadline
    /\ outcome' = "mismatch"
    /\ UNCHANGED <<now, deadline, mined>>

\* A failed RPC ends the wait; its error is passed on whatever the clock says.
PassRpcError ==
    /\ outcome = "pending"
    /\ outcome' = "rpcError"
    /\ UNCHANGED <<now, deadline, mined>>

Next == Tick \/ Mine \/ Deliver \/ TimeOut \/ RefuseForeign \/ PassRpcError

SafetySpec == Init /\ [][Next]_vars

Spec == SafetySpec /\ <>(outcome # "pending")

=============================================================================
