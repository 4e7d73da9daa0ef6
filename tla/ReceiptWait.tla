---------------------------- MODULE ReceiptWait ----------------------------
(***************************************************************************)
(* waitForTransactionReceipt of src/src/contracts.ts: a polling loop that  *)
(* races every eth_getTransactionReceipt request against a deadline timer. *)
(* Every point where control returns to the event loop, and every separate *)
(* reading of Date.now(), is a step of its own, so the clock may move      *)
(* between any two of them.                                                *)
(*                                                                         *)
(* The platform (timers, clock) and the node are external: a timer fires   *)
(* at any moment from TimerSlack before its due time on, a request is      *)
(* answered at any later moment or never, and an answer may come after the *)
(* wait has settled.  The clock does not run backwards.                    *)
(***************************************************************************)
EXTENDS Integers

CONSTANTS
    TimeoutMsSet,       \* values of options.timeoutMs
    PollMsSet,          \* values of options.pollIntervalMs
    MinPollMs,          \* the floor of the poll interval, 100 in the code
    MaxTimerDelay,      \* MAX_TIMER_DELAY_MS, 2^31 - 1 in the code
    TimerSlack,         \* how early a timer may fire, measured by Date.now()
    Horizon             \* last clock value considered

ASSUME OptionsAssumption ==
    /\ TimeoutMsSet \subseteq Nat
    /\ PollMsSet \subseteq Nat
ASSUME PlatformAssumption ==
    /\ MinPollMs \in Nat \ {0}
    /\ MaxTimerDelay \in Nat
    /\ MinPollMs <= MaxTimerDelay
    /\ TimerSlack \in Nat
    /\ Horizon \in Nat
    /\ \A t \in TimeoutMsSet : t <= Horizon

VARIABLES
    now,                \* Date.now(), counted from the call
    deadline,           \* const deadline
    pollIntervalMs,     \* const pollIntervalMs, after the clamp
    mined,              \* the node has the receipt of options.hash
    pc,                 \* where the async function stands
    rpc,                \* the eth_getTransactionReceipt request
    race,               \* what settled Promise.race first
    timer,              \* due time of the armed deadline timer, or NoTimer
    nap,                \* due time of the armed sleep timer, or NoTimer
    outcome,            \* how the returned promise settled
    lastNull            \* history: clock when the last null answer was read

vars == <<now, deadline, pollIntervalMs, mined, pc, rpc, race, timer, nap,
          outcome, lastNull>>

NoTimer == -1
Never == -1

\* "own": the receipt whose transactionHash is options.hash (any case);
\* "foreign": an object whose transactionHash is missing or another hash.
Receipts == {"null", "own", "foreign"}
Replies == Receipts \cup {"error"}

\* Deliberate fault: the poll interval is used as it was given.
Unclamped(a, b) == a

Larger(a, b) == IF a >= b THEN a ELSE b
Smaller(a, b) == IF a <= b THEN a ELSE b

\* setTimeout of the platform: a delay that does not fit in 31 bits, like one
\* below 1, becomes 1 ms.
PlatformDelay(ms) == IF ms < 1 \/ ms > MaxTimerDelay THEN 1 ELSE ms

Due(at) == now + TimerSlack >= at

-----------------------------------------------------------------------------

Init ==
    /\ now = 0
    /\ deadline \in TimeoutMsSet
    /\ \E p \in PollMsSet : pollIntervalMs = Larger(p, MinPollMs)
    /\ mined \in BOOLEAN
    /\ pc = "test"
    /\ rpc = "idle"
    /\ race = "undecided"
    /\ timer = NoTimer
    /\ nap = NoTimer
    /\ outcome = "pending"
    /\ lastNull = Never

Settle(how) ==
    /\ outcome' = how
    /\ pc' = "done"

\* while (Date.now() < deadline), and the throw behind the loop.
WhileTest ==
    /\ pc = "test"
    /\ \/ /\ now < deadline
          /\ pc' = "arm"
          /\ UNCHANGED outcome
       \/ /\ now >= deadline
          /\ Settle("timeout")
    /\ UNCHANGED <<now, deadline, pollIntervalMs, mined, rpc, race, timer,
                   nap, lastNull>>

\* Deliberate fault: a plain timer that rejects when it fires.
FirstTimerRejects ==
    /\ timer # NoTimer
    /\ race = "undecided"
    /\ Due(timer)
    /\ race' = "timeout"
    /\ timer' = NoTimer
    /\ UNCHANGED <<now, deadline, pollIntervalMs, mined, pc, rpc, nap, outcome,
                   lastNull>>

\* Deliberate fault: a timer that ends one poll instead of re-arming, so the
\* loop goes on while the request is still out.
TimerEndsOnePoll ==
    /\ timer # NoTimer
    /\ race = "undecided"
    /\ Due(timer)
    /\ race' = IF now >= deadline THEN "timeout" ELSE "null"
    /\ timer' = NoTimer
    /\ UNCHANGED <<now, deadline, pollIntervalMs, mined, pc, rpc, nap, outcome,
                   lastNull>>

\* Deliberate fault: the request is awaited without a deadline timer.
PollWithoutTimer ==
    /\ pc = "arm"
    /\ rpc' = "open"
    /\ race' = "undecided"
    /\ pc' = "race"
    /\ UNCHANGED <<now, deadline, pollIntervalMs, mined, timer, nap, outcome,
                   lastNull>>

\* Deliberate fault: clearTimeout is forgotten.
ResumeKeepsTimer ==
    /\ pc = "race"
    /\ race # "undecided"
    /\ \/ race = "timeout" /\ Settle("timeout")
       \/ race = "error" /\ Settle("rpcError")
       \/ race \in Receipts /\ pc' = "check" /\ UNCHANGED outcome
    /\ UNCHANGED <<now, deadline, pollIntervalMs, mined, rpc, race, timer, nap,
                   lastNull>>

\* Deliberate fault: the sleep is not cut to the time that remains.
SleepWholeInterval ==
    /\ pc = "nap"
    /\ nap' = now + PlatformDelay(pollIntervalMs)
    /\ pc' = "asleep"
    /\ UNCHANGED <<now, deadline, pollIntervalMs, mined, rpc, race, timer,
                   outcome, lastNull>>

\* checkDeadline: reject the timedOut promise, or arm the next timer for the
\* remaining time cut to what one timer can hold.
CheckDeadline ==
    \/ /\ deadline - now <= 0
       /\ race' = "timeout"
       /\ timer' = NoTimer
    \/ /\ deadline - now > 0
       /\ race' = "undecided"
       /\ timer' = now + PlatformDelay(Smaller(deadline - now, MaxTimerDelay))

\* The body of the loop up to its first await: the request leaves even when
\* the clock has just passed the deadline.
Poll ==
    /\ pc = "arm"
    /\ CheckDeadline
    /\ rpc' = "open"
    /\ pc' = "race"
    /\ UNCHANGED <<now, deadline, pollIntervalMs, mined, nap, outcome, lastNull>>

TimerFires ==
    /\ timer # NoTimer
    /\ race = "undecided"
    /\ Due(timer)
    /\ CheckDeadline
    /\ UNCHANGED <<now, deadline, pollIntervalMs, mined, pc, rpc, nap, outcome,
                   lastNull>>

\* The await of Promise.race continues: clearTimeout, then the rejection is
\* passed on or the receipt examined.
Resume ==
    /\ pc = "race"
    /\ race # "undecided"
    /\ timer' = NoTimer
    /\ \/ race = "timeout" /\ Settle("timeout")
       \/ race = "error" /\ Settle("rpcError")
       \/ race \in Receipts /\ pc' = "check" /\ UNCHANGED outcome
    /\ UNCHANGED <<now, deadline, pollIntervalMs, mined, rpc, race, nap, lastNull>>

\* The deadline is read again before the receipt is believed.
Examine ==
    /\ pc = "check"
    /\ \/ /\ now >= deadline
          /\ Settle("timeout")
          /\ UNCHANGED lastNull
       \/ /\ now < deadline
          /\ race = "own"
          /\ Settle("receipt")
          /\ UNCHANGED lastNull
       \/ /\ now < deadline
          /\ race = "foreign"
          /\ Settle("mismatch")
          /\ UNCHANGED lastNull
       \/ /\ now < deadline
          /\ race = "null"
          /\ pc' = "nap"
          /\ lastNull' = now
          /\ UNCHANGED outcome
    /\ UNCHANGED <<now, deadline, pollIntervalMs, mined, rpc, race, timer, nap>>

\* The sleep between two polls; its delay is not cut to MAX_TIMER_DELAY_MS.
Sleep ==
    /\ pc = "nap"
    /\ \/ /\ deadline - now <= 0
          /\ Settle("timeout")
          /\ UNCHANGED nap
       \/ /\ deadline - now > 0
          /\ nap' = now + PlatformDelay(Smaller(pollIntervalMs, deadline - now))
          /\ pc' = "asleep"
          /\ UNCHANGED outcome
    /\ UNCHANGED <<now, deadline, pollIntervalMs, mined, rpc, race, timer, lastNull>>

Wake ==
    /\ pc = "asleep"
    /\ Due(nap)
    /\ nap' = NoTimer
    /\ pc' = "test"
    /\ UNCHANGED <<now, deadline, pollIntervalMs, mined, rpc, race, timer,
                   outcome, lastNull>>

\* The node: an answer reaches the race unless the timer has won it.
RpcAnswers(reply) ==
    /\ rpc = "open"
    /\ reply = "own" => mined
    /\ rpc' = "idle"
    /\ race' = IF race = "undecided" THEN reply ELSE race
    /\ UNCHANGED <<now, deadline, pollIntervalMs, mined, pc, timer, nap, outcome,
                   lastNull>>

Mine ==
    /\ ~ mined
    /\ mined' = TRUE
    /\ UNCHANGED <<now, deadline, pollIntervalMs, pc, rpc, race, timer, nap,
                   outcome, lastNull>>

Tick ==
    /\ now < Horizon
    /\ now' = now + 1
    /\ UNCHANGED <<deadline, pollIntervalMs, mined, pc, rpc, race, timer, nap,
                   outcome, lastNull>>

Next ==
    \/ WhileTest \/ Poll \/ TimerFires \/ Resume \/ Examine \/ Sleep \/ Wake
    \/ \E reply \in Replies : RpcAnswers(reply)
    \/ Mine \/ Tick

\* Time passes, due timers fire and continuations run; the node owes nothing.
Fairness ==
    /\ WF_vars(Tick) /\ WF_vars(TimerFires) /\ WF_vars(Wake)
    /\ WF_vars(WhileTest) /\ WF_vars(Poll) /\ WF_vars(Resume)
    /\ WF_vars(Examine) /\ WF_vars(Sleep)

SafetySpec == Init /\ [][Next]_vars

Spec == SafetySpec /\ Fairness

-----------------------------------------------------------------------------

\* Every variable keeps its type; no timer is due after the last clock value,
\* since each one is cut to the time that remains (lines 390 and 424).
TypeOK ==
    /\ now \in 0 .. Horizon
    /\ deadline \in 0 .. Horizon
    /\ pollIntervalMs \in Nat
    /\ mined \in BOOLEAN
    /\ pc \in {"test", "arm", "race", "check", "nap", "asleep", "done"}
    /\ rpc \in {"idle", "open"}
    /\ race \in Replies \cup {"undecided", "timeout"}
    /\ timer \in {NoTimer} \cup 0 .. Horizon
    /\ nap \in {NoTimer} \cup 0 .. Horizon
    /\ outcome \in {"pending", "receipt", "timeout", "mismatch", "rpcError"}
    /\ lastNull \in {Never} \cup 0 .. Horizon

\* Outside the race no deadline timer is left armed, however often it was
\* re-armed and whoever won: the wait neither keeps the process alive after it
\* settles nor lets a timer of one poll act on a later one.
NoStrayTimer ==
    /\ timer # NoTimer => pc = "race"
    /\ pc = "done" => nap = NoTimer

\* A new receipt request is sent only when the previous one has been answered:
\* a slow node is never given a second request of the same wait.
OneRequestAtATime == pc \in {"test", "arm"} => rpc = "idle"

\* Between a null answer and the next request lies the minimum poll interval
\* (less the platform's timer slack), except at the very deadline: "clients do
\* not spin on pending transactions" (README, waitForTransactionReceipt).
PollSpacing ==
    [][rpc = "idle" /\ rpc' = "open" /\ lastNull # Never
         => \/ now - lastNull >= MinPollMs - TimerSlack
            \/ now + TimerSlack >= deadline]_vars

\* Whatever the node does, also when it never answers, the wait settles.
EventuallySettles == <>(outcome # "pending")

Promise == INSTANCE ReceiptPromise

\* The loop keeps the promise: no receipt at or after the deadline, none of a
\* transaction the node does not have, no timeout before the deadline although
\* timers overflow and fire early, and one verdict that nothing changes.
ImplementsPromise == Promise!SafetySpec

=============================================================================
