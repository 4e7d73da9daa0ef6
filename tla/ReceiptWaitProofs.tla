------------------------- MODULE ReceiptWaitProofs -------------------------
(***************************************************************************)
(* Proofs about ReceiptWait for every choice of timeouts, poll intervals,  *)
(* timer capacity and timer slack.  IInv is the inductive invariant: the   *)
(* control state determines which timers and requests are out.             *)
(***************************************************************************)
EXTENDS ReceiptWait, TLAPS

\* While the race is open a deadline timer is armed, so that a request the
\* node never answers cannot hang the wait.
RaceHasTimer ==
    pc = "race" /\ race = "undecided" => rpc = "open" /\ timer # NoTimer

\* Only a race that is still open, or has just been decided, keeps a timer.
TimerOnlyInRace == timer # NoTimer => pc = "race"

NapOnlyAsleep == nap # NoTimer <=> pc = "asleep"

\* Between two polls, and from the moment the answer has won the race, nothing
\* is out.
IdleBetweenPolls ==
    /\ pc \in {"test", "arm", "check", "nap", "asleep"} => rpc = "idle"
    /\ pc = "race" /\ race \in Replies => rpc = "idle"

\* What the race can have been won by when its value is looked at.
RaceTruthful ==
    /\ race = "timeout" => now >= deadline
    /\ race = "own" => mined
    /\ pc = "check" => race \in Receipts

SettledWhenDone == pc = "done" <=> outcome # "pending"

\* Every armed timer is due by the deadline.
DueByDeadline == timer <= deadline /\ nap <= deadline

IInv ==
    /\ TypeOK
    /\ RaceHasTimer
    /\ TimerOnlyInRace
    /\ NapOnlyAsleep
    /\ IdleBetweenPolls
    /\ RaceTruthful
    /\ SettledWhenDone
    /\ DueByDeadline

USE DEF NoTimer, Never

-----------------------------------------------------------------------------

\* A platform delay asked for a positive time is positive and never longer
\* than the time asked for.
LEMMA PlatformDelayBound ==
    ASSUME NEW ms \in Nat \ {0}
    PROVE  PlatformDelay(ms) \in Nat \ {0} /\ PlatformDelay(ms) <= ms
BY PlatformAssumption DEF PlatformDelay

\* checkDeadline either rejects at or past the deadline, or leaves a timer
\* armed that is due by the deadline.
LEMMA CheckDeadlineOutcome ==
    ASSUME now \in Nat, deadline \in Nat, CheckDeadline
    PROVE  \/ /\ now >= deadline
              /\ race' = "timeout"
              /\ timer' = NoTimer
           \/ /\ now < deadline
              /\ race' = "undecided"
              /\ timer' \in Nat
              /\ timer' > now
              /\ timer' <= deadline
<1>1. CASE deadline - now <= 0
  BY <1>1 DEF CheckDeadline
<1>2. CASE deadline - now > 0
  <2> DEFINE delay == Smaller(deadline - now, MaxTimerDelay)
  <2>1. delay \in Nat \ {0} /\ delay <= deadline - now
    BY <1>2, PlatformAssumption DEF Smaller
  <2>2. PlatformDelay(delay) \in Nat \ {0} /\ PlatformDelay(delay) <= delay
    BY <2>1, PlatformDelayBound
  <2>3. timer' = now + PlatformDelay(delay) /\ race' = "undecided"
    BY <1>2 DEF CheckDeadline
  <2> HIDE DEF delay
  <2> QED
    BY <1>2, <2>1, <2>2, <2>3
<1> QED
  BY <1>1, <1>2

\* The initial states satisfy the inductive invariant.
LEMMA InitIInv == Init => IInv
<1> SUFFICES ASSUME Init PROVE IInv
  OBVIOUS
<1>1. TypeOK
  <2>1. deadline \in 0 .. Horizon
    BY OptionsAssumption, PlatformAssumption DEF Init
  <2>2. pollIntervalMs \in Nat
    BY OptionsAssumption, PlatformAssumption DEF Init, Larger
  <2> QED
    BY <2>1, <2>2, PlatformAssumption DEF Init, TypeOK, Replies, Receipts
<1>2. DueByDeadline
  BY <1>1 DEF Init, DueByDeadline, TypeOK
<1> QED
  BY <1>1, <1>2 DEF Init, IInv, RaceHasTimer, TimerOnlyInRace, NapOnlyAsleep,
     IdleBetweenPolls, RaceTruthful, SettledWhenDone, Receipts

\* Every step preserves the inductive invariant.
LEMMA NextIInv == IInv /\ [Next]_vars => IInv'
<1> SUFFICES ASSUME IInv, [Next]_vars PROVE IInv'
  OBVIOUS
<1> USE DEF IInv, RaceHasTimer, TimerOnlyInRace, NapOnlyAsleep,
        IdleBetweenPolls, RaceTruthful, SettledWhenDone, DueByDeadline
<1>1. CASE WhileTest
  BY <1>1 DEF WhileTest, Settle, TypeOK
<1>2. CASE Poll
  <2>1. now \in Nat /\ deadline \in Nat /\ Horizon \in Nat
    BY PlatformAssumption DEF TypeOK
  <2>2. CheckDeadline
    BY <1>2 DEF Poll
  <2>3. \/ now >= deadline /\ race' = "timeout" /\ timer' = NoTimer
        \/ /\ now < deadline /\ race' = "undecided"
           /\ timer' \in Nat /\ timer' <= deadline
    BY <2>1, <2>2, CheckDeadlineOutcome
  <2> QED
    BY <1>2, <2>1, <2>3 DEF Poll, TypeOK, Replies, Receipts
<1>3. CASE TimerFires
  <2>1. now \in Nat /\ deadline \in Nat /\ Horizon \in Nat
    BY PlatformAssumption DEF TypeOK
  <2>2. CheckDeadline
    BY <1>3 DEF TimerFires
  <2>3. \/ now >= deadline /\ race' = "timeout" /\ timer' = NoTimer
        \/ /\ now < deadline /\ race' = "undecided"
           /\ timer' \in Nat /\ timer' <= deadline
    BY <2>1, <2>2, CheckDeadlineOutcome
  <2> QED
    BY <1>3, <2>1, <2>3 DEF TimerFires, TypeOK, Replies, Receipts
<1>4. CASE Resume
  BY <1>4 DEF Resume, Settle, TypeOK, Replies, Receipts
<1>5. CASE Examine
  BY <1>5 DEF Examine, Settle, TypeOK
<1>6. CASE Sleep
  <2>1. CASE deadline - now <= 0
    BY <1>6, <2>1 DEF Sleep, Settle, TypeOK
  <2>2. CASE deadline - now > 0
    <3> DEFINE delay == Smaller(pollIntervalMs, deadline - now)
    <3>1. delay \in Nat /\ delay <= deadline - now
      BY <2>2 DEF Smaller, TypeOK
    <3>2. PlatformDelay(delay) \in Nat /\ PlatformDelay(delay) <= deadline - now
      BY <2>2, <3>1, PlatformAssumption DEF PlatformDelay, TypeOK
    <3>3. nap' = now + PlatformDelay(delay) /\ pc' = "asleep"
      BY <1>6, <2>2 DEF Sleep, TypeOK
    <3> HIDE DEF delay
    <3>4. nap' \in 0 .. Horizon /\ nap' <= deadline /\ nap' # NoTimer
      BY <3>2, <3>3, PlatformAssumption DEF TypeOK
    <3> QED
      BY <1>6, <2>2, <3>3, <3>4 DEF Sleep, Settle, TypeOK
  <2> QED
    BY <2>1, <2>2 DEF TypeOK
<1>7. CASE Wake
  BY <1>7 DEF Wake, TypeOK
<1>8. ASSUME NEW reply \in Replies, RpcAnswers(reply) PROVE IInv'
  BY <1>8 DEF RpcAnswers, TypeOK, Replies, Receipts
<1>9. CASE Mine
  BY <1>9 DEF Mine, TypeOK
<1>10. CASE Tick
  BY <1>10, PlatformAssumption DEF Tick, TypeOK
<1>11. CASE UNCHANGED vars
  BY <1>11 DEF vars, TypeOK
<1> QED
  BY <1>1, <1>2, <1>3, <1>4, <1>5, <1>6, <1>7, <1>8, <1>9, <1>10, <1>11 DEF Next

\* The inductive invariant holds in every reachable state.
THEOREM Invariance == SafetySpec => []IInv
<1>1. Init => IInv
  BY InitIInv
<1>2. IInv /\ [Next]_vars => IInv'
  BY NextIInv
<1> QED
  BY <1>1, <1>2, PTL DEF SafetySpec

\* Every variable of the wait keeps its type (waitForTransactionReceipt).
THEOREM TypeCorrect == SafetySpec => []TypeOK
<1>1. IInv => TypeOK
  BY DEF IInv
<1> QED
  BY <1>1, Invariance, PTL

\* No deadline timer outlives its race and no timer outlives the wait.
THEOREM NoStrayTimerCorrect == SafetySpec => []NoStrayTimer
<1>1. IInv => NoStrayTimer
  BY DEF IInv, TimerOnlyInRace, NapOnlyAsleep, NoStrayTimer
<1> QED
  BY <1>1, Invariance, PTL

\* A wait never has two receipt requests out.
THEOREM OneRequestCorrect == SafetySpec => []OneRequestAtATime
<1>1. IInv => OneRequestAtATime
  BY DEF IInv, IdleBetweenPolls, OneRequestAtATime
<1> QED
  BY <1>1, Invariance, PTL

-----------------------------------------------------------------------------

\* A race that is not yet decided can hang only if no timer is left to decide
\* it; this is the safety half of the claim that every wait settles.
THEOREM OpenRaceHasTimer == SafetySpec => []RaceHasTimer
<1>1. IInv => RaceHasTimer
  BY DEF IInv
<1> QED
  BY <1>1, Invariance, PTL

-----------------------------------------------------------------------------

\* The polling loop implements the one-shot promise with a deadline: receipts
\* only before the deadline, timeouts only after it, one verdict.
THEOREM Implementation == SafetySpec => ImplementsPromise
<1>1. Init => Promise!Init
  <2> SUFFICES ASSUME Init PROVE Promise!Init
    OBVIOUS
  <2>1. deadline \in 0 .. Horizon
    BY OptionsAssumption, PlatformAssumption DEF Init
  <2> QED
    BY <2>1 DEF Init, Promise!Init
<1>2. IInv /\ [Next]_vars => [Promise!Next]_(Promise!vars)
  <2> SUFFICES ASSUME IInv, [Next]_vars PROVE [Promise!Next]_(Promise!vars)
    OBVIOUS
  <2> USE DEF Promise!vars, Promise!Next
  <2>1. CASE WhileTest
    BY <2>1 DEF WhileTest, Settle, IInv, SettledWhenDone, Promise!TimeOut
  <2>2. CASE Poll
    BY <2>2 DEF Poll
  <2>3. CASE TimerFires
    BY <2>3 DEF TimerFires
  <2>4. CASE Resume
    BY <2>4 DEF Resume, Settle, IInv, SettledWhenDone, RaceTruthful,
       Promise!TimeOut, Promise!PassRpcError
  <2>5. CASE Examine
    BY <2>5 DEF Examine, Settle, IInv, SettledWhenDone, RaceTruthful,
       Promise!TimeOut, Promise!Deliver, Promise!RefuseForeign
  <2>6. CASE Sleep
    BY <2>6 DEF Sleep, Settle, IInv, SettledWhenDone, TypeOK, Promise!TimeOut
  <2>7. CASE Wake
    BY <2>7 DEF Wake
  <2>8. ASSUME NEW reply \in Replies, RpcAnswers(reply)
        PROVE  UNCHANGED Promise!vars
    BY <2>8 DEF RpcAnswers
  <2>9. CASE Mine
    BY <2>9 DEF Mine, Promise!Mine
  <2>10. CASE Tick
    BY <2>10 DEF Tick, Promise!Tick
  <2>11. CASE UNCHANGED vars
    BY <2>11 DEF vars
  <2> QED
    BY <2>1, <2>2, <2>3, <2>4, <2>5, <2>6, <2>7, <2>8, <2>9, <2>10, <2>11
       DEF Next
<1> QED
  BY <1>1, <1>2, Invariance, PTL DEF SafetySpec, ImplementsPromise,
     Promise!SafetySpec

-----------------------------------------------------------------------------

\* What is known of the clock once a null answer has been read.
SleptLongEnough ==
    /\ pc = "asleep" =>
         \/ nap - lastNull >= MinPollMs
         \/ nap >= deadline
    /\ pc \in {"test", "arm"} /\ lastNull # Never =>
         \/ now - lastNull >= MinPollMs - TimerSlack
         \/ now + TimerSlack >= deadline
    /\ pc = "nap" => lastNull # Never
    /\ lastNull <= now
    /\ pollIntervalMs >= MinPollMs
    /\ pollIntervalMs <= MaxTimerDelay

\* Requests are at least the minimum poll interval apart, provided that every
\* poll interval fits in one timer: the sleep of line 424 is not split.
THEOREM PollSpacingCorrect ==
    ASSUME \A p \in PollMsSet : p <= MaxTimerDelay
    PROVE  SafetySpec => PollSpacing
<1>1. Init => SleptLongEnough
  BY OptionsAssumption, PlatformAssumption
     DEF Init, SleptLongEnough, Larger
<1>2. IInv /\ SleptLongEnough /\ [Next]_vars => SleptLongEnough'
  <2> SUFFICES ASSUME IInv, SleptLongEnough, [Next]_vars
               PROVE  SleptLongEnough'
    OBVIOUS
  <2> USE PlatformAssumption DEF SleptLongEnough, IInv, TypeOK
  <2>1. CASE WhileTest
    BY <2>1 DEF WhileTest, Settle
  <2>2. CASE Poll
    BY <2>2 DEF Poll
  <2>3. CASE TimerFires
    BY <2>3 DEF TimerFires
  <2>4. CASE Resume
    BY <2>4 DEF Resume, Settle
  <2>5. CASE Examine
    BY <2>5 DEF Examine, Settle
  <2>6. CASE Sleep
    <3>1. CASE deadline - now <= 0
      BY <2>6, <3>1 DEF Sleep, Settle
    <3>2. CASE deadline - now > 0
      <4> DEFINE delay == Smaller(pollIntervalMs, deadline - now)
      <4>1. /\ delay \in Nat \ {0}
            /\ delay <= MaxTimerDelay
            /\ delay >= MinPollMs \/ now + delay >= deadline
        BY <3>2 DEF Smaller
      <4>2. PlatformDelay(delay) = delay
        BY <4>1 DEF PlatformDelay
      <4>3. nap' = now + delay /\ pc' = "asleep" /\ lastNull' = lastNull
            /\ UNCHANGED <<now, deadline, pollIntervalMs>>
        BY <2>6, <3>2, <4>2 DEF Sleep
      <4> HIDE DEF delay
      <4> QED
        BY <4>1, <4>3
    <3> QED
      BY <3>1, <3>2
  <2>7. CASE Wake
    BY <2>7 DEF Wake, Due, NapOnlyAsleep
  <2>8. ASSUME NEW reply \in Replies, RpcAnswers(reply)
        PROVE  SleptLongEnough'
    BY <2>8 DEF RpcAnswers
  <2>9. CASE Mine
    BY <2>9 DEF Mine
  <2>10. CASE Tick
    BY <2>10 DEF Tick
  <2>11. CASE UNCHANGED vars
    BY <2>11 DEF vars
  <2> QED
    BY <2>1, <2>2, <2>3, <2>4, <2>5, <2>6, <2>7, <2>8, <2>9, <2>10, <2>11
       DEF Next
<1>3. IInv /\ SleptLongEnough /\ [Next]_vars =>
        [rpc = "idle" /\ rpc' = "open" /\ lastNull # Never
           => \/ now - lastNull >= MinPollMs - TimerSlack
              \/ now + TimerSlack >= deadline]_vars
  <2> SUFFICES ASSUME SleptLongEnough, [Next]_vars, rpc = "idle", rpc' = "open",
                      lastNull # Never
               PROVE  \/ now - lastNull >= MinPollMs - TimerSlack
                      \/ now + TimerSlack >= deadline
    OBVIOUS
  <2>1. pc = "arm"
    BY DEF Next, WhileTest, Poll, TimerFires, Resume, Examine, Sleep, Wake,
       RpcAnswers, Mine, Tick, vars
  <2> QED
    BY <2>1 DEF SleptLongEnough
<1> QED
  BY <1>1, <1>2, <1>3, Invariance, PTL DEF SafetySpec, PollSpacing

=============================================================================
