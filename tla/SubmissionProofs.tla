-------------------------- MODULE SubmissionProofs --------------------------
(***************************************************************************)
(* Proofs about Submission for any number of calls, signers, adapters and  *)
(* accounts.  The invariant is built in layers, each proved with the help  *)
(* of the ones before it: the types, what the control state of a call says *)
(* about its data (Control), what a verdict says about the node (the       *)
(* property VerdictTruthful), which keys are registered (KeyKnowledge) and *)
(* which nonces are taken (NonceKnowledge).                                *)
(***************************************************************************)
EXTENDS Submission, TLAPS

Taken == {"accepted", "duplicate"}

\* What the stage of a call says about its own data.
ControlOf(c) ==
    /\ pc[c] = "done" <=> verdict[c] # "pending"
    /\ wire[c] = NoId <=> submission[c] = "none"
    /\ pc[c] \in {"idle", "nonce", "key", "signing"} => wire[c] = NoId
    /\ pc[c] = "signing" => signedId[c] = Id(c, nonce[c])
    /\ wire[c] # NoId => wire[c] = Id(c, nonce[c]) /\ signedId[c] = wire[c]
    /\ pc[c] \in {"sending", "waiting"} => wire[c] # NoId
    /\ pc[c] = "nonce" => request[c].nonce = NoNonce
    /\ request[c].nonce # NoNonce /\ pc[c] \notin {"idle", "nonce"}
         => nonce[c] = request[c].nonce
    /\ request[c].nonce = NoNonce
         /\ (pc[c] \in {"key", "signing"} \/ wire[c] # NoId)
         => nonceReply[c] = nonce[c]

Control == \A c \in Calls : ControlOf(c)

\* What an acknowledgement says about the submission it answers, and the
\* verdict about both.
AckOf(c) ==
    /\ ackReply[c] = "hash" => submission[c] \in Taken
    /\ ackReply[c] = "error" => submission[c] \in {"duplicate", "refused"}
    /\ ackReply[c] # "none" => submission[c] \notin {"none", "inFlight"}
    /\ pc[c] = "waiting" => submission[c] \in Taken
    /\ verdict[c] \in Acknowledged => submission[c] \in Taken
    /\ verdict[c] \in CleanFailures
         => submission[c] \in {"none", "duplicate", "refused"}

AckTruthful == \A c \in Calls : AckOf(c)

\* What a verdict with a receipt says about the chain.
ReceiptTruthful ==
    \A c \in Calls :
        /\ verdict[c] \in {"confirmed", "noAddress"} => <<wire[c], TRUE>> \in mined
        /\ verdict[c] = "reverted" => <<wire[c], FALSE>> \in mined

\* What a call knows about the sender's key is still true.
KeyOf(c) ==
    /\ keyReply[c] = "key" => From(c) \in registered
    /\ request[c].includeKey = "auto" /\ ~ withKey[c]
         /\ (pc[c] = "signing" \/ wire[c] # NoId)
         => From(c) \in registered

KeyKnowledge == \A c \in Calls : KeyOf(c)

\* The nonce of a transaction that the node took stays occupied.
MinedBelowCount ==
    \A id \in Ids, ok \in BOOLEAN :
        <<id, ok>> \in mined => id.nonce < count[id.from]

TakenOccupies ==
    \A c \in Calls :
        submission[c] \in Taken => Occupied(wire[c].from, wire[c].nonce)

\* The nonce a call was given differs from those taken before it started.
NonceOf(c, d) ==
    /\ nonceReply[d] # NoNonce => pc[d] # "idle"
    /\ c \in before[d] => submission[c] \in Taken
    /\ c \in before[d] /\ nonceReply[d] # NoNonce /\ From(c) = From(d)
         => nonceReply[d] # wire[c].nonce

NonceKnowledge == \A c, d \in Calls : NonceOf(c, d)

IInv ==
    /\ TypeOK
    /\ Control
    /\ AckTruthful
    /\ ReceiptTruthful
    /\ KeyKnowledge
    /\ MinedBelowCount
    /\ TakenOccupies
    /\ NonceKnowledge

-----------------------------------------------------------------------------

\* The identifier of a call's transaction is well formed.
LEMMA IdType ==
    ASSUME TypeOK, NEW c \in Calls, NEW n \in 0 .. MaxNonce
    PROVE  Id(c, n) \in Ids
<1>1. request[c] \in Options
  BY ObjectsAssumption DEF TypeOK
<1>2. From(c) \in Accounts
  BY <1>1, ObjectsAssumption DEF From, Options
<1> QED
  BY <1>1, <1>2 DEF Id, Ids, Options

\* Starting to sign keeps the types.
LEMMA StartSigningType ==
    ASSUME TypeOK, NEW c \in Calls, NEW n \in 0 .. MaxNonce, NEW b \in BOOLEAN,
           StartSigning(c, n, b)
    PROVE  /\ pc' \in [Calls -> Stages]
           /\ nonce' \in [Calls -> 0 .. MaxNonce]
           /\ withKey' \in [Calls -> BOOLEAN]
           /\ signedId' \in [Calls -> Ids \cup {NoId}]
           /\ verdict' \in [Calls -> Verdicts]
<1>1. Id(c, n) \in Ids
  BY IdType
<1> QED
  BY <1>1 DEF StartSigning, Settle, TypeOK, Stages, Verdicts, CleanFailures

\* Deciding about the key keeps the types.
LEMMA DecideKeyType ==
    ASSUME TypeOK, NEW c \in Calls, NEW n \in 0 .. MaxNonce, DecideKey(c, n)
    PROVE  /\ pc' \in [Calls -> Stages]
           /\ nonce' \in [Calls -> 0 .. MaxNonce]
           /\ withKey' \in [Calls -> BOOLEAN]
           /\ signedId' \in [Calls -> Ids \cup {NoId}]
           /\ verdict' \in [Calls -> Verdicts]
<1>1. CASE AskForKey(c, n)
  BY <1>1 DEF AskForKey, TypeOK, Stages
<1>2. CASE StartSigning(c, n, request[c].includeKey = "yes")
  BY <1>2, StartSigningType
<1> QED
  BY <1>1, <1>2 DEF DecideKey

LEMMA TypeInit == Init => TypeOK
<1> SUFFICES ASSUME Init PROVE TypeOK
  OBVIOUS
<1> QED
  BY MaxNonceAssumption DEF Init, TypeOK, Stages, Verdicts, NoNonce

LEMMA TypeNext == TypeOK /\ Control /\ [Next]_vars => TypeOK'
<1> SUFFICES ASSUME TypeOK, Control, [Next]_vars PROVE TypeOK'
  OBVIOUS
<1> USE DEF client, replies, keys, node
<1>1. ASSUME NEW c \in Calls, Call(c) PROVE TypeOK'
  <2>1. before' \in [Calls -> SUBSET Calls]
    BY <1>1 DEF Call, TypeOK
  <2>2. CASE /\ request[c].nonce = NoNonce
             /\ pc' = [pc EXCEPT ![c] = "nonce"]
             /\ UNCHANGED <<nonce, withKey, signedId, verdict>>
    BY <1>1, <2>1, <2>2 DEF Call, TypeOK, Stages
  <2>3. CASE request[c].nonce # NoNonce /\ DecideKey(c, request[c].nonce)
    <3>1. request[c].nonce \in 0 .. MaxNonce
      BY <2>3, ObjectsAssumption DEF TypeOK, Options
    <3> QED
      BY <1>1, <2>1, <2>3, <3>1, DecideKeyType DEF Call, TypeOK
  <2> QED
    BY <1>1, <2>2, <2>3 DEF Call
<1>2. ASSUME NEW c \in Calls, CallerMutates(c) PROVE TypeOK'
  BY <1>2 DEF CallerMutates, TypeOK
<1>3. ASSUME NEW c \in Calls, NonceArrives(c) PROVE TypeOK'
  <2>1. nonceReply[c] \in 0 .. MaxNonce /\ DecideKey(c, nonceReply[c])
    BY <1>3 DEF NonceArrives, TypeOK
  <2> QED
    BY <1>3, <2>1, DecideKeyType DEF NonceArrives, TypeOK
<1>4. ASSUME NEW c \in Calls, KeyArrives(c) PROVE TypeOK'
  <2>1. /\ nonce[c] \in 0 .. MaxNonce
        /\ ShouldIncludePublicKey(keyReply[c]) \in BOOLEAN
        /\ StartSigning(c, nonce[c], ShouldIncludePublicKey(keyReply[c]))
    BY <1>4 DEF KeyArrives, TypeOK, ShouldIncludePublicKey
  <2> QED
    BY <1>4, <2>1, StartSigningType DEF KeyArrives, TypeOK
<1>5. ASSUME NEW c \in Calls, ReadFails(c) PROVE TypeOK'
  BY <1>5 DEF ReadFails, Settle, TypeOK, Stages, Verdicts, CleanFailures
<1>6. ASSUME NEW c \in Calls, Send(c) PROVE TypeOK'
  <2>1. Id(c, nonce[c]) \in Ids
    BY IdType DEF TypeOK
  <2> QED
    BY <1>6, <2>1 DEF Send, TypeOK, Stages
<1>7. ASSUME NEW c \in Calls, AdapterFails(c) PROVE TypeOK'
  BY <1>7 DEF AdapterFails, Settle, TypeOK, Stages, Verdicts, CleanFailures
<1>8. ASSUME NEW c \in Calls, AckArrives(c) PROVE TypeOK'
  BY <1>8 DEF AckArrives, Settle, TypeOK, Stages, Verdicts, CleanFailures,
     Acknowledged, Ambiguous
<1>9. ASSUME NEW c \in Calls, TransportFails(c) PROVE TypeOK'
  BY <1>9 DEF TransportFails, Settle, TypeOK, Stages, Verdicts, Ambiguous
<1>10. ASSUME NEW c \in Calls, ReceiptArrives(c) PROVE TypeOK'
  BY <1>10 DEF ReceiptArrives, Settle, TypeOK, Stages, Verdicts, Acknowledged
<1>11. ASSUME NEW c \in Calls, WaitFails(c) PROVE TypeOK'
  BY <1>11 DEF WaitFails, Settle, TypeOK, Stages, Verdicts, Acknowledged
<1>12. ASSUME NEW c \in Calls, ServeNonce(c) PROVE TypeOK'
  BY <1>12 DEF ServeNonce, PendingNonces, TypeOK
<1>13. ASSUME NEW c \in Calls, ServeKey(c) PROVE TypeOK'
  BY <1>13 DEF ServeKey, TypeOK
<1>14. ASSUME NEW c \in Calls, Accept(c) PROVE TypeOK'
  <2>1. wire[c] \in Ids
    <3>1. ControlOf(c)
      BY DEF Control
    <3> QED
      BY <1>14, <3>1 DEF Accept, ControlOf, TypeOK
  <2> QED
    BY <1>14, <2>1 DEF Accept, TypeOK
<1>15. ASSUME NEW c \in Calls, AnswerDuplicate(c) PROVE TypeOK'
  BY <1>15 DEF AnswerDuplicate, TypeOK
<1>16. ASSUME NEW c \in Calls, Refuse(c) PROVE TypeOK'
  BY <1>16 DEF Refuse, TypeOK
<1>17. ASSUME NEW s \in Signers, Dispose(s) PROVE TypeOK'
  BY <1>17 DEF Dispose, TypeOK
<1>18. ASSUME NEW id \in pool, Mine(id) PROVE TypeOK'
  <2>1. /\ id \in Ids /\ id.from \in Accounts /\ id.nonce \in 0 .. MaxNonce
        /\ id.nonce = count[id.from]
    BY <1>18 DEF Mine, TypeOK, Ids
  <2>2. count' \in [Accounts -> 0 .. MaxNonce + 1]
    BY <1>18, <2>1, MaxNonceAssumption DEF Mine, TypeOK
  <2>3. mined' \subseteq Ids \X BOOLEAN /\ pool' \subseteq Ids
    BY <1>18, <2>1 DEF Mine, TypeOK
  <2>4. registered' \subseteq Accounts
    BY <1>18, <2>1 DEF Mine, TypeOK
  <2> QED
    BY <1>18, <2>2, <2>3, <2>4 DEF Mine, TypeOK
<1>19. CASE UNCHANGED vars
  BY <1>19 DEF vars, TypeOK
<1> QED
  BY <1>1, <1>2, <1>3, <1>4, <1>5, <1>6, <1>7, <1>8, <1>9, <1>10, <1>11, <1>12,
     <1>13, <1>14, <1>15, <1>16, <1>17, <1>18, <1>19 DEF Next

-----------------------------------------------------------------------------

LEMMA ControlInit == Init => Control
<1> SUFFICES ASSUME Init, NEW c \in Calls PROVE ControlOf(c)
  BY DEF Control
<1>1. /\ pc[c] = "idle" /\ verdict[c] = "pending"
      /\ wire[c] = NoId /\ submission[c] = "none"
  BY DEF Init
<1> QED
  BY <1>1 DEF ControlOf

LEMMA ControlNext == TypeOK /\ Control /\ [Next]_vars => Control'
<1> SUFFICES ASSUME TypeOK, Control, [Next]_vars, NEW d \in Calls
             PROVE  ControlOf(d)'
  BY DEF Control
<1> USE DEF client, replies, keys, node, ControlOf, Id, From
<1>1. ControlOf(d)
  BY DEF Control
<1>2. ASSUME NEW c \in Calls, Call(c) PROVE ControlOf(d)'
  <2>1. CASE c # d
    BY <1>1, <1>2, <2>1 DEF Call, DecideKey, AskForKey, StartSigning, Settle, TypeOK
  <2>2. CASE c = d
    BY <1>1, <1>2, <2>2 DEF Call, DecideKey, AskForKey, StartSigning, Settle, TypeOK
  <2> QED
    BY <2>1, <2>2
<1>3. ASSUME NEW c \in Calls, CallerMutates(c) PROVE ControlOf(d)'
  BY <1>1, <1>3 DEF CallerMutates
<1>4. ASSUME NEW c \in Calls, NonceArrives(c) PROVE ControlOf(d)'
  BY <1>1, <1>4 DEF NonceArrives, DecideKey, AskForKey, StartSigning, Settle, TypeOK
<1>5. ASSUME NEW c \in Calls, KeyArrives(c) PROVE ControlOf(d)'
  BY <1>1, <1>5 DEF KeyArrives, StartSigning, Settle, TypeOK
<1>6. ASSUME NEW c \in Calls, ReadFails(c) PROVE ControlOf(d)'
  BY <1>1, <1>6 DEF ReadFails, Settle, TypeOK
<1>7. ASSUME NEW c \in Calls, Send(c) PROVE ControlOf(d)'
  <2>1. Id(c, nonce[c]) # NoId
    BY IdType, NoIdAssumption DEF TypeOK
  <2> QED
    BY <1>1, <1>7, <2>1 DEF Send, TypeOK
<1>8. ASSUME NEW c \in Calls, AdapterFails(c) PROVE ControlOf(d)'
  BY <1>1, <1>8 DEF AdapterFails, Settle, TypeOK
<1>9. ASSUME NEW c \in Calls, AckArrives(c) PROVE ControlOf(d)'
  BY <1>1, <1>9 DEF AckArrives, Settle, TypeOK
<1>10. ASSUME NEW c \in Calls, TransportFails(c) PROVE ControlOf(d)'
  BY <1>1, <1>10 DEF TransportFails, Settle, TypeOK
<1>11. ASSUME NEW c \in Calls, ReceiptArrives(c) PROVE ControlOf(d)'
  BY <1>1, <1>11 DEF ReceiptArrives, Settle, TypeOK
<1>12. ASSUME NEW c \in Calls, WaitFails(c) PROVE ControlOf(d)'
  BY <1>1, <1>12 DEF WaitFails, Settle, TypeOK
<1>13. ASSUME NEW c \in Calls, ServeNonce(c) PROVE ControlOf(d)'
  BY <1>1, <1>13 DEF ServeNonce, TypeOK
<1>14. ASSUME NEW c \in Calls, ServeKey(c) PROVE ControlOf(d)'
  BY <1>1, <1>14 DEF ServeKey
<1>15. ASSUME NEW c \in Calls, Accept(c) PROVE ControlOf(d)'
  BY <1>1, <1>15 DEF Accept, TypeOK
<1>16. ASSUME NEW c \in Calls, AnswerDuplicate(c) PROVE ControlOf(d)'
  BY <1>1, <1>16 DEF AnswerDuplicate, TypeOK
<1>17. ASSUME NEW c \in Calls, Refuse(c) PROVE ControlOf(d)'
  BY <1>1, <1>17 DEF Refuse, TypeOK
<1>18. ASSUME NEW s \in Signers, Dispose(s) PROVE ControlOf(d)'
  BY <1>1, <1>18 DEF Dispose
<1>19. ASSUME NEW id \in pool, Mine(id) PROVE ControlOf(d)'
  BY <1>1, <1>19 DEF Mine
<1>20. CASE UNCHANGED vars
  BY <1>1, <1>20 DEF vars
<1> QED
  BY <1>2, <1>3, <1>4, <1>5, <1>6, <1>7, <1>8, <1>9, <1>10, <1>11, <1>12, <1>13,
     <1>14, <1>15, <1>16, <1>17, <1>18, <1>19, <1>20 DEF Next

-----------------------------------------------------------------------------

LEMMA AckInit == Init => AckTruthful
<1> SUFFICES ASSUME Init, NEW c \in Calls PROVE AckOf(c)
  BY DEF AckTruthful
<1>1. /\ pc[c] = "idle" /\ verdict[c] = "pending"
      /\ ackReply[c] = "none" /\ submission[c] = "none"
  BY DEF Init
<1> QED
  BY <1>1 DEF AckOf, Acknowledged, CleanFailures

LEMMA AckNext ==
    TypeOK /\ Control /\ AckTruthful /\ [Next]_vars => AckTruthful'
<1> SUFFICES ASSUME TypeOK, Control, AckTruthful, [Next]_vars, NEW d \in Calls
             PROVE  AckOf(d)'
  BY DEF AckTruthful
<1> USE DEF client, replies, keys, node, AckOf, Taken, Acknowledged, CleanFailures
<1>1. AckOf(d) /\ ControlOf(d)
  BY DEF Control, AckTruthful
<1>2. ASSUME NEW c \in Calls, Call(c) PROVE AckOf(d)'
  BY <1>1, <1>2 DEF Call, DecideKey, AskForKey, StartSigning, Settle, ControlOf, TypeOK
<1>3. ASSUME NEW c \in Calls, CallerMutates(c) PROVE AckOf(d)'
  BY <1>1, <1>3 DEF CallerMutates, ControlOf, TypeOK
<1>4. ASSUME NEW c \in Calls, NonceArrives(c) PROVE AckOf(d)'
  BY <1>1, <1>4 DEF NonceArrives, DecideKey, AskForKey, StartSigning, Settle, ControlOf, TypeOK
<1>5. ASSUME NEW c \in Calls, KeyArrives(c) PROVE AckOf(d)'
  BY <1>1, <1>5 DEF KeyArrives, StartSigning, Settle, ControlOf, TypeOK
<1>6. ASSUME NEW c \in Calls, ReadFails(c) PROVE AckOf(d)'
  BY <1>1, <1>6 DEF ReadFails, Settle, ControlOf, TypeOK
<1>7. ASSUME NEW c \in Calls, Send(c) PROVE AckOf(d)'
  BY <1>1, <1>7 DEF Send, ControlOf, TypeOK
<1>8. ASSUME NEW c \in Calls, AdapterFails(c) PROVE AckOf(d)'
  BY <1>1, <1>8 DEF AdapterFails, Settle, ControlOf, TypeOK
<1>9. ASSUME NEW c \in Calls, AckArrives(c) PROVE AckOf(d)'
  BY <1>1, <1>9 DEF AckArrives, Settle, ControlOf, TypeOK
<1>10. ASSUME NEW c \in Calls, TransportFails(c) PROVE AckOf(d)'
  BY <1>1, <1>10 DEF TransportFails, Settle, ControlOf, TypeOK
<1>11. ASSUME NEW c \in Calls, ReceiptArrives(c) PROVE AckOf(d)'
  BY <1>1, <1>11 DEF ReceiptArrives, Settle, ControlOf, TypeOK
<1>12. ASSUME NEW c \in Calls, WaitFails(c) PROVE AckOf(d)'
  BY <1>1, <1>12 DEF WaitFails, Settle, ControlOf, TypeOK
<1>13. ASSUME NEW c \in Calls, ServeNonce(c) PROVE AckOf(d)'
  BY <1>1, <1>13 DEF ServeNonce, ControlOf, TypeOK
<1>14. ASSUME NEW c \in Calls, ServeKey(c) PROVE AckOf(d)'
  BY <1>1, <1>14 DEF ServeKey, ControlOf, TypeOK
<1>15. ASSUME NEW c \in Calls, Accept(c) PROVE AckOf(d)'
  BY <1>1, <1>15 DEF Accept, ControlOf, TypeOK
<1>16. ASSUME NEW c \in Calls, AnswerDuplicate(c) PROVE AckOf(d)'
  BY <1>1, <1>16 DEF AnswerDuplicate, ControlOf, TypeOK
<1>17. ASSUME NEW c \in Calls, Refuse(c) PROVE AckOf(d)'
  BY <1>1, <1>17 DEF Refuse, ControlOf, TypeOK
<1>18. ASSUME NEW s \in Signers, Dispose(s) PROVE AckOf(d)'
  BY <1>1, <1>18 DEF Dispose
<1>19. ASSUME NEW id \in pool, Mine(id) PROVE AckOf(d)'
  BY <1>1, <1>19 DEF Mine
<1>20. CASE UNCHANGED vars
  BY <1>1, <1>20 DEF vars
<1> QED
  BY <1>2, <1>3, <1>4, <1>5, <1>6, <1>7, <1>8, <1>9, <1>10, <1>11, <1>12, <1>13,
     <1>14, <1>15, <1>16, <1>17, <1>18, <1>19, <1>20 DEF Next

-----------------------------------------------------------------------------

\* Apart from five actions nothing changes a submission or the node's pool and
\* chain.
LEMMA NodeFrame ==
    ASSUME [Next]_vars
    PROVE  \/ UNCHANGED <<wire, submission, pool, mined, count, registered>>
           \/ \E c \in Calls : Send(c)
           \/ \E c \in Calls : Accept(c)
           \/ \E c \in Calls : AnswerDuplicate(c)
           \/ \E c \in Calls : Refuse(c)
           \/ \E id \in pool : Mine(id)
BY DEF Next, vars, client, replies, keys, node, Call, CallerMutates, NonceArrives,
   KeyArrives, ReadFails, AdapterFails, AckArrives, TransportFails, ReceiptArrives,
   WaitFails, ServeNonce, ServeKey, Dispose

\* What the caller passed is never written again.
LEMMA RequestFrame == [Next]_vars => UNCHANGED request
BY DEF Next, vars, client, replies, keys, node, Call, CallerMutates, NonceArrives,
   KeyArrives, ReadFails, Send, AdapterFails, AckArrives, TransportFails,
   ReceiptArrives, WaitFails, ServeNonce, ServeKey, Accept, AnswerDuplicate, Refuse,
   Dispose, Mine

\* A transaction that the node took is not sent again and stays taken.
LEMMA TakenStable ==
    ASSUME TypeOK, Control, [Next]_vars, NEW d \in Calls, submission[d] \in Taken
    PROVE  submission'[d] \in Taken /\ wire'[d] = wire[d] /\ wire[d] \in Ids
<1> USE DEF Taken
<1>1. ControlOf(d)
  BY DEF Control
<1>2. wire[d] \in Ids
  BY <1>1 DEF ControlOf, TypeOK
<1>3. ASSUME NEW c \in Calls, Send(c)
      PROVE  submission'[d] \in Taken /\ wire'[d] = wire[d]
  BY <1>1, <1>3 DEF Send, ControlOf, TypeOK
<1>4. ASSUME NEW c \in Calls, Accept(c) \/ AnswerDuplicate(c) \/ Refuse(c)
      PROVE  submission'[d] \in Taken /\ wire'[d] = wire[d]
  BY <1>4 DEF Accept, AnswerDuplicate, Refuse, client, TypeOK
<1>5. ASSUME NEW id \in pool, Mine(id)
      PROVE  submission'[d] \in Taken /\ wire'[d] = wire[d]
  BY <1>5 DEF Mine, client, replies
<1> QED
  BY <1>2, <1>3, <1>4, <1>5, NodeFrame

\* Nonces of mined transactions lie below the account's count.
LEMMA MinedNext ==
    TypeOK /\ MinedBelowCount /\ [Next]_vars => MinedBelowCount'
<1> SUFFICES ASSUME TypeOK, MinedBelowCount, [Next]_vars,
                    NEW t \in Ids, NEW ok \in BOOLEAN, <<t, ok>> \in mined'
             PROVE  t.nonce < count'[t.from]
  BY DEF MinedBelowCount
<1>1. t.from \in Accounts /\ t.nonce \in 0 .. MaxNonce
  BY DEF Ids
<1>2. CASE UNCHANGED <<mined, count>>
  BY <1>2 DEF MinedBelowCount
<1>3. ASSUME NEW id \in pool, Mine(id) PROVE t.nonce < count'[t.from]
  <2>1. id \in Ids /\ id.from \in Accounts /\ id.nonce \in 0 .. MaxNonce
    BY DEF TypeOK, Ids
  <2>2. count' = [count EXCEPT ![id.from] = count[id.from] + 1]
        /\ id.nonce = count[id.from]
    BY <1>3 DEF Mine
  <2>3. CASE <<t, ok>> \in mined
    <3>1. t.nonce < count[t.from]
      BY <2>3 DEF MinedBelowCount
    <3> QED
      BY <1>1, <2>1, <2>2, <3>1, MaxNonceAssumption DEF TypeOK
  <2>4. CASE <<t, ok>> \notin mined
    <3>1. t = id
      BY <1>3, <2>4 DEF Mine
    <3> QED
      BY <2>1, <2>2, <3>1, MaxNonceAssumption DEF TypeOK
  <2> QED
    BY <2>3, <2>4
<1> QED
  BY <1>2, <1>3, NodeFrame DEF Send, Accept, AnswerDuplicate, Refuse, node, client,
     replies

\* A nonce once occupied stays so: replacement keeps it in the pool, mining
\* moves the account's count past it.
LEMMA OccupiedStable ==
    ASSUME TypeOK, Control, [Next]_vars, NEW a \in Accounts,
           NEW n \in 0 .. MaxNonce, Occupied(a, n)
    PROVE  Occupied(a, n)'
<1>1. CASE UNCHANGED <<pool, count>>
  BY <1>1 DEF Occupied
<1>2. ASSUME NEW c \in Calls, Accept(c) PROVE Occupied(a, n)'
  BY <1>2 DEF Accept, Occupied
<1>3. ASSUME NEW id \in pool, Mine(id) PROVE Occupied(a, n)'
  <2>1. id \in Ids /\ id.from \in Accounts /\ id.nonce \in 0 .. MaxNonce
    BY DEF TypeOK, Ids
  <2>2. /\ count' = [count EXCEPT ![id.from] = count[id.from] + 1]
        /\ id.nonce = count[id.from]
        /\ pool' = pool \ {id}
    BY <1>3 DEF Mine
  <2>3. CASE n < count[a]
    <3>1. n < count'[a]
      BY <2>1, <2>2, <2>3, MaxNonceAssumption DEF TypeOK
    <3> QED
      BY <3>1 DEF Occupied
  <2>4. CASE id.from = a /\ id.nonce = n
    <3>1. n < count'[a]
      BY <2>1, <2>2, <2>4, MaxNonceAssumption DEF TypeOK
    <3> QED
      BY <3>1 DEF Occupied
  <2>5. CASE ~ (n < count[a]) /\ ~ (id.from = a /\ id.nonce = n)
    <3>1. PICK t \in pool : t.from = a /\ t.nonce = n
      BY <2>5 DEF Occupied
    <3>2. t \in pool'
      BY <2>2, <2>5, <3>1
    <3> QED
      BY <3>1, <3>2 DEF Occupied
  <2> QED
    BY <2>3, <2>4, <2>5
<1> QED
  BY <1>1, <1>2, <1>3, NodeFrame DEF Send, AnswerDuplicate, Refuse, node

\* What the node took occupies its nonce.
LEMMA TakenNext ==
    /\ TypeOK /\ TypeOK' /\ Control /\ MinedBelowCount /\ TakenOccupies
    /\ [Next]_vars
    => TakenOccupies'
<1> SUFFICES ASSUME TypeOK, TypeOK', Control, MinedBelowCount, TakenOccupies,
                    [Next]_vars, NEW d \in Calls, submission'[d] \in Taken
             PROVE  Occupied(wire[d].from, wire[d].nonce)'
  BY DEF TakenOccupies
<1>1. CASE submission[d] \in Taken
  <2>1. wire'[d] = wire[d] /\ wire[d] \in Ids
    BY <1>1, TakenStable
  <2>2. wire[d].from \in Accounts /\ wire[d].nonce \in 0 .. MaxNonce
    BY <2>1 DEF Ids
  <2>3. Occupied(wire[d].from, wire[d].nonce)
    BY <1>1 DEF TakenOccupies
  <2> DEFINE a == wire[d].from  n == wire[d].nonce
  <2>4. Occupied(wire[d].from, wire[d].nonce)
          => (n < count'[a] \/ \E id \in pool' : id.from = a /\ id.nonce = n)
    BY <2>2, OccupiedStable DEF Occupied
  <2> QED
    BY <2>1, <2>3, <2>4 DEF Occupied
<1>2. CASE submission[d] \notin Taken
  <2>1. \/ Accept(d)
        \/ AnswerDuplicate(d)
    BY <1>2, NodeFrame DEF Send, Accept, AnswerDuplicate, Refuse, Mine, TypeOK,
       Taken, replies
  <2>2. wire'[d] = wire[d] /\ wire[d] \in Ids
    <3>1. ControlOf(d)
      BY DEF Control
    <3> QED
      BY <2>1, <3>1 DEF Accept, AnswerDuplicate, ControlOf, TypeOK, client
  <2>3. CASE Accept(d)
    BY <2>2, <2>3 DEF Accept, Occupied
  <2>4. CASE AnswerDuplicate(d)
    <3>1. pool' = pool /\ count' = count
      BY <2>4 DEF AnswerDuplicate, node
    <3>2. CASE wire[d] \in pool
      BY <2>2, <3>1, <3>2 DEF Occupied
    <3>3. CASE wire[d] \notin pool
      <4>1. wire[d].nonce < count[wire[d].from]
        BY <2>2, <2>4, <3>3 DEF AnswerDuplicate, Known, MinedBelowCount
      <4> QED
        BY <2>2, <3>1, <4>1 DEF Occupied
    <3> QED
      BY <3>2, <3>3
  <2> QED
    BY <2>1, <2>3, <2>4
<1> QED
  BY <1>1, <1>2

-----------------------------------------------------------------------------

\* Where a call stands and what it was told, after a step: everything as before,
\* or the consequence of one of its own actions.
CallFrame(d) ==
    /\ pc'[d] = "idle" => pc[d] = "idle"
    /\ pc'[d] = "signing" /\ pc[d] # "signing"
         => Call(d) \/ NonceArrives(d) \/ KeyArrives(d)
    /\ withKey'[d] # withKey[d] => Call(d) \/ NonceArrives(d) \/ KeyArrives(d)
    /\ wire'[d] # wire[d] => Send(d)
    /\ nonceReply'[d] # nonceReply[d] => ServeNonce(d)
    /\ keyReply'[d] # keyReply[d] => ServeKey(d)
    /\ before'[d] # before[d] => Call(d)
    /\ verdict'[d] # verdict[d] /\ verdict'[d] \in {"confirmed", "noAddress", "reverted"}
         => ReceiptArrives(d)

LEMMA CallFrameHolds ==
    ASSUME TypeOK, [Next]_vars, NEW d \in Calls
    PROVE  CallFrame(d)
<1> USE DEF client, replies, keys, node, CallFrame
<1>1. ASSUME NEW c \in Calls, Call(c) PROVE CallFrame(d)
  BY <1>1 DEF Call, DecideKey, AskForKey, StartSigning, Settle, TypeOK
<1>2. ASSUME NEW c \in Calls, CallerMutates(c) PROVE CallFrame(d)
  BY <1>2 DEF CallerMutates, TypeOK
<1>3. ASSUME NEW c \in Calls, NonceArrives(c) PROVE CallFrame(d)
  BY <1>3 DEF NonceArrives, DecideKey, AskForKey, StartSigning, Settle, TypeOK
<1>4. ASSUME NEW c \in Calls, KeyArrives(c) PROVE CallFrame(d)
  BY <1>4 DEF KeyArrives, StartSigning, Settle, TypeOK
<1>5. ASSUME NEW c \in Calls, ReadFails(c) PROVE CallFrame(d)
  BY <1>5 DEF ReadFails, Settle, TypeOK
<1>6. ASSUME NEW c \in Calls, Send(c) PROVE CallFrame(d)
  BY <1>6 DEF Send, TypeOK
<1>7. ASSUME NEW c \in Calls, AdapterFails(c) PROVE CallFrame(d)
  BY <1>7 DEF AdapterFails, Settle, TypeOK
<1>8. ASSUME NEW c \in Calls, AckArrives(c) PROVE CallFrame(d)
  BY <1>8 DEF AckArrives, Settle, TypeOK
<1>9. ASSUME NEW c \in Calls, TransportFails(c) PROVE CallFrame(d)
  BY <1>9 DEF TransportFails, Settle, TypeOK
<1>10. ASSUME NEW c \in Calls, ReceiptArrives(c) PROVE CallFrame(d)
  BY <1>10 DEF ReceiptArrives, Settle, TypeOK
<1>11. ASSUME NEW c \in Calls, WaitFails(c) PROVE CallFrame(d)
  BY <1>11 DEF WaitFails, Settle, TypeOK
<1>12. ASSUME NEW c \in Calls, ServeNonce(c) PROVE CallFrame(d)
  BY <1>12 DEF ServeNonce, TypeOK
<1>13. ASSUME NEW c \in Calls, ServeKey(c) PROVE CallFrame(d)
  BY <1>13 DEF ServeKey, TypeOK
<1>14. ASSUME NEW c \in Calls, Accept(c) PROVE CallFrame(d)
  BY <1>14 DEF Accept, TypeOK
<1>15. ASSUME NEW c \in Calls, AnswerDuplicate(c) PROVE CallFrame(d)
  BY <1>15 DEF AnswerDuplicate, TypeOK
<1>16. ASSUME NEW c \in Calls, Refuse(c) PROVE CallFrame(d)
  BY <1>16 DEF Refuse, TypeOK
<1>17. ASSUME NEW s \in Signers, Dispose(s) PROVE CallFrame(d)
  BY <1>17 DEF Dispose
<1>18. ASSUME NEW id \in pool, Mine(id) PROVE CallFrame(d)
  BY <1>18 DEF Mine
<1>19. CASE UNCHANGED vars
  BY <1>19 DEF vars
<1> QED
  BY <1>1, <1>2, <1>3, <1>4, <1>5, <1>6, <1>7, <1>8, <1>9, <1>10, <1>11, <1>12,
     <1>13, <1>14, <1>15, <1>16, <1>17, <1>18, <1>19 DEF Next

\* What is mined stays mined.
LEMMA MinedGrows ==
    ASSUME [Next]_vars
    PROVE  mined \subseteq mined' /\ registered \subseteq registered'
BY NodeFrame DEF Send, Accept, AnswerDuplicate, Refuse, Mine, node

LEMMA ReceiptNext ==
    TypeOK /\ Control /\ ReceiptTruthful /\ [Next]_vars => ReceiptTruthful'
<1> DEFINE R(c) ==
        /\ verdict[c] \in {"confirmed", "noAddress"} => <<wire[c], TRUE>> \in mined
        /\ verdict[c] = "reverted" => <<wire[c], FALSE>> \in mined
<1> SUFFICES ASSUME TypeOK, Control, ReceiptTruthful, [Next]_vars, NEW d \in Calls
             PROVE  R(d)'
  BY DEF ReceiptTruthful
<1>1. R(d) /\ ControlOf(d)
  BY DEF ReceiptTruthful, Control
<1>2. mined \subseteq mined'
  BY MinedGrows
<1>3. CallFrame(d)
  BY CallFrameHolds
<1>4. CASE verdict'[d] = verdict[d] /\ wire'[d] = wire[d]
  BY <1>1, <1>2, <1>4
<1>5. CASE wire'[d] # wire[d]
  <2>1. Send(d) /\ verdict'[d] = "pending"
    BY <1>1, <1>3, <1>5 DEF CallFrame, Send, ControlOf, TypeOK
  <2> QED
    BY <2>1
<1>6. CASE verdict'[d] # verdict[d] /\ wire'[d] = wire[d]
  <2>1. CASE verdict'[d] \notin {"confirmed", "noAddress", "reverted"}
    BY <2>1
  <2>2. CASE verdict'[d] \in {"confirmed", "noAddress", "reverted"}
    <3>1. ReceiptArrives(d)
      BY <1>3, <1>6, <2>2 DEF CallFrame
    <3>2. \/ verdict'[d] = "reverted" /\ <<wire[d], FALSE>> \in mined
          \/ verdict'[d] \in {"confirmed", "noAddress"} /\ <<wire[d], TRUE>> \in mined
      BY <3>1 DEF ReceiptArrives, Settle, TypeOK
    <3> QED
      BY <1>2, <1>6, <3>2
  <2> QED
    BY <2>1, <2>2
<1> QED
  BY <1>4, <1>5, <1>6

\* What calls know about keys stays true, because registration is for good.
LEMMA KeyNext ==
    TypeOK /\ Control /\ KeyKnowledge /\ [Next]_vars => KeyKnowledge'
<1> SUFFICES ASSUME TypeOK, Control, KeyKnowledge, [Next]_vars, NEW d \in Calls
             PROVE  KeyOf(d)'
  BY DEF KeyKnowledge
<1> USE DEF KeyOf, From
<1>1. KeyOf(d) /\ ControlOf(d)
  BY DEF KeyKnowledge, Control
<1>2. registered \subseteq registered' /\ request' = request
  BY MinedGrows, RequestFrame
<1>3. CallFrame(d)
  BY CallFrameHolds
<1>4. CASE Call(d) \/ NonceArrives(d)
  <2>1. wire'[d] = NoId /\ keyReply' = keyReply
    BY <1>1, <1>4 DEF Call, NonceArrives, replies, ControlOf
  <2>2. request[d].includeKey = "auto" => pc'[d] \in {"nonce", "key"}
    BY <1>4 DEF Call, NonceArrives, DecideKey, AskForKey, TypeOK
  <2> QED
    BY <1>1, <1>2, <2>1, <2>2
<1>5. CASE KeyArrives(d)
  <2>1. wire' = wire /\ keyReply' = keyReply
        /\ withKey'[d] = (keyReply[d] = "null") /\ keyReply[d] \in {"null", "key"}
    BY <1>5 DEF KeyArrives, replies, StartSigning, ShouldIncludePublicKey, TypeOK
  <2> QED
    BY <1>1, <1>2, <2>1
<1>6. CASE ServeKey(d)
  BY <1>1, <1>2, <1>6 DEF ServeKey, client, TypeOK
<1>7. CASE Send(d)
  BY <1>1, <1>2, <1>7 DEF Send, TypeOK
<1>8. CASE ~ Call(d) /\ ~ NonceArrives(d) /\ ~ KeyArrives(d) /\ ~ ServeKey(d)
             /\ ~ Send(d)
  <2>1. /\ keyReply'[d] = keyReply[d] /\ withKey'[d] = withKey[d]
        /\ wire'[d] = wire[d]
        /\ pc'[d] = "signing" => pc[d] = "signing"
    BY <1>3, <1>8 DEF CallFrame
  <2> QED
    BY <1>1, <1>2, <2>1
<1> QED
  BY <1>4, <1>5, <1>6, <1>7, <1>8

\* A nonce served after a call started avoids every nonce taken before.
LEMMA NonceNext ==
    /\ TypeOK /\ Control /\ AckTruthful /\ TakenOccupies /\ NonceKnowledge
    /\ [Next]_vars
    => NonceKnowledge'
<1> SUFFICES ASSUME TypeOK, Control, AckTruthful, TakenOccupies, NonceKnowledge,
                    [Next]_vars, NEW c \in Calls, NEW d \in Calls
             PROVE  NonceOf(c, d)'
  BY DEF NonceKnowledge
<1> USE DEF NonceOf, From
<1>1. NonceOf(c, d) /\ AckOf(c) /\ ControlOf(c)
  BY DEF NonceKnowledge, AckTruthful, Control
<1>2. request' = request
  BY RequestFrame
<1>3. submission[c] \in Taken => submission'[c] \in Taken /\ wire'[c] = wire[c]
  BY TakenStable
<1>4. CASE Call(d)
  <2>1. pc[d] = "idle" /\ nonceReply[d] = NoNonce /\ nonceReply' = nonceReply
    BY <1>1, <1>4 DEF Call, replies
  <2>2. c \in before'[d] => pc[c] = "waiting" \/ verdict[c] \in Acknowledged
    BY <1>4 DEF Call, TypeOK
  <2>3. c \in before'[d] => submission[c] \in Taken
    BY <1>1, <2>2 DEF AckOf
  <2> QED
    BY <1>3, <2>1, <2>3
<1>5. CASE ServeNonce(d)
  <2>1. /\ pc[d] = "nonce" /\ pc' = pc /\ before' = before /\ wire' = wire
        /\ submission' = submission
    BY <1>5 DEF ServeNonce, client
  <2>2. ~ Occupied(From(d), nonceReply'[d])
    BY <1>5 DEF ServeNonce, PendingNonces, TypeOK
  <2>3. submission[c] \in Taken => wire[c].from = From(c)
    BY <1>1 DEF ControlOf, Taken, Id
  <2>4. c \in before[d] /\ From(c) = From(d) => nonceReply'[d] # wire[c].nonce
    BY <1>1, <2>2, <2>3 DEF TakenOccupies
  <2> QED
    BY <1>1, <1>2, <2>1, <2>4
<1>6. CASE ~ Call(d) /\ ~ ServeNonce(d)
  <2>1. CallFrame(d)
    BY CallFrameHolds
  <2>2. /\ nonceReply'[d] = nonceReply[d]
        /\ before'[d] = before[d]
        /\ pc'[d] = "idle" => pc[d] = "idle"
    BY <1>6, <2>1 DEF CallFrame
  <2> QED
    BY <1>1, <1>2, <1>3, <2>2
<1> QED
  BY <1>4, <1>5, <1>6

-----------------------------------------------------------------------------

LEMMA InitIInv == Init => IInv
<1> SUFFICES ASSUME Init PROVE IInv
  OBVIOUS
<1>1. TypeOK /\ Control /\ AckTruthful
  BY TypeInit, ControlInit, AckInit
<1>2. ASSUME NEW c \in Calls
      PROVE  /\ pc[c] = "idle" /\ verdict[c] = "pending" /\ wire[c] = NoId
             /\ keyReply[c] = "none" /\ nonceReply[c] = NoNonce
             /\ submission[c] = "none" /\ before[c] = {} /\ mined = {}
  BY DEF Init
<1>3. ReceiptTruthful /\ KeyKnowledge
  BY <1>2 DEF ReceiptTruthful, KeyKnowledge, KeyOf
<1>4. TakenOccupies /\ NonceKnowledge
  BY <1>2 DEF TakenOccupies, Taken, NonceKnowledge, NonceOf
<1>5. MinedBelowCount
  BY DEF Init, MinedBelowCount
<1> QED
  BY <1>1, <1>3, <1>4, <1>5 DEF IInv

\* The layers together hold in every reachable state.
THEOREM Invariance == Spec => []IInv
<1>1. IInv /\ [Next]_vars => IInv'
  BY TypeNext, ControlNext, AckNext, ReceiptNext, KeyNext, MinedNext, TakenNext,
     NonceNext DEF IInv
<1> QED
  BY <1>1, InitIInv, PTL DEF Spec

\* Every variable keeps its type, for any number of calls.
THEOREM TypeCorrect == Spec => []TypeOK
<1>1. IInv => TypeOK
  BY DEF IInv
<1> QED
  BY <1>1, Invariance, PTL

\* deployContract and writeContract never settle with a false verdict.
THEOREM VerdictCorrect == Spec => []VerdictTruthful
<1>1. IInv => VerdictTruthful
  BY DEF IInv, AckTruthful, AckOf, ReceiptTruthful, VerdictTruthful, Taken
<1> QED
  BY <1>1, Invariance, PTL

\* A call that follows an acknowledged one never reuses its nonce.
THEOREM FreshNonceCorrect == Spec => []FreshNonceInSequence
<1>1. IInv => FreshNonceInSequence
  <2> SUFFICES ASSUME IInv, NEW c \in Calls, NEW d \in Calls, c \in before[d],
                      request[d].nonce = NoNonce, wire[d] # NoId,
                      wire[c].from = wire[d].from
               PROVE  wire[c].nonce # wire[d].nonce
    BY DEF FreshNonceInSequence
  <2>1. ControlOf(c) /\ ControlOf(d) /\ NonceOf(c, d)
    BY DEF IInv, Control, NonceKnowledge
  <2>2. wire[c] # NoId
    BY <2>1 DEF NonceOf, ControlOf, Taken
  <2>3. From(c) = From(d) /\ nonceReply[d] = wire[d].nonce
    BY <2>1, <2>2 DEF ControlOf, Id
  <2>4. nonceReply[d] # NoNonce
    BY <2>1 DEF ControlOf, IInv, TypeOK, NoNonce
  <2> QED
    BY <2>1, <2>3, <2>4 DEF NonceOf
<1> QED
  BY <1>1, Invariance, PTL

\* The public key is left out only for accounts the node knows.
THEOREM KeyPresentCorrect == Spec => []KeyPresentWhenNeeded
<1>1. IInv => KeyPresentWhenNeeded
  <2> SUFFICES ASSUME IInv, NEW c \in Calls, request[c].includeKey = "auto",
                      wire[c] # NoId, ~ withKey[c]
               PROVE  wire[c].from \in registered
    BY DEF KeyPresentWhenNeeded
  <2>1. KeyOf(c) /\ ControlOf(c)
    BY DEF IInv, KeyKnowledge, Control
  <2> QED
    BY <2>1 DEF KeyOf, ControlOf, Id
<1> QED
  BY <1>1, Invariance, PTL

\* What is submitted is what was asked for and what was signed.
THEOREM SubmitsCorrect == Spec => []SubmitsWhatWasAsked
<1>1. IInv => SubmitsWhatWasAsked
  <2> SUFFICES ASSUME IInv, NEW c \in Calls, wire[c] # NoId
               PROVE  /\ wire[c] = signedId[c]
                      /\ wire[c].from = AccountOf[request[c].signer]
                      /\ wire[c].content = request[c].content
                      /\ wire[c].nonce = nonce[c]
                      /\ request[c].nonce # NoNonce
                           => wire[c].nonce = request[c].nonce
    BY DEF SubmitsWhatWasAsked
  <2>1. ControlOf(c)
    BY DEF IInv, Control
  <2> QED
    BY <2>1 DEF ControlOf, Id, From
<1> QED
  BY <1>1, Invariance, PTL

\* A disposed signer, or an adapter emptied through another signer, stops every
\* call that has not asked for its signature yet.
THEOREM DisposeCorrect == Spec => DisposeStops
<1>1. IInv /\ [Next]_vars =>
        [\A c \in Calls :
           Doomed(c) => \/ Doomed(c)'
                        \/ /\ pc'[c] = "done"
                           /\ verdict'[c] \in {"readError", "signError"}
                           /\ submission'[c] = "none"]_vars
  <2> SUFFICES ASSUME IInv, [Next]_vars, NEW d \in Calls, Doomed(d)
               PROVE  \/ Doomed(d)'
                      \/ /\ pc'[d] = "done"
                         /\ verdict'[d] \in {"readError", "signError"}
                         /\ submission'[d] = "none"
    OBVIOUS
  <2> DEFINE Fails == /\ pc'[d] = "done"
                      /\ verdict'[d] \in {"readError", "signError"}
                      /\ submission'[d] = "none"
  <2> USE DEF client, replies, keys, node
  <2>1. TypeOK /\ ControlOf(d) /\ submission[d] = "none" /\ wire[d] = NoId
    BY DEF IInv, Control, ControlOf, Doomed
  <2>2. ~ CanSign(request[d].signer) /\ pc[d] \in {"nonce", "key"}
    BY DEF Doomed, CanSign
  <2>3. ASSUME NEW c \in Calls, NonceArrives(c) PROVE Doomed(d)' \/ Fails
    <3>1. CASE c # d
      BY <2>1, <2>3, <3>1 DEF NonceArrives, DecideKey, AskForKey, StartSigning,
         Settle, Doomed, TypeOK
    <3>2. CASE c = d
      BY <2>1, <2>2, <2>3, <3>2 DEF NonceArrives, DecideKey, AskForKey, StartSigning,
         Settle, Doomed, TypeOK
    <3> QED
      BY <3>1, <3>2
  <2>4. ASSUME NEW c \in Calls, KeyArrives(c) PROVE Doomed(d)' \/ Fails
    <3>1. CASE c # d
      BY <2>1, <2>4, <3>1 DEF KeyArrives, StartSigning, Settle, Doomed, TypeOK
    <3>2. CASE c = d
      BY <2>1, <2>2, <2>4, <3>2 DEF KeyArrives, StartSigning, Settle, Doomed, TypeOK
    <3> QED
      BY <3>1, <3>2
  <2>5. ASSUME NEW c \in Calls, ReadFails(c) PROVE Doomed(d)' \/ Fails
    BY <2>1, <2>2, <2>5 DEF ReadFails, Settle, Doomed, TypeOK
  <2>6. ASSUME NEW c \in Calls, Call(c) PROVE Doomed(d)'
    <3>1. c # d
      BY <2>2, <2>6 DEF Call
    <3> QED
      BY <2>1, <2>2, <2>6, <3>1 DEF Call, DecideKey, AskForKey, StartSigning, Settle,
         Doomed, TypeOK
  <2>7. ASSUME NEW s \in Signers, Dispose(s) PROVE Doomed(d)'
    <3>1. request[d] \in Options
      BY <2>1, ObjectsAssumption DEF TypeOK
    <3>2. request[d].signer \in Signers
          /\ AdapterOf[request[d].signer] \in Adapters
      BY <3>1, ObjectsAssumption DEF Options
    <3> QED
      BY <2>1, <2>7, <3>2 DEF Dispose, Doomed, TypeOK
  <2>8. ASSUME NEW c \in Calls, CallerMutates(c) PROVE Doomed(d)'
    BY <2>1, <2>2, <2>8 DEF CallerMutates, Doomed, TypeOK
  <2>9. ASSUME NEW c \in Calls, Send(c) PROVE Doomed(d)'
    BY <2>1, <2>2, <2>9 DEF Send, Doomed, TypeOK
  <2>10. ASSUME NEW c \in Calls, AdapterFails(c) PROVE Doomed(d)'
    BY <2>1, <2>2, <2>10 DEF AdapterFails, Settle, Doomed, TypeOK
  <2>11. ASSUME NEW c \in Calls, AckArrives(c) PROVE Doomed(d)'
    BY <2>1, <2>2, <2>11 DEF AckArrives, Settle, Doomed, TypeOK
  <2>12. ASSUME NEW c \in Calls, TransportFails(c) PROVE Doomed(d)'
    BY <2>1, <2>2, <2>12 DEF TransportFails, Settle, Doomed, TypeOK
  <2>13. ASSUME NEW c \in Calls, ReceiptArrives(c) PROVE Doomed(d)'
    BY <2>1, <2>2, <2>13 DEF ReceiptArrives, Settle, Doomed, TypeOK
  <2>14. ASSUME NEW c \in Calls, WaitFails(c) PROVE Doomed(d)'
    BY <2>1, <2>2, <2>14 DEF WaitFails, Settle, Doomed, TypeOK
  <2>15. ASSUME NEW c \in Calls, ServeNonce(c) PROVE Doomed(d)'
    BY <2>1, <2>2, <2>15 DEF ServeNonce, Doomed, TypeOK
  <2>16. ASSUME NEW c \in Calls, ServeKey(c) PROVE Doomed(d)'
    BY <2>1, <2>2, <2>16 DEF ServeKey, Doomed, TypeOK
  <2>17. ASSUME NEW c \in Calls, Accept(c) PROVE Doomed(d)'
    BY <2>1, <2>2, <2>17 DEF Accept, Doomed, TypeOK
  <2>18. ASSUME NEW c \in Calls, AnswerDuplicate(c) PROVE Doomed(d)'
    BY <2>1, <2>2, <2>18 DEF AnswerDuplicate, Doomed, TypeOK
  <2>19. ASSUME NEW c \in Calls, Refuse(c) PROVE Doomed(d)'
    BY <2>1, <2>2, <2>19 DEF Refuse, Doomed, TypeOK
  <2>20. ASSUME NEW id \in pool, Mine(id) PROVE Doomed(d)'
    BY <2>20 DEF Mine, Doomed
  <2>21. CASE UNCHANGED vars
    BY <2>21 DEF vars, Doomed
  <2> QED
    BY <2>3, <2>4, <2>5, <2>6, <2>7, <2>8, <2>9, <2>10, <2>11, <2>12, <2>13,
       <2>14, <2>15, <2>16, <2>17, <2>18, <2>19, <2>20, <2>21 DEF Next
<1> QED
  BY <1>1, Invariance, PTL DEF Spec, DisposeStops

=============================================================================
