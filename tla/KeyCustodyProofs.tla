-------------------------- MODULE KeyCustodyProofs --------------------------
(***************************************************************************)
(* Proofs about KeyCustody, for any number of calls, files, keys and       *)
(* passwords.  The properties follow from what is true of each call at     *)
(* each stage (Staged), of what it captured (Captured), and of the key in  *)
(* its adapter (Held): a key is there only while no signer over it was     *)
(* disposed, since any dispose empties the adapter for all of them.        *)
(***************************************************************************)
EXTENDS KeyCustody, TLAPS

Staged ==
    \A c \in Calls :
        /\ pc[c] \in {"idle", "kdf", "failed"}
             => signers[c] = {} /\ disposed[c] = {} /\ signedWith[c] = {}
        /\ pc[c] # "kdf" => cleartext[c] = {}

Captured ==
    \A c \in Calls :
        /\ pc[c] = "kdf" \/ signers[c] # {}
             => /\ opened[c] \in Files
                /\ Valid(opened[c])
                /\ taken[c] = opened[c]
        /\ signers[c] # {}
             => public[c] = opened[c].public /\ password[c] = opened[c].password

Held ==
    \A c \in Calls :
        /\ key[c] # None
             => /\ pc[c] \in {"callback", "returned"}
                /\ signers[c] # {}
                /\ disposed[c] = {}
                /\ key[c] = opened[c].secret
        /\ \A k \in signedWith[c] : k = opened[c].secret

IInv == TypeOK /\ Staged /\ Captured /\ Held

LEMMA FileFields ==
    ASSUME NEW f \in Files
    PROVE  /\ f.wellFormed \in BOOLEAN
           /\ f.declared \in Addresses
           /\ f.public \in PublicKeys
           /\ f.secret \in SecretKeys
           /\ f.password \in Passwords
           /\ f # None
  BY FilesAssumption DEF FileContents

LEMMA InitIInv == Init => IInv
  BY DEF Init, IInv, TypeOK, Staged, Captured, Held, Handles, Buffers

LEMMA NextIInv == IInv /\ [Next]_vars => IInv'
<1> SUFFICES ASSUME IInv, [Next]_vars PROVE IInv'
  OBVIOUS
<1> USE FilesAssumption DEF IInv, Handles, Buffers
<1>1. ASSUME NEW c \in Calls, DecryptKeystore(c) PROVE IInv'
  <2>1. TypeOK'
    BY <1>1 DEF DecryptKeystore, TypeOK, call, adapter
  <2>2. Staged'
    BY <1>1 DEF DecryptKeystore, TypeOK, Staged, adapter
  <2>3. Captured'
    BY <1>1 DEF DecryptKeystore, TypeOK, Staged, Captured, Valid, adapter
  <2>4. Held'
    BY <1>1 DEF DecryptKeystore, TypeOK, Staged, Held, adapter
  <2> QED BY <2>1, <2>2, <2>3, <2>4
<1>2. ASSUME CallerReusesFile PROVE IInv'
  BY <1>2 DEF CallerReusesFile, TypeOK, Staged, Captured, Held, call, adapter, Valid
<1>3. ASSUME NEW c \in Calls, KdfFails(c) \/ WrongPassword(c) PROVE IInv'
  <2>1. TypeOK'
    BY <1>3 DEF KdfFails, WrongPassword, Unwind, TypeOK, adapter
  <2>2. Staged'
    BY <1>3 DEF KdfFails, WrongPassword, Unwind, TypeOK, Staged, adapter
  <2>3. Captured'
    BY <1>3 DEF KdfFails, WrongPassword, Unwind, TypeOK, Staged, Captured, Valid,
                adapter
  <2>4. Held'
    BY <1>3 DEF KdfFails, WrongPassword, Unwind, TypeOK, Staged, Held, adapter
  <2> QED BY <2>1, <2>2, <2>3, <2>4
<1>4. ASSUME NEW c \in Calls, Unlock(c) PROVE IInv'
  <2>1. opened[c] \in Files /\ Valid(opened[c]) /\ taken[c] = opened[c]
    BY <1>4 DEF Unlock, Captured
  <2>2. taken[c].public \in PublicKeys /\ taken[c].secret \in SecretKeys
    BY <2>1, FileFields
  <2>3. TypeOK'
    BY <1>4, <2>2 DEF Unlock, Made, TypeOK
  <2>4. Staged'
    BY <1>4 DEF Unlock, Made, TypeOK, Staged
  <2>5. Captured'
    BY <1>4, <2>1 DEF Unlock, Made, TypeOK, Captured, Valid
  <2>6. Held'
    BY <1>4, <2>1 DEF Unlock, Made, TypeOK, Staged, Held
  <2> QED BY <2>3, <2>4, <2>5, <2>6
<1>5. ASSUME NEW c \in Calls, WrapAdapter(c) PROVE IInv'
  <2>1. TypeOK'
    BY <1>5 DEF WrapAdapter, TypeOK, call, adapter
  <2>2. Staged' /\ Captured' /\ Held'
    BY <1>5 DEF WrapAdapter, TypeOK, Staged, Captured, Held, Valid, call, adapter
  <2> QED BY <2>1, <2>2
<1>6. ASSUME NEW c \in Calls, NEW s \in Handles, Sign(c, s) PROVE IInv'
  <2>1. TypeOK'
    BY <1>6 DEF Sign, TypeOK, call, adapter
  <2>2. Staged' /\ Captured' /\ Held'
    BY <1>6 DEF Sign, TypeOK, Staged, Captured, Held, Valid, call, adapter
  <2> QED BY <2>1, <2>2
<1>7. ASSUME NEW c \in Calls, NEW s \in Handles, DisposeSigner(c, s) PROVE IInv'
  <2>1. TypeOK'
    BY <1>7 DEF DisposeSigner, Dispose, TypeOK, call
  <2>2. Staged' /\ Captured'
    BY <1>7 DEF DisposeSigner, Dispose, TypeOK, Staged, Captured, Valid, call
  <2>3. Held'
    BY <1>7 DEF DisposeSigner, Dispose, TypeOK, Held, call
  <2> QED BY <2>1, <2>2, <2>3
<1>8. ASSUME NEW c \in Calls, CallbackReturns(c) \/ CallbackThrows(c) PROVE IInv'
  <2>1. TypeOK'
    BY <1>8 DEF CallbackReturns, CallbackThrows, Dispose, TypeOK
  <2>2. Staged' /\ Captured'
    BY <1>8 DEF CallbackReturns, CallbackThrows, Dispose, TypeOK, Staged, Captured,
                Valid
  <2>3. Held'
    BY <1>8 DEF CallbackReturns, CallbackThrows, Dispose, TypeOK, Held
  <2> QED BY <2>1, <2>2, <2>3
<1>9. ASSUME UNCHANGED vars PROVE IInv'
  BY <1>9 DEF vars, call, adapter, TypeOK, Staged, Captured, Held, Valid
<1> QED BY <1>1, <1>2, <1>3, <1>4, <1>5, <1>6, <1>7, <1>8, <1>9 DEF Next

\* The strengthened invariant holds in every reachable state.
THEOREM Invariance == Spec => []IInv
  BY InitIInv, NextIInv, PTL DEF Spec

\* Types; no adapter takes a cleared buffer for its key (dispose).
THEOREM TypeCorrect == Spec => []TypeOK
  BY Invariance, PTL DEF IInv

\* A settled call leaves no secret behind, except the key of a signer it
\* resolved with (decryptKeystore, withDecryptedKeystoreSigner).
THEOREM NoSecretLeftCorrect == Spec => []NoSecretLeft
<1>1. IInv => NoSecretLeft
  BY DEF IInv, Staged, Held, NoSecretLeft
<1> QED BY <1>1, Invariance, PTL

\* A signer is the one of the keystore that was passed, whatever the caller
\* does to the object while the key is derived (decryptKeystore).
THEOREM SignerCorrect == Spec => []SignerAsValidated
<1>1. IInv => SignerAsValidated
  BY DEF IInv, Captured, Valid, SignerAsValidated
<1> QED BY <1>1, Invariance, PTL

\* Only the key of the keystore signs, never a cleared buffer (the adapters).
THEOREM SignsCorrect == Spec => []SignsWithItsKey
<1>1. IInv => SignsWithItsKey
  BY DEF IInv, Held, SignsWithItsKey
<1> QED BY <1>1, Invariance, PTL

\* After withDecryptedKeystoreSigner has settled nothing is signed with its key.
THEOREM ClosedCorrect == Spec => ClosedForGood
<1> DEFINE Step == \A c \in Calls : pc[c] = "closed" => signedWith'[c] = signedWith[c]
<1>1. IInv /\ [Next]_vars => [Step]_vars
  <2> SUFFICES ASSUME IInv, Next, NEW c \in Calls, pc[c] = "closed"
               PROVE  signedWith'[c] = signedWith[c]
    OBVIOUS
  <2>1. key[c] = None
    BY DEF IInv, Held
  <2>2. ASSUME NEW d \in Calls, NEW s \in Handles, Sign(d, s)
        PROVE  signedWith'[c] = signedWith[c]
    BY <2>1, <2>2 DEF Sign, IInv, TypeOK
  <2> QED
    BY <2>2 DEF Next, DecryptKeystore, CallerReusesFile, KdfFails, WrongPassword,
                Unlock, Unwind, Made, WrapAdapter, DisposeSigner, CallbackReturns,
                CallbackThrows
<1> QED BY <1>1, Invariance, PTL DEF Spec, ClosedForGood

=============================================================================
