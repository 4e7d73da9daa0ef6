----------------------------- MODULE KeyCustody -----------------------------
(***************************************************************************)
(* The life of a secret key from the encrypted keystore to the signer:     *)
(* decryptKeystore and withDecryptedKeystoreSigner (src/src/keystore.ts),  *)
(* the adapter's own copy of the key (src/src/adapters.ts) and the signers *)
(* made over that adapter (src/src/signer.ts).                             *)
(*                                                                         *)
(* Calls run concurrently.  Each has one await, of the key derivation, and *)
(* the scoped ones a second one, of the callback; meanwhile the caller may *)
(* write into the keystore object it passed.  Whoever holds a signer may   *)
(* keep it, sign with it, dispose it, and build further signers over its   *)
(* public adapter, as for a rotated account, at any time.  What a file's   *)
(* ciphertext holds is named by the key and the password it was encrypted  *)
(* with; the cipher is authenticated, so another password opens nothing.   *)
(***************************************************************************)

CONSTANTS
    Calls,              \* decryptKeystore / withDecryptedKeystoreSigner calls
    PublicKeys,         \* with their algorithm
    SecretKeys,
    Passwords,
    Addresses,
    AddressOf,          \* public key -> derived address
    Files,              \* contents a caller's keystore object may have
    KeyPairs,           \* secret key -> its public key
    Zeroes,             \* a buffer overwritten with zeroes, taken for a key
    Second,             \* a signer built over the adapter of another one
    None                \* null: no key, no file, the key of a disposed adapter

FileContents == [wellFormed : BOOLEAN, declared : Addresses, public : PublicKeys,
                 secret : SecretKeys, password : Passwords]

ASSUME FilesAssumption ==
    /\ AddressOf \in [PublicKeys -> Addresses]
    /\ Files \subseteq FileContents
    /\ None \notin PublicKeys \cup SecretKeys \cup FileContents
    /\ Second # "own"
ASSUME KeysAssumption ==
    /\ Zeroes \notin SecretKeys \cup {None}
    /\ KeyPairs \in [SecretKeys -> PublicKeys]

VARIABLES
    pc,                 \* where each call stands
    scoped,             \* withDecryptedKeystoreSigner, not decryptKeystore
    password,           \* the password the call was given
    file,               \* the caller's keystore object, passed to the calls
    taken,              \* what the call captured of it before its await
    opened,             \* history: the object as it was when the call was made
    cleartext,          \* buffers of the call that hold a secret
    public,             \* _publicKey of the adapter the call made
    key,                \* its _secretKey
    signers,            \* signers over that adapter
    disposed,           \* those whose dispose() was called
    signedWith          \* history: keys that made signatures

call == <<pc, scoped, password, taken, opened, cleartext>>
adapter == <<public, key>>
vars == <<call, file, adapter, signers, disposed, signedWith>>

Handles == {"own", Second}
Buffers == {"passwordBytes", "derivedKey", "secretKey"}

Init ==
    /\ pc = [c \in Calls |-> "idle"]
    /\ scoped \in [Calls -> BOOLEAN]
    /\ password \in [Calls -> Passwords]
    /\ file \in Files
    /\ taken = [c \in Calls |-> None]
    /\ opened = taken
    /\ cleartext = [c \in Calls |-> {}]
    /\ public = [c \in Calls |-> None]
    /\ key = [c \in Calls |-> None]
    /\ signers = [c \in Calls |-> {}]
    /\ disposed = [c \in Calls |-> {}]
    /\ signedWith = [c \in Calls |-> {}]

\* validateDecryptEnvelope and validateEncryptedKeyAddress.
Valid(content) ==
    content.wellFormed /\ AddressOf[content.public] = content.declared

\* decryptKeystore up to the await of argon2id: everything that is needed of
\* the object is decoded into values of the call's own.
DecryptKeystore(c) ==
    /\ pc[c] = "idle"
    /\ opened' = [opened EXCEPT ![c] = file]
    /\ \/ /\ Valid(file)
          /\ pc' = [pc EXCEPT ![c] = "kdf"]
          /\ taken' = [taken EXCEPT ![c] = file]
          /\ cleartext' = [cleartext EXCEPT ![c] = {"passwordBytes"}]
       \/ /\ ~ Valid(file)
          /\ pc' = [pc EXCEPT ![c] = "failed"]
          /\ UNCHANGED <<taken, cleartext>>
    /\ UNCHANGED <<scoped, password, file, adapter, signers, disposed, signedWith>>

\* The caller writes another keystore into the object, which several calls may
\* have been given.
CallerReusesFile ==
    /\ \E content \in Files : file' = content
    /\ UNCHANGED <<call, adapter, signers, disposed, signedWith>>

\* Every failure after the password was encoded unwinds through the finally
\* blocks entered so far, each of which clears one buffer.
Unwind(c) ==
    /\ pc' = [pc EXCEPT ![c] = "failed"]
    /\ cleartext' = [cleartext EXCEPT ![c] = {}]
    /\ UNCHANGED <<adapter, signers>>

KdfFails(c) ==
    /\ pc[c] = "kdf"
    /\ Unwind(c)
    /\ UNCHANGED <<scoped, password, taken, opened, file, disposed, signedWith>>

\* Deliberate fault: the finally block around the cipher is missing.
DerivedKeyKept(c) ==
    /\ pc[c] = "kdf"
    /\ password[c] # taken[c].password
    /\ pc' = [pc EXCEPT ![c] = "failed"]
    /\ cleartext' = [cleartext EXCEPT ![c] = {"derivedKey"}]
    /\ UNCHANGED <<adapter, signers>>
    /\ UNCHANGED <<scoped, password, taken, opened, file, disposed, signedWith>>

\* The key is derived, but the cipher does not accept it.
WrongPassword(c) ==
    /\ pc[c] = "kdf"
    /\ password[c] # taken[c].password
    /\ Unwind(c)
    /\ UNCHANGED <<scoped, password, taken, opened, file, disposed, signedWith>>

\* The signer over a new adapter, which the call resolves with or passes to
\* the callback.
Made(c, publicKey, secretKey) ==
    /\ pc' = [pc EXCEPT ![c] = IF scoped[c] THEN "callback" ELSE "returned"]
    /\ cleartext' = [cleartext EXCEPT ![c] = {}]
    /\ public' = [public EXCEPT ![c] = publicKey]
    /\ key' = [key EXCEPT ![c] = secretKey]
    /\ signers' = [signers EXCEPT ![c] = {"own"}]

\* Deliberate fault: the adapter keeps the buffer it is given, which the
\* finally block clears.
AdapterSharesBuffer(c) ==
    /\ pc[c] = "kdf"
    /\ password[c] = taken[c].password
    /\ Made(c, taken[c].public, Zeroes)
    /\ UNCHANGED <<scoped, password, taken, opened, file, disposed, signedWith>>

\* Deliberate fault: the public key is read from the object after the await.
PublicKeyReadLate(c) ==
    /\ pc[c] = "kdf"
    /\ password[c] = taken[c].password
    /\ Made(c, file.public, taken[c].secret)
    /\ UNCHANGED <<scoped, password, taken, opened, file, disposed, signedWith>>

\* The key is derived and the secret key decrypted; the adapter copies it
\* before all buffers are cleared.
Unlock(c) ==
    /\ pc[c] = "kdf"
    /\ password[c] = taken[c].password
    /\ Made(c, taken[c].public, taken[c].secret)
    /\ UNCHANGED <<scoped, password, taken, opened, file, disposed, signedWith>>

\* new ShellSigner(type, signer.adapter, accountAddress)
WrapAdapter(c) ==
    /\ signers[c] # {}
    /\ signers' = [signers EXCEPT ![c] = Handles]
    /\ UNCHANGED <<call, file, adapter, disposed, signedWith>>

\* ShellSigner.sign, and the adapter's: each looks whether it was disposed.
Sign(c, s) ==
    /\ s \in signers[c] \ disposed[c]
    /\ key[c] # None
    /\ signedWith' = [signedWith EXCEPT ![c] = @ \cup {key[c]}]
    /\ UNCHANGED <<call, file, adapter, signers, disposed>>

\* Deliberate fault: the key buffer is cleared but still taken for a key.
AdapterKeepsZeroes(c, s) ==
    /\ disposed' = [disposed EXCEPT ![c] = @ \cup {s}]
    /\ key' = [key EXCEPT ![c] = IF s \in disposed[c] THEN @ ELSE Zeroes]

\* ShellSigner.dispose: the adapter loses its key unless this signer was
\* disposed before.
Dispose(c, s) ==
    /\ disposed' = [disposed EXCEPT ![c] = @ \cup {s}]
    /\ key' = [key EXCEPT ![c] = IF s \in disposed[c] THEN @ ELSE None]

DisposeSigner(c, s) ==
    /\ s \in signers[c]
    /\ Dispose(c, s)
    /\ UNCHANGED <<call, file, public, signers, signedWith>>

\* The callback's promise resolves; the signer is disposed.
CallbackReturns(c) ==
    /\ pc[c] = "callback"
    /\ pc' = [pc EXCEPT ![c] = "closed"]
    /\ Dispose(c, "own")
    /\ UNCHANGED <<scoped, password, taken, opened, cleartext, file, public,
                   signers, signedWith>>

\* Deliberate fault: the signer is disposed only when the callback succeeds.
ThrowSkipsDispose(c) ==
    /\ pc[c] = "callback"
    /\ pc' = [pc EXCEPT ![c] = "closed"]
    /\ UNCHANGED <<scoped, password, taken, opened, cleartext, file, adapter,
                   signers, disposed, signedWith>>

\* The callback throws or rejects; the signer is disposed all the same.
CallbackThrows(c) ==
    /\ pc[c] = "callback"
    /\ pc' = [pc EXCEPT ![c] = "closed"]
    /\ Dispose(c, "own")
    /\ UNCHANGED <<scoped, password, taken, opened, cleartext, file, public,
                   signers, signedWith>>

Next ==
    \/ CallerReusesFile
    \/ \E c \in Calls :
        \/ DecryptKeystore(c)
        \/ KdfFails(c) \/ WrongPassword(c) \/ Unlock(c)
        \/ WrapAdapter(c)
        \/ \E s \in Handles : Sign(c, s) \/ DisposeSigner(c, s)
        \/ CallbackReturns(c) \/ CallbackThrows(c)

Spec == Init /\ [][Next]_vars

-----------------------------------------------------------------------------

\* Every variable keeps its type; the adapter's key is a key or null, never a
\* cleared buffer.
TypeOK ==
    /\ pc \in [Calls -> {"idle", "kdf", "callback", "returned", "closed", "failed"}]
    /\ scoped \in [Calls -> BOOLEAN]
    /\ password \in [Calls -> Passwords]
    /\ file \in Files
    /\ taken \in [Calls -> Files \cup {None}]
    /\ opened \in [Calls -> Files \cup {None}]
    /\ cleartext \in [Calls -> SUBSET Buffers]
    /\ public \in [Calls -> PublicKeys \cup {None}]
    /\ key \in [Calls -> SecretKeys \cup {None}]
    /\ signers \in [Calls -> SUBSET Handles]
    /\ disposed \in [Calls -> SUBSET Handles]
    /\ signedWith \in [Calls -> SUBSET (SecretKeys \cup {Zeroes})]

\* Once a call has settled, on whatever path, no secret of it is left in
\* memory, except the key of a signer it resolved with that nobody disposed
\* (the finally blocks of decryptKeystore and withDecryptedKeystoreSigner).
NoSecretLeft ==
    \A c \in Calls :
        /\ pc[c] # "kdf" => cleartext[c] = {}
        /\ key[c] # None => pc[c] \in {"callback", "returned"} /\ disposed[c] = {}

\* The signer a call hands out is the one of the keystore the caller passed,
\* under the address that keystore declared, and the caller knew its password,
\* whatever was written into the object meanwhile.
SignerAsValidated ==
    \A c \in Calls :
        signers[c] # {} =>
            /\ public[c] = opened[c].public
            /\ AddressOf[public[c]] = opened[c].declared
            /\ password[c] = opened[c].password

\* Every signature was made with the key in the keystore, never with a buffer
\* cleared in between (the constructors of the adapters copy).
SignsWithItsKey ==
    \A c \in Calls : \A k \in signedWith[c] : k = opened[c].secret

\* When withDecryptedKeystoreSigner has settled its key signs nothing more,
\* although the callback may have kept the signer, disposed it, or put the
\* adapter into another signer.
ClosedForGood ==
    [][\A c \in Calls : pc[c] = "closed" => signedWith'[c] = signedWith[c]]_vars

\* What the README says of a corrupt keystore ("decrypted public key mismatch"):
\* no signer signs with a secret key that is not the one of its public key.
PublicKeyMatches ==
    \A c \in Calls : \A k \in signedWith[c] :
        k \in SecretKeys => KeyPairs[k] = public[c]

=============================================================================
