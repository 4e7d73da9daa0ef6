---------------------------- MODULE SessionFlow ----------------------------
(***************************************************************************)
(* Account-abstraction bundles and everyone who signs them: the root key   *)
(* that authorises a session key (createSessionAuth), the session key      *)
(* (finalizeSessionAuth, src/src/session.ts), a paymaster                  *)
(* (hashPaymasterTransaction, src/src/transactions.ts) and the signer of   *)
(* the transaction (ShellSigner.buildSignedTransaction, src/src/signer.ts).*)
(* Every signature is awaited; several bundles are under way at a time,    *)
(* may use the same authorisation object and the same config object, and   *)
(* the caller overwrites those objects while signatures are pending.       *)
(*                                                                         *)
(* A hash is the record of what goes into it.  The caller follows one      *)
(* procedure, named by two constants: AttachFirst says whether the bundle  *)
(* carries its session authorisation when it is hashed, NamesSigType       *)
(* whether hashBatchTransaction is told the algorithm of the signer or     *)
(* left with its default.  The caller is held to hand over objects that    *)
(* are still what the SDK returned, and to leave tx and inner calls alone. *)
(***************************************************************************)
EXTENDS Naturals

CONSTANTS
    Sessions,           \* calls of createSessionAuth, one authorisation each
    Batches,            \* bundles
    Terms,              \* session key, algorithm, target, value cap, expiry
    Chains,             \* chain ids
    Contents,           \* outer transaction and inner calls, without chain id
    SigTypes,           \* signature algorithms
    DefaultType,        \* default of hashBatchTransaction: Dilithium3
    SignerType,         \* the algorithm of the signer of the transaction
    BatchRequests,      \* the bundles a caller may ask for
    AttachFirst,        \* hash the bundle with its authorisation attached
    NamesSigType,       \* pass the signer's algorithm to hashBatchTransaction
    None                \* null: no session, terms, hash, signature

Scopes == [terms : Terms, chain : Chains]

BatchRequest == [chain : Chains, content : Contents,
                 session : Sessions \cup {None}, sponsored : BOOLEAN]

Hashes == [chain : Chains, content : Contents, sponsored : BOOLEAN,
           terms : Terms \cup {None}, sigType : SigTypes]

Auths == [terms : Terms, root : Scopes]

Finalized == [terms : Terms, root : Scopes, session : Hashes]

ASSUME TypesAssumption ==
    /\ DefaultType \in SigTypes
    /\ SignerType \in SigTypes
    /\ BatchRequests \subseteq BatchRequest
    /\ AttachFirst \in BOOLEAN
    /\ NamesSigType \in BOOLEAN
ASSUME NoneAssumption ==
    /\ None \notin Terms
    /\ None \notin Scopes
    /\ None \notin Hashes
    /\ None \notin Sessions
    /\ None \notin Auths
    /\ None \notin Finalized

VARIABLES
    config,             \* the caller's SessionKeyConfig and key buffer, reused
    creation,           \* createSessionAuth of each session
    captured,           \* what it captured: authHash, and the fields of auth
    granted,            \* history: what the caller asked it for
    returned,           \* the SessionAuth it returned
    auth,               \* that object, in the caller's hands
    request,            \* what each bundle is to be
    stage,              \* how far the caller is with the bundle
    attached,           \* aa_bundle.session_auth: null, the caller's, the final
    hash,               \* the caller's buffer with the bundle's hash
    pending,            \* finalizeSessionAuth under way: its copies
    final,              \* the SessionAuth it returned, session signature added
    sponsor,            \* the paymaster's signature: what it covers
    outer,              \* signature under way or made by the signer
    outerDone,          \* buildSignedTransaction has resolved
    sent                \* the transaction as it was submitted

session == <<config, creation, captured, granted, returned, auth>>
bundle == <<stage, attached, hash>>
signing == <<pending, final, sponsor, outer, outerDone>>
vars == <<session, request, bundle, signing, sent>>

Session(b) == request[b].session
HasSession(b) == Session(b) # None

\* The authorisation is still what createSessionAuth returned.
Intact(s) == creation[s] = "ready" /\ auth[s] = returned[s]

Init ==
    /\ config \in Scopes
    /\ creation = [s \in Sessions |-> "idle"]
    /\ captured = [s \in Sessions |-> None]
    /\ granted = [s \in Sessions |-> None]
    /\ returned = [s \in Sessions |-> None]
    /\ auth = returned
    /\ request \in [Batches -> BatchRequests]
    /\ stage = [b \in Batches |-> "idle"]
    /\ attached = [b \in Batches |-> "none"]
    /\ hash = [b \in Batches |-> None]
    /\ pending = [b \in Batches |-> None]
    /\ final = [b \in Batches |-> None]
    /\ sponsor = [b \in Batches |-> None]
    /\ outer = [b \in Batches |-> None]
    /\ outerDone = [b \in Batches |-> FALSE]
    /\ sent = [b \in Batches |-> None]

-----------------------------------------------------------------------------
(* The session key is authorised *)

\* createSessionAuth up to its await: the hash is computed, the fields copied.
CreateSessionAuth(s) ==
    /\ creation[s] = "idle"
    /\ creation' = [creation EXCEPT ![s] = "signing"]
    /\ captured' = [captured EXCEPT ![s] = config]
    /\ granted' = [granted EXCEPT ![s] = config]
    /\ UNCHANGED <<config, returned, auth, request, bundle, signing, sent>>

\* Deliberate fault: the fields are read when the signature is there.
FieldsReadLate(s) ==
    /\ creation[s] = "signing"
    /\ creation' = [creation EXCEPT ![s] = "ready"]
    /\ returned' = [returned EXCEPT ![s] =
                      [terms |-> config.terms, root |-> captured[s]]]
    /\ auth' = [auth EXCEPT ![s] = returned'[s]]
    /\ UNCHANGED <<config, captured, granted, request, bundle, signing, sent>>

\* Deliberate fault: an empty root signature is let through.
EmptyRootSignature(s) ==
    /\ creation[s] = "signing"
    /\ creation' = [creation EXCEPT ![s] = "ready"]
    /\ \E sig \in {captured[s], None} :
         returned' = [returned EXCEPT ![s] =
                        [terms |-> captured[s].terms, root |-> sig]]
    /\ auth' = [auth EXCEPT ![s] = returned'[s]]
    /\ UNCHANGED <<config, captured, granted, request, bundle, signing, sent>>

RootSigned(s) ==
    /\ creation[s] = "signing"
    /\ creation' = [creation EXCEPT ![s] = "ready"]
    /\ returned' = [returned EXCEPT ![s] =
                      [terms |-> captured[s].terms, root |-> captured[s]]]
    /\ auth' = [auth EXCEPT ![s] = returned'[s]]
    /\ UNCHANGED <<config, captured, granted, request, bundle, signing, sent>>

\* The adapter rejects, or its signature is empty or too long.
RootSigningFails(s) ==
    /\ creation[s] = "signing"
    /\ creation' = [creation EXCEPT ![s] = "failed"]
    /\ UNCHANGED <<config, captured, granted, returned, auth, request, bundle,
                   signing, sent>>

\* The caller prepares the next session in the same config and key buffer.
CallerReusesConfig ==
    /\ \E c \in Scopes : config' = c
    /\ UNCHANGED <<creation, captured, granted, returned, auth, request, bundle,
                   signing, sent>>

\* The caller overwrites the authorisation it got, as when renewing a session.
CallerReusesAuth(s) ==
    /\ auth[s] # None
    /\ \E a \in Auths : auth' = [auth EXCEPT ![s] = a]
    /\ UNCHANGED <<config, creation, captured, granted, returned, request, bundle,
                   signing, sent>>

-----------------------------------------------------------------------------
(* A bundle is built, hashed and signed *)

\* The terms the bundle carries now; until the finalized authorisation takes
\* its place, the bundle refers to the caller's own object.
TermsNow(b) ==
    IF attached[b] = "none" THEN None
    ELSE IF attached[b] = "shared" THEN auth[Session(b)].terms
    ELSE final[b].terms

\* hashBatchTransaction over hashTransaction: no signature goes into it, the
\* terms do when an authorisation is attached.
BatchHash(b, terms, type) ==
    [chain |-> request[b].chain, content |-> request[b].content,
     sponsored |-> request[b].sponsored, terms |-> terms, sigType |-> type]

\* The objects the caller would hand over are still what the SDK returned.
Undisturbed(b) == HasSession(b) /\ attached[b] # "final" => Intact(Session(b))

\* buildSessionKeyTransaction, given a placeholder for the session signature,
\* or, when the authorisation is attached later or not at all,
\* buildBatchTransaction or buildSponsoredTransaction.
Build(b) ==
    /\ stage[b] = "idle"
    /\ Undisturbed(b)
    /\ stage' = [stage EXCEPT ![b] = "built"]
    /\ attached' = [attached EXCEPT ![b] =
                      IF HasSession(b) /\ AttachFirst THEN "shared" ELSE "none"]
    /\ UNCHANGED <<session, request, hash, signing, sent>>

Hash(b) ==
    /\ stage[b] = "built"
    /\ Undisturbed(b)
    /\ stage' = [stage EXCEPT ![b] = "hashed"]
    /\ hash' = [hash EXCEPT ![b] =
                  BatchHash(b, TermsNow(b),
                            IF NamesSigType THEN SignerType ELSE DefaultType)]
    /\ UNCHANGED <<session, request, attached, signing, sent>>

\* finalizeSessionAuth up to its await: authorisation and hash are copied.
FinalizeSessionAuth(b) ==
    /\ stage[b] = "hashed"
    /\ HasSession(b)
    /\ Undisturbed(b)
    /\ hash[b] # None
    /\ pending[b] = None
    /\ final[b] = None
    /\ pending' = [pending EXCEPT ![b] =
                     [terms |-> auth[Session(b)].terms,
                      root |-> auth[Session(b)].root, session |-> hash[b]]]
    /\ UNCHANGED <<session, request, bundle, final, sponsor, outer, outerDone,
                   sent>>

\* Deliberate fault: the hash is read from the caller's buffer when it is signed.
HashReadLate(b) ==
    /\ pending[b] # None
    /\ pending' = [pending EXCEPT ![b] = None]
    /\ final' = [final EXCEPT ![b] = [pending[b] EXCEPT !.session = hash[b]]]
    /\ attached' = [attached EXCEPT ![b] = "final"]
    /\ UNCHANGED <<session, request, stage, hash, sponsor, outer, outerDone, sent>>

\* The session signature is there and the result put into the bundle.
SessionSigned(b) ==
    /\ pending[b] # None
    /\ pending' = [pending EXCEPT ![b] = None]
    /\ final' = [final EXCEPT ![b] = pending[b]]
    /\ attached' = [attached EXCEPT ![b] = "final"]
    /\ UNCHANGED <<session, request, stage, hash, sponsor, outer, outerDone, sent>>

\* The adapter rejects, or its signature is empty or too long; the caller may
\* try again.
SessionSigningFails(b) ==
    /\ pending[b] # None
    /\ pending' = [pending EXCEPT ![b] = None]
    /\ UNCHANGED <<session, request, bundle, final, sponsor, outer, outerDone,
                   sent>>

\* Deliberate fault: the signer's algorithm is not handed on to the hash.
SponsorSignsDefaultType(b) ==
    /\ stage[b] = "hashed"
    /\ request[b].sponsored
    /\ sponsor[b] = None
    /\ Undisturbed(b)
    /\ sponsor' = [sponsor EXCEPT ![b] = BatchHash(b, TermsNow(b), DefaultType)]
    /\ UNCHANGED <<session, request, bundle, pending, final, outer, outerDone,
                   sent>>

\* The paymaster signs hashPaymasterTransaction, computed from the bundle.
SponsorSigns(b) ==
    /\ stage[b] = "hashed"
    /\ request[b].sponsored
    /\ sponsor[b] = None
    /\ Undisturbed(b)
    /\ sponsor' = [sponsor EXCEPT ![b] =
                     BatchHash(b, TermsNow(b),
                               IF NamesSigType THEN SignerType ELSE DefaultType)]
    /\ UNCHANGED <<session, request, bundle, pending, final, outer, outerDone,
                   sent>>

\* Deliberate fault: without a txHash the default algorithm is hashed.
DefaultTypeHashed(b) ==
    /\ stage[b] = "hashed"
    /\ outer[b] = None
    /\ ~ outerDone[b]
    /\ \/ hash[b] # None /\ outer' = [outer EXCEPT ![b] = hash[b]]
       \/ /\ Undisturbed(b)
          /\ outer' = [outer EXCEPT ![b] = BatchHash(b, TermsNow(b), DefaultType)]
    /\ UNCHANGED <<session, request, bundle, pending, final, sponsor, outerDone,
                   sent>>

\* ShellSigner.buildSignedTransaction: with the hash the caller computed, or
\* with none, in which case the signer computes one with its own algorithm.
BuildSignedTransaction(b) ==
    /\ stage[b] = "hashed"
    /\ outer[b] = None
    /\ ~ outerDone[b]
    /\ \/ hash[b] # None /\ outer' = [outer EXCEPT ![b] = hash[b]]
       \/ /\ Undisturbed(b)
          /\ outer' = [outer EXCEPT ![b] = BatchHash(b, TermsNow(b), SignerType)]
    /\ UNCHANGED <<session, request, bundle, pending, final, sponsor, outerDone,
                   sent>>

OuterSigned(b) ==
    /\ outer[b] # None
    /\ ~ outerDone[b]
    /\ outerDone' = [outerDone EXCEPT ![b] = TRUE]
    /\ UNCHANGED <<session, request, bundle, pending, final, sponsor, outer, sent>>

OuterSigningFails(b) ==
    /\ outer[b] # None
    /\ ~ outerDone[b]
    /\ outer' = [outer EXCEPT ![b] = None]
    /\ UNCHANGED <<session, request, bundle, pending, final, sponsor, outerDone,
                   sent>>

\* The caller overwrites the buffer of a hash nobody will read again.
CallerReusesHash(b) ==
    /\ outerDone[b]
    /\ HasSession(b) => pending[b] # None \/ final[b] # None
    /\ hash' = [hash EXCEPT ![b] = None]
    /\ UNCHANGED <<session, request, stage, attached, signing, sent>>

\* sendTransaction, when all signatures are there.
Send(b) ==
    /\ stage[b] = "hashed"
    /\ outerDone[b]
    /\ HasSession(b) => attached[b] = "final"
    /\ request[b].sponsored => sponsor[b] # None
    /\ stage' = [stage EXCEPT ![b] = "sent"]
    /\ sent' = [sent EXCEPT ![b] =
                  [auth |-> final[b], sponsor |-> sponsor[b], outer |-> outer[b]]]
    /\ UNCHANGED <<session, request, attached, hash, signing>>

Next ==
    \/ CallerReusesConfig
    \/ \E s \in Sessions :
         \/ CreateSessionAuth(s) \/ RootSigned(s) \/ RootSigningFails(s)
         \/ CallerReusesAuth(s)
    \/ \E b \in Batches :
         \/ Build(b) \/ Hash(b)
         \/ FinalizeSessionAuth(b) \/ SessionSigned(b) \/ SessionSigningFails(b)
         \/ SponsorSigns(b)
         \/ BuildSignedTransaction(b) \/ OuterSigned(b) \/ OuterSigningFails(b)
         \/ CallerReusesHash(b) \/ Send(b)

Spec == Init /\ [][Next]_vars

-----------------------------------------------------------------------------

\* Every variable keeps its type; no authorisation is ever without the root's
\* signature (createSessionAuth refuses an empty one).
TypeOK ==
    /\ config \in Scopes
    /\ creation \in [Sessions -> {"idle", "signing", "ready", "failed"}]
    /\ captured \in [Sessions -> Scopes \cup {None}]
    /\ granted \in [Sessions -> Scopes \cup {None}]
    /\ returned \in [Sessions -> Auths \cup {None}]
    /\ auth \in [Sessions -> Auths \cup {None}]
    /\ request \in [Batches -> BatchRequests]
    /\ stage \in [Batches -> {"idle", "built", "hashed", "sent"}]
    /\ attached \in [Batches -> {"none", "shared", "final"}]
    /\ hash \in [Batches -> Hashes \cup {None}]
    /\ pending \in [Batches -> Finalized \cup {None}]
    /\ final \in [Batches -> Finalized \cup {None}]
    /\ sponsor \in [Batches -> Hashes \cup {None}]
    /\ outer \in [Batches -> Hashes \cup {None}]
    /\ outerDone \in [Batches -> BOOLEAN]
    /\ sent \in [Batches -> [auth : Finalized \cup {None},
                             sponsor : Hashes \cup {None},
                             outer : Hashes \cup {None}] \cup {None}]

SentTerms(b) == IF sent[b].auth = None THEN None ELSE sent[b].auth.terms

\* sender_signing_hash() of the transaction as submitted: the node, like
\* sendTransaction, hashes with the algorithm named in the signature.
SenderSigningHash(b) == BatchHash(b, SentTerms(b), SignerType)

\* The signature of the transaction covers the bundle that was submitted
\* (hashBatchTransaction, ShellSigner.buildSignedTransaction).
OuterCoversBundle ==
    \A b \in Batches : sent[b] # None => sent[b].outer = SenderSigningHash(b)

\* The session signature of a submitted bundle covers that bundle, whichever
\* other bundles the session signs at the same time (finalizeSessionAuth).
SessionCoversBundle ==
    \A b \in Batches :
        sent[b] # None /\ HasSession(b)
        => sent[b].auth.session = SenderSigningHash(b)

\* The paymaster's signature covers the bundle that was submitted
\* (hashPaymasterTransaction).
SponsorCoversBundle ==
    \A b \in Batches :
        sent[b] # None /\ request[b].sponsored
        => sent[b].sponsor = SenderSigningHash(b)

\* A submitted bundle carries the terms the caller named when it asked for the
\* session, and the root signature over just them and their chain, whatever
\* happened to its objects since (createSessionAuth, finalizeSessionAuth).
AuthorisedAsGranted ==
    \A b \in Batches :
        sent[b] # None /\ HasSession(b) =>
            /\ sent[b].auth.terms = granted[Session(b)].terms
            /\ sent[b].auth.root = granted[Session(b)]

=============================================================================
