------------------------- MODULE SessionFlowProofs -------------------------
(***************************************************************************)
(* Proofs about SessionFlow, in two layers.  IInv says, whatever procedure *)
(* the caller follows, that an authorisation keeps the terms it was        *)
(* captured with.  OneHash says, of callers that attach the authorisation  *)
(* before they hash and name the signer's algorithm, that all that is ever *)
(* hashed or signed for a bundle is one and the same hash.                 *)
(***************************************************************************)
EXTENDS SessionFlow, TLAPS

\* An authorisation is what the caller asked for when it asked.
SessionInv(s) ==
    /\ captured[s] = granted[s]
    /\ creation[s] # "idle" => captured[s] \in Scopes
    /\ auth[s] # None => creation[s] = "ready"
    /\ creation[s] = "ready"
         => returned[s] = [terms |-> captured[s].terms, root |-> captured[s]]

\* Nothing is signed before the bundle is built, and a bundle is built only
\* when its session is there.
Begun(b) ==
    /\ stage[b] = "idle" =>
         /\ attached[b] = "none"
         /\ hash[b] = None
         /\ pending[b] = None
         /\ final[b] = None
         /\ sponsor[b] = None
         /\ outer[b] = None
         /\ sent[b] = None
    /\ stage[b] # "idle" /\ HasSession(b) =>
         creation[Session(b)] = "ready" /\ (AttachFirst => attached[b] # "none")
    /\ ~ HasSession(b) =>
         attached[b] = "none" /\ pending[b] = None /\ final[b] = None
    /\ attached[b] = "final" <=> final[b] # None
    /\ outerDone[b] => outer[b] # None

AsCaptured(b, a) ==
    a.terms = captured[Session(b)].terms /\ a.root = captured[Session(b)]

\* Finalizing an authorisation keeps its terms and its root signature.
Kept(b) ==
    /\ pending[b] # None => AsCaptured(b, pending[b])
    /\ final[b] # None => AsCaptured(b, final[b])
    /\ sent[b] # None =>
         IF HasSession(b) THEN sent[b].auth # None /\ AsCaptured(b, sent[b].auth)
                          ELSE sent[b].auth = None

IInv ==
    /\ TypeOK
    /\ \A s \in Sessions : SessionInv(s)
    /\ \A b \in Batches : Begun(b) /\ Kept(b)

\* The one hash of a bundle: over the terms its session was captured with.
TheHash(b) ==
    BatchHash(b, IF HasSession(b) THEN captured[Session(b)].terms ELSE None,
              SignerType)

OneHash(b) ==
    /\ hash[b] # None => hash[b] = TheHash(b)
    /\ sponsor[b] # None => sponsor[b] = TheHash(b)
    /\ outer[b] # None => outer[b] = TheHash(b)
    /\ pending[b] # None => pending[b].session = TheHash(b)
    /\ final[b] # None => final[b].session = TheHash(b)
    /\ sent[b] # None =>
         /\ sent[b].outer = TheHash(b)
         /\ HasSession(b) => sent[b].auth.session = TheHash(b)
         /\ request[b].sponsored => sent[b].sponsor = TheHash(b)

-----------------------------------------------------------------------------
(* Types of what the actions compute *)

LEMMA BatchHashType ==
    ASSUME TypeOK, NEW b \in Batches, NEW t \in Terms \cup {None},
           NEW k \in SigTypes
    PROVE  BatchHash(b, t, k) \in Hashes
<1>1. request[b] \in BatchRequest
  BY TypesAssumption DEF TypeOK
<1> QED BY <1>1 DEF BatchHash, BatchRequest, Hashes

\* A session named by a request is one of the sessions.
LEMMA SessionType ==
    ASSUME TypeOK, NEW b \in Batches, HasSession(b)
    PROVE  Session(b) \in Sessions
<1>1. request[b] \in BatchRequest
  BY TypesAssumption DEF TypeOK
<1> QED BY <1>1 DEF BatchRequest, HasSession, Session

\* The terms of a built bundle whose objects are undisturbed: none, or those
\* captured, and never none when the authorisation is attached first.
LEMMA TermsOfUndisturbed ==
    ASSUME IInv, NEW b \in Batches, stage[b] # "idle", Undisturbed(b)
    PROVE  /\ TermsNow(b) \in Terms \cup {None}
           /\ AttachFirst => TermsNow(b) = IF HasSession(b)
                                           THEN captured[Session(b)].terms
                                           ELSE None
<1>1. CASE attached[b] = "none"
  BY <1>1 DEF TermsNow, IInv, Begun
<1>2. CASE attached[b] # "none"
  <2>1. HasSession(b) /\ Session(b) \in Sessions
    BY <1>2, SessionType DEF IInv, Begun
  <2>2. creation[Session(b)] = "ready"
    BY <2>1 DEF IInv, Begun
  <2>3. captured[Session(b)].terms \in Terms
    BY <2>1, <2>2 DEF IInv, SessionInv, Scopes
  <2>4. CASE attached[b] = "final"
    BY <2>1, <2>3, <2>4 DEF TermsNow, IInv, Begun, Kept, AsCaptured
  <2>5. CASE attached[b] = "shared"
    <3>1. auth[Session(b)] = returned[Session(b)]
      BY <2>1, <2>5 DEF Undisturbed, Intact
    <3>2. returned[Session(b)] = [terms |-> captured[Session(b)].terms,
                                  root |-> captured[Session(b)]]
      BY <2>1, <2>2 DEF IInv, SessionInv
    <3>3. auth[Session(b)].terms = captured[Session(b)].terms
      BY <3>1, <3>2
    <3> QED BY <2>1, <2>3, <2>5, <3>3 DEF TermsNow
  <2>6. attached[b] \in {"none", "shared", "final"}
    BY DEF IInv, TypeOK
  <2> QED BY <1>2, <2>4, <2>5, <2>6
<1> QED BY <1>1, <1>2

\* So what a caller hashes, or a signer for it, is a hash.
LEMMA HashType ==
    ASSUME IInv, NEW b \in Batches, stage[b] # "idle", Undisturbed(b),
           NEW k \in SigTypes
    PROVE  BatchHash(b, TermsNow(b), k) \in Hashes
<1>1. TermsNow(b) \in Terms \cup {None}
  BY TermsOfUndisturbed
<1> QED BY <1>1, BatchHashType DEF IInv

-----------------------------------------------------------------------------
(* The first layer *)

LEMMA InitInv ==
    ASSUME Init
    PROVE  IInv
<1>1. TypeOK
  BY DEF Init, TypeOK
<1>2. \A s \in Sessions : SessionInv(s)
  BY DEF Init, SessionInv
<1>3. \A b \in Batches : Begun(b) /\ Kept(b)
  BY DEF Init, Begun, Kept
<1> QED BY <1>1, <1>2, <1>3 DEF IInv

\* A step that leaves the bundles alone and starts no session over keeps what
\* is known about the bundles.
LEMMA BundlesUntouched ==
    ASSUME IInv, UNCHANGED <<request, bundle, signing, sent>>,
           \A s \in Sessions : creation[s] = "ready"
                                 => creation'[s] = "ready" /\ captured'[s] = captured[s]
    PROVE  \A b \in Batches : Begun(b)' /\ Kept(b)'
<1> SUFFICES ASSUME NEW b \in Batches
             PROVE  Begun(b)' /\ Kept(b)'
  OBVIOUS
<1>1. Session(b)' = Session(b) /\ HasSession(b)' = HasSession(b)
  BY DEF HasSession, Session
<1>2. stage[b] # "idle" /\ HasSession(b)
        => /\ creation'[Session(b)] = "ready"
           /\ captured'[Session(b)] = captured[Session(b)]
  BY SessionType DEF IInv, Begun
<1>3. Begun(b)'
  BY <1>1, <1>2 DEF IInv, Begun, bundle, signing
<1>4. Kept(b)'
  BY <1>1, <1>2 DEF IInv, Begun, Kept, AsCaptured, bundle, signing
<1> QED BY <1>3, <1>4

LEMMA CreateSessionAuthInv ==
    ASSUME IInv, NEW s \in Sessions, CreateSessionAuth(s)
    PROVE  IInv'
<1> USE DEF CreateSessionAuth
<1>1. TypeOK'
  BY DEF IInv, TypeOK, bundle, signing
<1>2. \A t \in Sessions : SessionInv(t)'
  BY DEF IInv, TypeOK, SessionInv
<1>3. \A b \in Batches : Begun(b)' /\ Kept(b)'
  BY BundlesUntouched DEF IInv, TypeOK
<1> QED BY <1>1, <1>2, <1>3 DEF IInv

LEMMA RootSignedInv ==
    ASSUME IInv, NEW s \in Sessions, RootSigned(s)
    PROVE  IInv'
<1> USE DEF RootSigned
<1>0. captured[s] \in Scopes
  BY DEF IInv, SessionInv
<1>1. TypeOK'
  <2>1. [terms |-> captured[s].terms, root |-> captured[s]] \in Auths
    BY <1>0 DEF Auths, Scopes
  <2> QED BY <2>1 DEF IInv, TypeOK, bundle, signing
<1>2. \A t \in Sessions : SessionInv(t)'
  BY DEF IInv, TypeOK, SessionInv
<1>3. \A b \in Batches : Begun(b)' /\ Kept(b)'
  BY BundlesUntouched DEF IInv, TypeOK
<1> QED BY <1>1, <1>2, <1>3 DEF IInv

LEMMA RootSigningFailsInv ==
    ASSUME IInv, NEW s \in Sessions, RootSigningFails(s)
    PROVE  IInv'
<1> USE DEF RootSigningFails
<1>1. TypeOK'
  BY DEF IInv, TypeOK, bundle, signing
<1>2. \A t \in Sessions : SessionInv(t)'
  BY DEF IInv, TypeOK, SessionInv
<1>3. \A b \in Batches : Begun(b)' /\ Kept(b)'
  BY BundlesUntouched DEF IInv, TypeOK
<1> QED BY <1>1, <1>2, <1>3 DEF IInv

LEMMA CallerReusesConfigInv ==
    ASSUME IInv, CallerReusesConfig
    PROVE  IInv'
<1> USE DEF CallerReusesConfig
<1>1. TypeOK'
  BY DEF IInv, TypeOK, bundle, signing
<1>2. \A t \in Sessions : SessionInv(t)'
  BY DEF IInv, SessionInv
<1>3. \A b \in Batches : Begun(b)' /\ Kept(b)'
  BY BundlesUntouched
<1> QED BY <1>1, <1>2, <1>3 DEF IInv

LEMMA CallerReusesAuthInv ==
    ASSUME IInv, NEW s \in Sessions, CallerReusesAuth(s)
    PROVE  IInv'
<1> USE DEF CallerReusesAuth
<1>1. TypeOK'
  BY DEF IInv, TypeOK, bundle, signing
<1>2. \A t \in Sessions : SessionInv(t)'
  BY DEF IInv, TypeOK, SessionInv
<1>3. \A b \in Batches : Begun(b)' /\ Kept(b)'
  BY BundlesUntouched
<1> QED BY <1>1, <1>2, <1>3 DEF IInv

\* A step of a bundle leaves the sessions alone.
LEMMA SessionsUntouched ==
    ASSUME IInv, UNCHANGED session
    PROVE  \A s \in Sessions : SessionInv(s)'
BY DEF IInv, SessionInv, session

\* What is known about the bundles only depends on their own state.
LEMMA BundleUntouched ==
    ASSUME IInv, UNCHANGED <<session, request>>, NEW c \in Batches,
           stage'[c] = stage[c], attached'[c] = attached[c], hash'[c] = hash[c],
           pending'[c] = pending[c], final'[c] = final[c],
           sponsor'[c] = sponsor[c], outer'[c] = outer[c],
           outerDone'[c] = outerDone[c], sent'[c] = sent[c]
    PROVE  Begun(c)' /\ Kept(c)'
BY DEF IInv, Begun, Kept, AsCaptured, session, HasSession, Session

LEMMA BuildInv ==
    ASSUME IInv, NEW b \in Batches, Build(b)
    PROVE  IInv'
<1> USE DEF Build
<1>1. TypeOK'
  BY DEF IInv, TypeOK, session, bundle, signing
<1>2. \A s \in Sessions : SessionInv(s)'
  BY SessionsUntouched
<1>3. ASSUME NEW c \in Batches, c # b
      PROVE  Begun(c)' /\ Kept(c)'
  BY <1>3, BundleUntouched DEF IInv, TypeOK, bundle, signing
<1>4. Begun(b)' /\ Kept(b)'
  BY SessionType DEF IInv, TypeOK, Begun, Kept, AsCaptured, session, bundle, signing,
     HasSession, Session, Undisturbed, Intact
<1> QED BY <1>1, <1>2, <1>3, <1>4 DEF IInv

LEMMA HashInv ==
    ASSUME IInv, NEW b \in Batches, Hash(b)
    PROVE  IInv'
<1> USE DEF Hash
<1>0. BatchHash(b, TermsNow(b), IF NamesSigType THEN SignerType ELSE DefaultType)
        \in Hashes
  BY HashType, TypesAssumption
<1>1. TypeOK'
  BY <1>0 DEF IInv, TypeOK, session, bundle, signing
<1>2. \A s \in Sessions : SessionInv(s)'
  BY SessionsUntouched
<1>3. ASSUME NEW c \in Batches, c # b
      PROVE  Begun(c)' /\ Kept(c)'
  BY <1>3, BundleUntouched DEF IInv, TypeOK, bundle, signing
<1>4. Begun(b)' /\ Kept(b)'
  BY DEF IInv, TypeOK, Begun, Kept, AsCaptured, session, bundle, signing,
     HasSession, Session
<1> QED BY <1>1, <1>2, <1>3, <1>4 DEF IInv

LEMMA FinalizeSessionAuthInv ==
    ASSUME IInv, NEW b \in Batches, FinalizeSessionAuth(b)
    PROVE  IInv'
<1> USE DEF FinalizeSessionAuth
<1>0. /\ pending'[b] \in Finalized
      /\ pending'[b].terms = captured[Session(b)].terms
      /\ pending'[b].root = captured[Session(b)]
      /\ pending'[b] # None
  <2>1. attached[b] # "final"
    BY DEF IInv, Begun
  <2>2. /\ creation[Session(b)] = "ready"
        /\ auth[Session(b)] = [terms |-> captured[Session(b)].terms,
                              root |-> captured[Session(b)]]
    BY <2>1, SessionType DEF Undisturbed, Intact, IInv, SessionInv
  <2>3. captured[Session(b)] \in Scopes
    BY <2>2, SessionType DEF IInv, SessionInv
  <2>4. hash[b] \in Hashes
    BY DEF IInv, TypeOK
  <2>5. pending'[b] = [terms |-> captured[Session(b)].terms,
                       root |-> captured[Session(b)], session |-> hash[b]]
    BY <2>2 DEF IInv, TypeOK
  <2>6. pending'[b] \in Finalized
    BY <2>3, <2>4, <2>5 DEF Finalized, Scopes
  <2> QED BY <2>5, <2>6, NoneAssumption
<1>1. TypeOK'
  BY <1>0 DEF IInv, TypeOK, session, bundle, signing
<1>2. \A s \in Sessions : SessionInv(s)'
  BY SessionsUntouched
<1>3. ASSUME NEW c \in Batches, c # b
      PROVE  Begun(c)' /\ Kept(c)'
  BY <1>3, BundleUntouched DEF IInv, TypeOK, bundle, signing
<1>4. Begun(b)' /\ Kept(b)'
  BY <1>0 DEF IInv, TypeOK, Begun, Kept, AsCaptured, session, bundle, signing,
     HasSession, Session
<1> QED BY <1>1, <1>2, <1>3, <1>4 DEF IInv

LEMMA SessionSignedInv ==
    ASSUME IInv, NEW b \in Batches, SessionSigned(b)
    PROVE  IInv'
<1> USE DEF SessionSigned
<1>1. TypeOK'
  BY DEF IInv, TypeOK, session, bundle, signing
<1>2. \A s \in Sessions : SessionInv(s)'
  BY SessionsUntouched
<1>3. ASSUME NEW c \in Batches, c # b
      PROVE  Begun(c)' /\ Kept(c)'
  BY <1>3, BundleUntouched DEF IInv, TypeOK, bundle, signing
<1>4. Begun(b)' /\ Kept(b)'
  BY DEF IInv, TypeOK, Begun, Kept, AsCaptured, session, bundle, signing,
     HasSession, Session
<1> QED BY <1>1, <1>2, <1>3, <1>4 DEF IInv

LEMMA SessionSigningFailsInv ==
    ASSUME IInv, NEW b \in Batches, SessionSigningFails(b)
    PROVE  IInv'
<1> USE DEF SessionSigningFails
<1>1. TypeOK'
  BY DEF IInv, TypeOK, session, bundle, signing
<1>2. \A s \in Sessions : SessionInv(s)'
  BY SessionsUntouched
<1>3. ASSUME NEW c \in Batches, c # b
      PROVE  Begun(c)' /\ Kept(c)'
  BY <1>3, BundleUntouched DEF IInv, TypeOK, bundle, signing
<1>4. Begun(b)' /\ Kept(b)'
  BY DEF IInv, TypeOK, Begun, Kept, AsCaptured, session, bundle, signing,
     HasSession, Session
<1> QED BY <1>1, <1>2, <1>3, <1>4 DEF IInv

LEMMA SponsorSignsInv ==
    ASSUME IInv, NEW b \in Batches, SponsorSigns(b)
    PROVE  IInv'
<1> USE DEF SponsorSigns
<1>0. BatchHash(b, TermsNow(b), IF NamesSigType THEN SignerType ELSE DefaultType)
        \in Hashes
  BY HashType, TypesAssumption
<1>1. TypeOK'
  BY <1>0 DEF IInv, TypeOK, session, bundle, signing
<1>2. \A s \in Sessions : SessionInv(s)'
  BY SessionsUntouched
<1>3. ASSUME NEW c \in Batches, c # b
      PROVE  Begun(c)' /\ Kept(c)'
  BY <1>3, BundleUntouched DEF IInv, TypeOK, bundle, signing
<1>4. Begun(b)' /\ Kept(b)'
  BY DEF IInv, TypeOK, Begun, Kept, AsCaptured, session, bundle, signing,
     HasSession, Session
<1> QED BY <1>1, <1>2, <1>3, <1>4 DEF IInv

LEMMA BuildSignedTransactionInv ==
    ASSUME IInv, NEW b \in Batches, BuildSignedTransaction(b)
    PROVE  IInv'
<1> USE DEF BuildSignedTransaction
<1>0. outer' \in [Batches -> Hashes \cup {None}]
  <2>1. Undisturbed(b) => BatchHash(b, TermsNow(b), SignerType) \in Hashes
    BY HashType, TypesAssumption
  <2> QED BY <2>1 DEF IInv, TypeOK
<1>1. TypeOK'
  BY <1>0 DEF IInv, TypeOK, session, bundle, signing
<1>2. \A s \in Sessions : SessionInv(s)'
  BY SessionsUntouched
<1>3. ASSUME NEW c \in Batches, c # b
      PROVE  Begun(c)' /\ Kept(c)'
  BY <1>3, BundleUntouched DEF IInv, TypeOK, bundle, signing
<1>4. Begun(b)' /\ Kept(b)'
  BY DEF IInv, TypeOK, Begun, Kept, AsCaptured, session, bundle, signing,
     HasSession, Session
<1> QED BY <1>1, <1>2, <1>3, <1>4 DEF IInv

LEMMA OuterSignedInv ==
    ASSUME IInv, NEW b \in Batches, OuterSigned(b)
    PROVE  IInv'
<1> USE DEF OuterSigned
<1>1. TypeOK'
  BY DEF IInv, TypeOK, session, bundle, signing
<1>2. \A s \in Sessions : SessionInv(s)'
  BY SessionsUntouched
<1>3. ASSUME NEW c \in Batches, c # b
      PROVE  Begun(c)' /\ Kept(c)'
  BY <1>3, BundleUntouched DEF IInv, TypeOK, bundle, signing
<1>4. Begun(b)' /\ Kept(b)'
  BY DEF IInv, TypeOK, Begun, Kept, AsCaptured, session, bundle, signing,
     HasSession, Session
<1> QED BY <1>1, <1>2, <1>3, <1>4 DEF IInv

LEMMA OuterSigningFailsInv ==
    ASSUME IInv, NEW b \in Batches, OuterSigningFails(b)
    PROVE  IInv'
<1> USE DEF OuterSigningFails
<1>1. TypeOK'
  BY DEF IInv, TypeOK, session, bundle, signing
<1>2. \A s \in Sessions : SessionInv(s)'
  BY SessionsUntouched
<1>3. ASSUME NEW c \in Batches, c # b
      PROVE  Begun(c)' /\ Kept(c)'
  BY <1>3, BundleUntouched DEF IInv, TypeOK, bundle, signing
<1>4. Begun(b)' /\ Kept(b)'
  BY DEF IInv, TypeOK, Begun, Kept, AsCaptured, session, bundle, signing,
     HasSession, Session
<1> QED BY <1>1, <1>2, <1>3, <1>4 DEF IInv

LEMMA CallerReusesHashInv ==
    ASSUME IInv, NEW b \in Batches, CallerReusesHash(b)
    PROVE  IInv'
<1> USE DEF CallerReusesHash
<1>1. TypeOK'
  BY DEF IInv, TypeOK, session, bundle, signing
<1>2. \A s \in Sessions : SessionInv(s)'
  BY SessionsUntouched
<1>3. ASSUME NEW c \in Batches, c # b
      PROVE  Begun(c)' /\ Kept(c)'
  BY <1>3, BundleUntouched DEF IInv, TypeOK, bundle, signing
<1>4. Begun(b)' /\ Kept(b)'
  BY DEF IInv, TypeOK, Begun, Kept, AsCaptured, session, bundle, signing,
     HasSession, Session
<1> QED BY <1>1, <1>2, <1>3, <1>4 DEF IInv

LEMMA SendInv ==
    ASSUME IInv, NEW b \in Batches, Send(b)
    PROVE  IInv'
<1> USE DEF Send
<1>1. TypeOK'
  BY DEF IInv, TypeOK, session, bundle, signing
<1>2. \A s \in Sessions : SessionInv(s)'
  BY SessionsUntouched
<1>3. ASSUME NEW c \in Batches, c # b
      PROVE  Begun(c)' /\ Kept(c)'
  BY <1>3, BundleUntouched DEF IInv, TypeOK, bundle, signing
<1>4. Begun(b)' /\ Kept(b)'
  BY DEF IInv, TypeOK, Begun, Kept, AsCaptured, session, bundle, signing,
     HasSession, Session
<1> QED BY <1>1, <1>2, <1>3, <1>4 DEF IInv

LEMMA NextInv ==
    ASSUME IInv, [Next]_vars
    PROVE  IInv'
<1>1. CASE UNCHANGED vars
  BY <1>1 DEF vars, session, bundle, signing, IInv, TypeOK, SessionInv, Begun,
     Kept, AsCaptured, HasSession, Session
<1>2. CASE CallerReusesConfig
  BY <1>2, CallerReusesConfigInv
<1>3. ASSUME NEW s \in Sessions,
             \/ CreateSessionAuth(s) \/ RootSigned(s) \/ RootSigningFails(s)
             \/ CallerReusesAuth(s)
      PROVE  IInv'
  BY <1>3, CreateSessionAuthInv, RootSignedInv, RootSigningFailsInv,
     CallerReusesAuthInv
<1>4. ASSUME NEW b \in Batches,
             \/ Build(b) \/ Hash(b)
             \/ FinalizeSessionAuth(b) \/ SessionSigned(b)
             \/ SessionSigningFails(b) \/ SponsorSigns(b)
             \/ BuildSignedTransaction(b) \/ OuterSigned(b)
             \/ OuterSigningFails(b) \/ CallerReusesHash(b) \/ Send(b)
      PROVE  IInv'
  BY <1>4, BuildInv, HashInv, FinalizeSessionAuthInv, SessionSignedInv,
     SessionSigningFailsInv, SponsorSignsInv, BuildSignedTransactionInv,
     OuterSignedInv, OuterSigningFailsInv, CallerReusesHashInv, SendInv
<1> QED BY <1>1, <1>2, <1>3, <1>4 DEF Next

\* The first layer holds in every behaviour, whatever procedure is followed.
THEOREM Invariance == Spec => []IInv
<1>1. Init => IInv
  BY InitInv
<1>2. IInv /\ [Next]_vars => IInv'
  BY NextInv
<1> QED BY <1>1, <1>2, PTL DEF Spec

\* Every variable keeps its type; in particular createSessionAuth returns no
\* authorisation without a root signature.
THEOREM TypeCorrect == Spec => []TypeOK
<1>1. IInv => TypeOK
  BY DEF IInv
<1> QED BY <1>1, Invariance, PTL

\* A submitted bundle carries the terms and the root signature of the session
\* the caller asked for, whatever it does to its objects meanwhile
\* (createSessionAuth, finalizeSessionAuth).
THEOREM AuthorisedCorrect == Spec => []AuthorisedAsGranted
<1>1. ASSUME IInv
      PROVE  AuthorisedAsGranted
  <2> SUFFICES ASSUME NEW b \in Batches, sent[b] # None, HasSession(b)
               PROVE  /\ sent[b].auth.terms = granted[Session(b)].terms
                      /\ sent[b].auth.root = granted[Session(b)]
    BY DEF AuthorisedAsGranted
  <2>1. AsCaptured(b, sent[b].auth)
    BY <1>1 DEF IInv, Kept
  <2>2. captured[Session(b)] = granted[Session(b)]
    BY <1>1, SessionType DEF IInv, SessionInv
  <2> QED BY <2>1, <2>2 DEF AsCaptured
<1> QED BY <1>1, Invariance, PTL

-----------------------------------------------------------------------------
(* The second layer *)

\* The hash of a bundle does not move once the bundle is built.
LEMMA TheHashStays ==
    ASSUME IInv, UNCHANGED request, NEW b \in Batches, stage[b] # "idle",
           \A s \in Sessions : creation[s] = "ready" => captured'[s] = captured[s]
    PROVE  TheHash(b)' = TheHash(b)
<1>1. HasSession(b) => captured'[Session(b)] = captured[Session(b)]
  BY SessionType DEF IInv, Begun
<1> QED BY <1>1 DEF TheHash, BatchHash, HasSession, Session

\* What an undisturbed bundle hashes to under the careful procedure.
LEMMA HashOfUndisturbed ==
    ASSUME IInv, AttachFirst, NEW b \in Batches, stage[b] # "idle",
           Undisturbed(b)
    PROVE  BatchHash(b, TermsNow(b), SignerType) = TheHash(b)
BY TermsOfUndisturbed DEF TheHash

\* A step that leaves a bundle alone keeps what is known about its hash.
LEMMA OneHashUntouched ==
    ASSUME IInv, UNCHANGED request, NEW c \in Batches, OneHash(c),
           \A s \in Sessions : creation[s] = "ready" => captured'[s] = captured[s],
           stage'[c] = stage[c], hash'[c] = hash[c], pending'[c] = pending[c],
           final'[c] = final[c], sponsor'[c] = sponsor[c], outer'[c] = outer[c],
           sent'[c] = sent[c]
    PROVE  OneHash(c)'
<1>1. CASE stage[c] = "idle"
  BY <1>1 DEF IInv, Begun, OneHash
<1>2. CASE stage[c] # "idle"
  <2>1. TheHash(c)' = TheHash(c)
    BY <1>2, TheHashStays
  <2> QED BY <2>1 DEF OneHash, HasSession, Session
<1> QED BY <1>1, <1>2

LEMMA SessionStepHash ==
    ASSUME IInv, NEW b \in Batches, OneHash(b), NEW s \in Sessions,
           \/ CreateSessionAuth(s) \/ RootSigned(s) \/ RootSigningFails(s)
           \/ CallerReusesAuth(s)
    PROVE  OneHash(b)'
<1>1. UNCHANGED <<request, bundle, signing, sent>>
  BY DEF CreateSessionAuth, RootSigned, RootSigningFails, CallerReusesAuth
<1>2. \A t \in Sessions : creation[t] = "ready" => captured'[t] = captured[t]
  BY DEF CreateSessionAuth, RootSigned, RootSigningFails, CallerReusesAuth,
     IInv, TypeOK
<1> QED BY <1>1, <1>2, OneHashUntouched DEF bundle, signing

LEMMA BundleStepHash ==
    ASSUME IInv, AttachFirst, NamesSigType, NEW b \in Batches, OneHash(b),
           \/ Build(b) \/ Hash(b)
           \/ FinalizeSessionAuth(b) \/ SessionSigned(b)
           \/ SessionSigningFails(b) \/ SponsorSigns(b)
           \/ BuildSignedTransaction(b) \/ OuterSigned(b)
           \/ OuterSigningFails(b) \/ CallerReusesHash(b) \/ Send(b)
    PROVE  OneHash(b)'
<1>1. UNCHANGED <<session, request>>
  BY DEF Build, Hash, FinalizeSessionAuth, SessionSigned, SessionSigningFails,
     SponsorSigns, BuildSignedTransaction, OuterSigned, OuterSigningFails,
     CallerReusesHash, Send
<1>2. /\ TheHash(b)' = TheHash(b)
      /\ HasSession(b)' = HasSession(b)
  BY <1>1 DEF TheHash, BatchHash, HasSession, Session, session
<1> USE <1>1, <1>2 DEF IInv, TypeOK, OneHash, bundle, signing
<1>3. CASE Build(b)
  BY <1>3 DEF Build
<1>4. CASE Hash(b)
  <2>1. hash'[b] = TheHash(b)
    BY <1>4, HashOfUndisturbed DEF Hash
  <2> QED BY <1>4, <2>1 DEF Hash
<1>5. CASE FinalizeSessionAuth(b)
  <2>1. pending'[b].session = hash[b] /\ hash[b] # None
    BY <1>5 DEF FinalizeSessionAuth
  <2> QED BY <1>5, <2>1 DEF FinalizeSessionAuth
<1>6. CASE SessionSigned(b)
  BY <1>6 DEF SessionSigned
<1>7. CASE SessionSigningFails(b)
  BY <1>7 DEF SessionSigningFails
<1>8. CASE SponsorSigns(b)
  <2>1. sponsor'[b] = TheHash(b)
    BY <1>8, HashOfUndisturbed DEF SponsorSigns
  <2> QED BY <1>8, <2>1 DEF SponsorSigns
<1>9. CASE BuildSignedTransaction(b)
  <2>1. outer'[b] = TheHash(b)
    BY <1>9, HashOfUndisturbed DEF BuildSignedTransaction
  <2> QED BY <1>9, <2>1 DEF BuildSignedTransaction
<1>10. CASE OuterSigned(b)
  BY <1>10 DEF OuterSigned
<1>11. CASE OuterSigningFails(b)
  BY <1>11 DEF OuterSigningFails
<1>12. CASE CallerReusesHash(b)
  BY <1>12 DEF CallerReusesHash
<1>13. CASE Send(b)
  <2>1. sent'[b] = [auth |-> final[b], sponsor |-> sponsor[b], outer |-> outer[b]]
    BY <1>13 DEF Send
  <2>2. outer[b] # None /\ (HasSession(b) => final[b] # None)
    BY <1>13 DEF Send, Begun
  <2>3. request[b].sponsored => sponsor[b] # None
    BY <1>13 DEF Send
  <2> QED BY <1>13, <2>1, <2>2, <2>3 DEF Send
<1> QED BY <1>3, <1>4, <1>5, <1>6, <1>7, <1>8, <1>9, <1>10, <1>11, <1>12, <1>13

LEMMA OtherBundleHash ==
    ASSUME IInv, NEW b \in Batches, NEW c \in Batches, c # b, OneHash(c),
           \/ Build(b) \/ Hash(b)
           \/ FinalizeSessionAuth(b) \/ SessionSigned(b)
           \/ SessionSigningFails(b) \/ SponsorSigns(b)
           \/ BuildSignedTransaction(b) \/ OuterSigned(b)
           \/ OuterSigningFails(b) \/ CallerReusesHash(b) \/ Send(b)
    PROVE  OneHash(c)'
<1>1. UNCHANGED <<session, request>>
  BY DEF Build, Hash, FinalizeSessionAuth, SessionSigned, SessionSigningFails,
     SponsorSigns, BuildSignedTransaction, OuterSigned, OuterSigningFails,
     CallerReusesHash, Send
<1>2. /\ stage'[c] = stage[c] /\ hash'[c] = hash[c] /\ pending'[c] = pending[c]
      /\ final'[c] = final[c] /\ sponsor'[c] = sponsor[c] /\ outer'[c] = outer[c]
      /\ sent'[c] = sent[c]
  BY DEF Build, Hash, FinalizeSessionAuth, SessionSigned, SessionSigningFails,
     SponsorSigns, BuildSignedTransaction, OuterSigned, OuterSigningFails,
     CallerReusesHash, Send, IInv, TypeOK, bundle, signing
<1> QED BY <1>1, <1>2, OneHashUntouched DEF session

\* A caller that attaches the authorisation before it hashes the bundle, and
\* names the algorithm of the signer, hashes and has signed one hash only.
THEOREM OneHashInvariance ==
    ASSUME AttachFirst, NamesSigType
    PROVE  Spec => [](\A b \in Batches : OneHash(b))
<1>1. Init => \A b \in Batches : OneHash(b)
  BY DEF Init, OneHash
<1>2. ASSUME IInv, \A b \in Batches : OneHash(b), [Next]_vars
      PROVE  (\A b \in Batches : OneHash(b))'
  <2> SUFFICES ASSUME NEW c \in Batches
               PROVE  OneHash(c)'
    OBVIOUS
  <2> USE <1>2
  <2>1. CASE UNCHANGED vars \/ CallerReusesConfig
    <3>1. UNCHANGED <<captured, request, bundle, signing, sent>>
      BY <2>1 DEF vars, session, CallerReusesConfig
    <3> QED BY <3>1, OneHashUntouched DEF bundle, signing
  <2>2. ASSUME NEW s \in Sessions,
               \/ CreateSessionAuth(s) \/ RootSigned(s) \/ RootSigningFails(s)
               \/ CallerReusesAuth(s)
        PROVE  OneHash(c)'
    BY <2>2, SessionStepHash
  <2>3. ASSUME NEW b \in Batches,
               \/ Build(b) \/ Hash(b)
               \/ FinalizeSessionAuth(b) \/ SessionSigned(b)
               \/ SessionSigningFails(b) \/ SponsorSigns(b)
               \/ BuildSignedTransaction(b) \/ OuterSigned(b)
               \/ OuterSigningFails(b) \/ CallerReusesHash(b) \/ Send(b)
        PROVE  OneHash(c)'
    <3>1. CASE b = c
      BY <2>3, <3>1, BundleStepHash
    <3>2. CASE b # c
      BY <2>3, <3>2, OtherBundleHash
    <3> QED BY <3>1, <3>2
  <2> QED BY <2>1, <2>2, <2>3 DEF Next
<1> QED BY <1>1, <1>2, Invariance, PTL DEF Spec

\* The one hash is the hash of the bundle as it was submitted.
LEMMA OneHashIsSubmitted ==
    ASSUME IInv, NEW b \in Batches, sent[b] # None
    PROVE  SenderSigningHash(b) = TheHash(b)
BY DEF IInv, Kept, AsCaptured, SenderSigningHash, SentTerms, TheHash

\* Under that procedure the signature of the transaction covers the bundle
\* that is submitted (hashBatchTransaction, ShellSigner.buildSignedTransaction).
THEOREM OuterCorrect ==
    ASSUME AttachFirst, NamesSigType
    PROVE  Spec => []OuterCoversBundle
<1>1. IInv /\ (\A b \in Batches : OneHash(b)) => OuterCoversBundle
  BY OneHashIsSubmitted DEF OneHash, OuterCoversBundle
<1> QED BY <1>1, Invariance, OneHashInvariance, PTL

\* Under that procedure the session signature covers the bundle that is
\* submitted, whatever else the session key signs at the same time
\* (finalizeSessionAuth).
THEOREM SessionCorrect ==
    ASSUME AttachFirst, NamesSigType
    PROVE  Spec => []SessionCoversBundle
<1>1. IInv /\ (\A b \in Batches : OneHash(b)) => SessionCoversBundle
  BY OneHashIsSubmitted DEF OneHash, SessionCoversBundle
<1> QED BY <1>1, Invariance, OneHashInvariance, PTL

\* Under that procedure the paymaster's signature covers the bundle that is
\* submitted (hashPaymasterTransaction).
THEOREM SponsorCorrect ==
    ASSUME AttachFirst, NamesSigType
    PROVE  Spec => []SponsorCoversBundle
<1>1. IInv /\ (\A b \in Batches : OneHash(b)) => SponsorCoversBundle
  BY OneHashIsSubmitted DEF OneHash, SponsorCoversBundle
<1> QED BY <1>1, Invariance, OneHashInvariance, PTL

=============================================================================
