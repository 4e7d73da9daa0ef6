--------------------------- MODULE OfflineProofs ---------------------------
(***************************************************************************)
(* What the library computes, for any values of its limits: what is signed *)
(* can be run (Builders), an HD wallet gives back its keys (HdWallet), and *)
(* calls reach the function they name, however types are nested            *)
(* (ContractAbi).                                                          *)
(***************************************************************************)
EXTENDS Builders, ContractAbi, HdWallet, FiniteSetTheorems, WellFoundedInduction, TLAPS

-----------------------------------------------------------------------------
(* Sums *)

LEMMA Least ==
  ASSUME NEW T, T \subseteq Nat, T # {}
  PROVE  \E x \in T : \A y \in T : x <= y
<1> DEFINE R == OpToRel(<, Nat)
<1>1. IsWellFoundedOn(R, Nat)
  BY NatLessThanWellFounded
<1> HIDE DEF R
<1>2. PICK x \in T : \A y \in T : <<y, x>> \notin R
  BY <1>1, WFMin
<1>3. \A y \in T : y < x => <<y, x>> \in R
  BY DEF OpToRel, R
<1>4. \A y \in T : ~(y < x) => x <= y
  OBVIOUS
<1> QED BY <1>2, <1>3, <1>4

\* Induction, for a set of numbers in place of a predicate.
LEMMA Induction ==
  ASSUME NEW T, 0 \in T, \A n \in Nat : n \in T => n + 1 \in T
  PROVE  Nat \subseteq T
<1> SUFFICES ASSUME Nat \ T # {} PROVE FALSE
  OBVIOUS
<1>1. PICK x \in Nat \ T : \A y \in Nat \ T : x <= y
  BY Least
<1>2. x # 0
  OBVIOUS
<1>3. x - 1 \in Nat /\ x - 1 \notin Nat \ T /\ x - 1 + 1 = x
  BY <1>1, <1>2
<1> QED BY <1>3

\* g is the function of the partial sums of s up to n.
Sums(g, s, n) == g = [i \in 0 .. n |-> IF i = 0 THEN 0 ELSE g[i - 1] + s[i]]

LEMMA SumsExist ==
  ASSUME NEW s \in Seq(Int)
  PROVE  \A n \in Nat : n <= Len(s) => \E g \in [0 .. n -> Int] : Sums(g, s, n)
<1> DEFINE T == {n \in Nat : n <= Len(s) => \E g \in [0 .. n -> Int] : Sums(g, s, n)}
<1>1. 0 \in T
  <2>1. [i \in 0 .. 0 |-> 0] \in [0 .. 0 -> Int] /\ Sums([i \in 0 .. 0 |-> 0], s, 0)
    BY DEF Sums
  <2> QED BY <2>1
<1>2. ASSUME NEW n \in Nat, n \in T PROVE n + 1 \in T
  <2> SUFFICES ASSUME n + 1 <= Len(s)
               PROVE  \E g \in [0 .. n + 1 -> Int] : Sums(g, s, n + 1)
    OBVIOUS
  <2>1. PICK g \in [0 .. n -> Int] : Sums(g, s, n)
    BY <1>2
  <2> DEFINE h == [i \in 0 .. n + 1 |-> IF i = n + 1 THEN g[n] + s[n + 1] ELSE g[i]]
  <2>2. s[n + 1] \in Int
    OBVIOUS
  <2>3. h \in [0 .. n + 1 -> Int]
    BY <2>2
  <2>4. ASSUME NEW i \in 0 .. n + 1 PROVE h[i] = IF i = 0 THEN 0 ELSE h[i - 1] + s[i]
    <3>1. CASE i = n + 1
      <4>1. h[i] = g[n] + s[n + 1] /\ h[n] = g[n]
        BY <3>1
      <4> HIDE DEF h
      <4> QED BY <3>1, <4>1
    <3>2. CASE i \in 0 .. n
      <4>1. g[i] = IF i = 0 THEN 0 ELSE g[i - 1] + s[i]
        BY <2>1, <3>2 DEF Sums
      <4>2. h[i] = g[i] /\ (i # 0 => h[i - 1] = g[i - 1])
        BY <3>2
      <4> HIDE DEF h
      <4> QED BY <4>1, <4>2
    <3> QED BY <3>1, <3>2
  <2> HIDE DEF h
  <2>5. Sums(h, s, n + 1)
    BY <2>3, <2>4 DEF Sums
  <2> QED BY <2>3, <2>5
<1> HIDE DEF T
<1>3. Nat \subseteq T
  BY <1>1, <1>2, Induction
<1> QED BY <1>3 DEF T

\* What the loop adds up: nothing at first, then one number after the other.
LEMMA TotalSteps ==
  ASSUME NEW s \in Seq(Int)
  PROVE  /\ Total(s, 0) = 0
         /\ \A n \in 1 .. Len(s) : Total(s, n) = Total(s, n - 1) + s[n]
         /\ \A n \in 0 .. Len(s) : Total(s, n) \in Int
<1> DEFINE f == CHOOSE g : g = [i \in 0 .. Len(s) |-> IF i = 0 THEN 0 ELSE g[i - 1] + s[i]]
<1>1. PICK g \in [0 .. Len(s) -> Int] : Sums(g, s, Len(s))
  BY SumsExist
<1>2. f = [i \in 0 .. Len(s) |-> IF i = 0 THEN 0 ELSE f[i - 1] + s[i]]
  BY <1>1 DEF Sums
<1>3. \A n : Total(s, n) = f[n]
  BY DEF Total
<1> HIDE DEF f
<1>4. f[0] = 0 /\ \A n \in 1 .. Len(s) : f[n] = f[n - 1] + s[n]
  <2>1. \A i \in 0 .. Len(s) : f[i] = IF i = 0 THEN 0 ELSE f[i - 1] + s[i]
    BY <1>2, Zenon
  <2> QED BY <2>1
<1>5. \A n \in 0 .. Len(s) : f[n] = g[n]
  <2> DEFINE T == {n \in Nat : n <= Len(s) => f[n] = g[n]}
  <2>1. g[0] = 0 /\ \A n \in 1 .. Len(s) : g[n] = g[n - 1] + s[n]
    BY <1>1 DEF Sums
  <2>2. 0 \in T
    BY <1>4, <2>1
  <2>3. ASSUME NEW n \in Nat, n \in T PROVE n + 1 \in T
    <3>1. n + 1 <= Len(s) => f[n + 1] = f[n] + s[n + 1] /\ g[n + 1] = g[n] + s[n + 1]
      BY <1>4, <2>1
    <3> QED BY <2>3, <3>1
  <2> HIDE DEF T
  <2>4. Nat \subseteq T
    BY <2>2, <2>3, Induction
  <2> QED BY <2>4 DEF T
<1> QED BY <1>1, <1>3, <1>4, <1>5

LEMMA TotalNatural ==
  ASSUME NEW s \in Seq(Nat)
  PROVE  \A n \in 0 .. Len(s) : Total(s, n) \in Nat
<1> DEFINE T == {n \in Nat : n <= Len(s) => Total(s, n) \in Nat}
<1>1. s \in Seq(Int)
  OBVIOUS
<1>2. 0 \in T
  BY <1>1, TotalSteps
<1>3. ASSUME NEW n \in Nat, n \in T PROVE n + 1 \in T
  <2>1. n + 1 <= Len(s) => Total(s, n + 1) = Total(s, n) + s[n + 1] /\ s[n + 1] \in Nat
    <3>1. n + 1 <= Len(s) => n + 1 \in 1 .. Len(s) /\ n + 1 - 1 = n
      OBVIOUS
    <3> QED BY <1>1, <3>1, TotalSteps
  <2> QED BY <1>3, <2>1
<1> HIDE DEF T
<1>4. Nat \subseteq T
  BY <1>2, <1>3, Induction
<1> QED BY <1>4 DEF T

\* A partial sum is at most the sum.
LEMMA TotalGrows ==
  ASSUME NEW s \in Seq(Nat), NEW n \in 0 .. Len(s)
  PROVE  Total(s, n) <= Total(s, Len(s))
<1> DEFINE T == {k \in Nat : n + k <= Len(s) => Total(s, n) <= Total(s, n + k)}
<1>1. s \in Seq(Int) /\ n \in Nat /\ Len(s) \in Nat
  OBVIOUS
<1>2. 0 \in T
  BY <1>1, TotalNatural
<1>3. ASSUME NEW k \in Nat, k \in T PROVE k + 1 \in T
  <2> SUFFICES ASSUME n + (k + 1) <= Len(s) PROVE Total(s, n) <= Total(s, n + (k + 1))
    OBVIOUS
  <2>1. n + (k + 1) \in 1 .. Len(s) /\ n + (k + 1) - 1 = n + k /\ n + k \in 0 .. Len(s)
    BY <1>1
  <2>2. Total(s, n + (k + 1)) = Total(s, n + k) + s[n + (k + 1)] /\ s[n + (k + 1)] \in Nat
    BY <1>1, <2>1, TotalSteps
  <2>3. Total(s, n) <= Total(s, n + k)
    BY <1>3, <2>1
  <2>4. Total(s, n) \in Nat /\ Total(s, n + k) \in Nat
    BY <2>1, TotalNatural
  <2> HIDE DEF T
  <2> QED BY <2>2, <2>3, <2>4
<1> HIDE DEF T
<1>4. Nat \subseteq T
  BY <1>2, <1>3, Induction
<1>5. Len(s) - n \in Nat /\ n + (Len(s) - n) = Len(s)
  BY <1>1
<1> QED BY <1>4, <1>5 DEF T

-----------------------------------------------------------------------------
(* Transactions *)

InnerCalls == [value : Nat, gas : Nat, form : {"good", "malformed"}]

\* What is known of the session authorisation of a bundle.
SessionShaped(session) == session # None => session \in Authorisations /\ WellShaped(session)

\* What a bundle's gas limit and value are for, and that the transaction
\* around it can be encoded.
BundleCovered ==
    /\ Encodable
    /\ innerCalls # <<>>
    /\ tx.value = InnerValue
    /\ CoversGas(tx.gasLimit, Surcharge)
    /\ SessionShaped(bundle.session)

Stages == {"listing", "built", "hashed", "unhashable", "refused"}

BuildersInv ==
    /\ innerCalls \in Seq(InnerCalls)
    /\ stage \in Stages
    /\ stage = "unhashable" /\ bundle # None => ~BundleEncodable
    /\ stage = "hashed" => Encodable /\ BundleEncodable
    /\ stage \in {"built", "hashed", "unhashable"} =>
         /\ tx.tip <= tx.maxFee
         /\ tx.blobs # None <=> tx.txType = 3
         /\ tx.txType = 3 => tx.to # "null"
         /\ bundle # None => BundleCovered

LEMMA BuildersStart == BuildersInit => BuildersInv
BY DEF BuildersInit, BuildersInv, Stages

LEMMA InnerNumbers ==
  ASSUME innerCalls \in Seq(InnerCalls)
  PROVE  /\ Len(innerCalls) \in Nat
         /\ CallValues \in Seq(Nat) /\ Len(CallValues) = Len(innerCalls)
         /\ CallLimits \in Seq(Nat) /\ Len(CallLimits) = Len(innerCalls)
         /\ Charged \in Seq(Nat) /\ Len(Charged) = Len(innerCalls)
         /\ \A i \in 1 .. Len(innerCalls) :
               CallLimits[i] = innerCalls[i].gas /\ Charged[i] = CallLimits[i] + CallGas
<1>1. Len(innerCalls) \in Nat
  OBVIOUS
<1>2. \A i \in 1 .. Len(innerCalls) : innerCalls[i].value \in Nat /\ innerCalls[i].gas \in Nat
  <2> SUFFICES ASSUME NEW i \in 1 .. Len(innerCalls)
               PROVE  innerCalls[i].value \in Nat /\ innerCalls[i].gas \in Nat
    OBVIOUS
  <2>1. innerCalls[i] \in InnerCalls
    OBVIOUS
  <2> QED BY <2>1 DEF InnerCalls
<1>3. CallGas \in Nat
  BY BuildersAssumption
<1>4. CallValues \in Seq(Nat) /\ Len(CallValues) = Len(innerCalls)
  BY <1>1, <1>2 DEF CallValues
<1>5. CallLimits \in Seq(Nat) /\ Len(CallLimits) = Len(innerCalls)
  BY <1>1, <1>2 DEF CallLimits
<1>6. Charged \in Seq(Nat) /\ Len(Charged) = Len(innerCalls)
  BY <1>1, <1>2, <1>3 DEF Charged
<1>7. \A i \in 1 .. Len(innerCalls) :
         CallLimits[i] = innerCalls[i].gas /\ Charged[i] = CallLimits[i] + CallGas
  BY DEF CallLimits, Charged
<1> QED BY <1>1, <1>4, <1>5, <1>6, <1>7

LEMMA InnerValueNatural ==
  ASSUME innerCalls \in Seq(InnerCalls)
  PROVE  InnerValue \in Nat
<1>1. CallValues \in Seq(Nat) /\ Len(innerCalls) \in 0 .. Len(CallValues)
  BY InnerNumbers
<1> QED BY <1>1, TotalNatural DEF InnerValue

\* The charge per call comes once for every call.
LEMMA ChargedTotal ==
  ASSUME innerCalls \in Seq(InnerCalls)
  PROVE  \A n \in 0 .. Len(innerCalls) : Total(Charged, n) = Total(CallLimits, n) + n * CallGas
<1> DEFINE T == {n \in Nat : n <= Len(innerCalls) =>
                               Total(Charged, n) = Total(CallLimits, n) + n * CallGas}
<1>1. CallLimits \in Seq(Int) /\ Charged \in Seq(Int) /\ CallGas \in Nat
  BY InnerNumbers, BuildersAssumption
<1>2. 0 \in T
  <2>1. Total(Charged, 0) = 0 /\ Total(CallLimits, 0) = 0 /\ 0 * CallGas = 0
    BY <1>1, TotalSteps
  <2> QED BY <2>1
<1>3. ASSUME NEW n \in Nat, n \in T PROVE n + 1 \in T
  <2> SUFFICES ASSUME n + 1 <= Len(innerCalls)
               PROVE  Total(Charged, n + 1) = Total(CallLimits, n + 1) + (n + 1) * CallGas
    OBVIOUS
  <2>1. n + 1 \in 1 .. Len(innerCalls) /\ n + 1 - 1 = n /\ n \in 0 .. Len(innerCalls)
    BY InnerNumbers
  <2>2. Total(Charged, n + 1) = Total(Charged, n) + Charged[n + 1]
    BY <1>1, <2>1, InnerNumbers, TotalSteps
  <2>3. Total(CallLimits, n + 1) = Total(CallLimits, n) + CallLimits[n + 1]
    BY <1>1, <2>1, InnerNumbers, TotalSteps
  <2>4. Charged[n + 1] = CallLimits[n + 1] + CallGas /\ CallLimits[n + 1] \in Int
    BY <2>1, InnerNumbers
  <2>5. Total(Charged, n) = Total(CallLimits, n) + n * CallGas
    BY <1>3, <2>1
  <2>6. (n + 1) * CallGas = n * CallGas + CallGas /\ n * CallGas \in Int
    BY <1>1
  <2>7. Total(CallLimits, n) \in Int
    BY <1>1, <2>1, InnerNumbers, TotalSteps
  <2> HIDE DEF T
  <2> QED BY <1>1, <2>2, <2>3, <2>4, <2>5, <2>6, <2>7
<1> HIDE DEF T
<1>4. Nat \subseteq T
  BY <1>2, <1>3, Induction
<1> QED BY <1>4, InnerNumbers DEF T

\* The gas a bundle's limit must cover pays for every call in turn.
LEMMA CoveredRuns ==
  ASSUME innerCalls \in Seq(InnerCalls), innerCalls # <<>>, tx.gasLimit \in Int,
         CoversGas(tx.gasLimit, Surcharge)
  PROVE  RunsToItsEnd
<1> SUFFICES ASSUME NEW i \in 1 .. Len(innerCalls)
             PROVE  tx.gasLimit - SpentBefore(i) >= innerCalls[i].gas
  BY DEF RunsToItsEnd
<1> DEFINE n == Len(innerCalls)
<1>1. CallLimits \in Seq(Nat) /\ CallLimits \in Seq(Int) /\ Len(CallLimits) = n /\ n \in Nat /\ n # 0
  BY InnerNumbers
<1>2. CallLimits[i] = innerCalls[i].gas
  BY InnerNumbers
<1>3. i \in 1 .. Len(CallLimits) /\ i \in 0 .. Len(CallLimits) /\ i - 1 \in 0 .. n /\ i <= n /\ i \in Nat
  BY <1>1
<1>4. Total(CallLimits, i) = Total(CallLimits, i - 1) + CallLimits[i] /\ Total(CallLimits, i - 1) \in Int
  BY <1>1, <1>3, TotalSteps
<1>5. Total(CallLimits, i) <= Total(CallLimits, n) /\ Total(CallLimits, n) \in Int
  <2>1. Len(CallLimits) \in 0 .. Len(CallLimits)
    BY <1>1
  <2> QED BY <1>1, <1>3, <2>1, TotalGrows, TotalNatural
<1>6. Total(Charged, i - 1) = Total(CallLimits, i - 1) + (i - 1) * CallGas
  BY <1>3, ChargedTotal
<1>7. BaseGas \in Nat /\ CallGas \in Nat /\ Surcharge \in Nat
  BY BuildersAssumption DEF Surcharge
<1>8. tx.gasLimit >= BaseGas + Total(CallLimits, n) + (n - 1) * CallGas + Surcharge
  BY DEF CoversGas, Later, InnerGas
<1>9. (i - 1) * CallGas <= (n - 1) * CallGas /\ (i - 1) * CallGas \in Int /\ (n - 1) * CallGas \in Int
  <2>1. (n - 1) * CallGas = (i - 1) * CallGas + (n - i) * CallGas
    BY <1>1, <1>3, <1>7
  <2>2. (n - i) * CallGas \in Nat
    BY <1>1, <1>3, <1>7
  <2>3. (i - 1) * CallGas \in Int /\ (n - 1) * CallGas \in Int
    BY <1>1, <1>3, <1>7
  <2> QED BY <2>1, <2>2, <2>3
<1>10. SpentBefore(i) = BaseGas + Surcharge + Total(Charged, i - 1)
  BY DEF SpentBefore
<1>11. CallLimits[i] \in Nat
  BY <1>1, <1>3
<1> DEFINE before == (i - 1) * CallGas
           all == (n - 1) * CallGas
<1>12. /\ before \in Int /\ all \in Int /\ before <= all
       /\ tx.gasLimit >= BaseGas + Total(CallLimits, n) + all + Surcharge
       /\ SpentBefore(i) = BaseGas + Surcharge + (Total(CallLimits, i - 1) + before)
  BY <1>6, <1>8, <1>9, <1>10
<1> HIDE DEF n, before, all
<1>13. \A limit, base, charge, spent, own, sum, early, late \in Int :
          early <= late /\ spent + own <= sum /\ limit >= base + sum + late + charge
            => limit - (base + charge + (spent + early)) >= own
  OBVIOUS
<1>14. Total(CallLimits, i - 1) + CallLimits[i] <= Total(CallLimits, n) /\ BaseGas \in Int /\ Surcharge \in Int
  BY <1>4, <1>5, <1>7
<1>15. CallLimits[i] \in Int
  BY <1>11
<1>16. tx.gasLimit - (BaseGas + Surcharge + (Total(CallLimits, i - 1) + before)) >= CallLimits[i]
  BY <1>4, <1>5, <1>12, <1>13, <1>14, <1>15, Zenon
<1> QED
  BY <1>2, <1>12, <1>16, Zenon

\* The fields of what a builder is given and of what it returns.
Fields == {"to", "nonce", "value", "gasLimit", "maxFee", "tip", "txType",
           "blobFee", "blobs", "blobForm"}

LEMMA PlainFields == DOMAIN Plain = Fields
BY Zenon DEF Plain, Fields

LEMMA BatchOptionsAre == \A o \in BatchOptions : DOMAIN o = Fields /\ o.nonce = 0
<1>1. Plain.nonce = 0
  BY Zenon DEF Plain
<1>2. \A g : DOMAIN Limited(g) = Fields /\ Limited(g).nonce = 0
  BY <1>1, PlainFields, Zenon DEF Fields, Limited
<1>3. \A f, t : DOMAIN Paying(f, t) = Fields /\ Paying(f, t).nonce = 0
  BY <1>1, PlainFields, Zenon DEF Fields, Paying
<1>4. \A o \in BatchOptions : (\E g : o = Limited(g)) \/ (\E f, t : o = Paying(f, t))
  BY DEF BatchOptions, GasOptions
<1> QED BY <1>2, <1>3, <1>4, Zenon

LEMMA PlainOptionsAre == \A o \in PlainOptions : DOMAIN o = Fields
<1>1. \A v, r, n : DOMAIN Sending(v, r, n) = Fields
  BY PlainFields, Zenon DEF Sending
<1>2. \A k, f, b, r, w : DOMAIN Carrying(k, f, b, r, w) = Fields
  BY PlainFields, Zenon DEF Carrying
<1>3. \A o \in PlainOptions :
         \/ o \in BatchOptions
         \/ \E v, r, n : o = Sending(v, r, n)
         \/ \E k, f, b, r, w : o = Carrying(k, f, b, r, w)
  BY DEF PlainOptions
<1>4. \A o : (\E k, f, b, r, w : o = Carrying(k, f, b, r, w)) => DOMAIN o = Fields
  BY <1>2
<1> QED BY <1>1, <1>3, <1>4, BatchOptionsAre

LEMMA TransactionFields ==
  ASSUME NEW o, DOMAIN o = Fields
  PROVE  /\ Transaction(o).to = o.to /\ Transaction(o).nonce = o.nonce
         /\ Transaction(o).value = Given(o.value, 0)
         /\ Transaction(o).gasLimit = Given(o.gasLimit, TransferGas)
         /\ Transaction(o).maxFee = Given(o.maxFee, DefaultFee)
         /\ Transaction(o).tip = Given(o.tip, DefaultTip)
         /\ Transaction(o).txType = Given(o.txType, 2)
         /\ Transaction(o).blobs = o.blobs
BY Zenon DEF Transaction, Fields

LEMMA OuterFields ==
  ASSUME NEW o, DOMAIN o = Fields
  PROVE  /\ DOMAIN Outer(o) = Fields
         /\ Outer(o).to = "null" /\ Outer(o).nonce = o.nonce /\ Outer(o).value = InnerValue
         /\ Outer(o).gasLimit = Given(o.gasLimit, BundleGas)
         /\ Outer(o).maxFee = o.maxFee /\ Outer(o).tip = o.tip
         /\ Outer(o).txType = BundleType
BY Zenon DEF Outer, Fields

\* What every builder does, if the bundle it attaches is covered.
LEMMA BuildKeeps ==
  ASSUME BuildersInv, stage = "listing", NEW o, DOMAIN o = Fields,
         NEW accepted \in BOOLEAN, NEW attached, Build(o, accepted, attached),
         accepted /\ Acceptable(o) /\ attached # None => BundleCovered'
  PROVE  BuildersInv'
<1>1. CASE ~(accepted /\ Acceptable(o))
  <2>1. stage' = "refused" /\ innerCalls' = innerCalls
    BY <1>1, Zenon DEF Build, Refuse
  <2> QED BY <2>1 DEF BuildersInv, Stages
<1>2. CASE accepted /\ Acceptable(o)
  <2>1. tx' = Transaction(o) /\ bundle' = attached /\ stage' = "built" /\ innerCalls' = innerCalls
    BY <1>2, Zenon DEF Build
  <2>2. bundle' # None => BundleCovered'
    BY <1>2, <2>1, Zenon
  <2>3. /\ tx'.to = o.to
        /\ tx'.maxFee = Given(o.maxFee, DefaultFee) /\ tx'.tip = Given(o.tip, DefaultTip)
        /\ tx'.txType = Given(o.txType, 2) /\ tx'.blobs = o.blobs
    BY <2>1, TransactionFields, Zenon
  <2>4. tx'.tip <= tx'.maxFee
    BY <1>2, <2>3, Zenon DEF Acceptable, FeesOrdered
  <2>5. (tx'.blobs # None <=> tx'.txType = 3) /\ (tx'.txType = 3 => tx'.to # "null")
    <3>1. BlobFields(o)
      BY <1>2, Zenon DEF Acceptable
    <3>2. None \notin 1 .. MaxBlobs
      BY BuildersAssumption
    <3> QED BY <2>3, <3>1, <3>2, Zenon DEF BlobFields
  <2> QED BY <2>1, <2>2, <2>4, <2>5, Zenon DEF BuildersInv, Stages
<1> QED BY <1>1, <1>2

\* A bundle that is built is covered, by a limit that also covers its session key.
LEMMA BundleKeeps ==
  ASSUME BuildersInv, NEW o \in BatchOptions, NEW accepted \in BOOLEAN, NEW attached,
         BuildBundle(o, accepted, attached),
         accepted /\ BatchAccepts(o) =>
            /\ CoversGas(Given(o.gasLimit, BundleGas),
                         IF attached.session = None THEN 0 ELSE SessionGas)
            /\ SessionShaped(attached.session)
  PROVE  BuildersInv'
<1>1. DOMAIN o = Fields /\ o.nonce = 0
  BY BatchOptionsAre, Zenon
<1> DEFINE w == Outer(o)
           ok == accepted /\ BatchAccepts(o)
<1>2. /\ DOMAIN w = Fields
      /\ w.to = "null" /\ w.nonce = 0 /\ w.value = InnerValue
      /\ w.gasLimit = Given(o.gasLimit, BundleGas)
      /\ w.maxFee = o.maxFee /\ w.tip = o.tip /\ w.txType = BundleType
  BY <1>1, OuterFields, Zenon
<1>3. stage = "listing" /\ Build(w, ok, attached)
  BY Zenon DEF BuildBundle
<1> HIDE DEF w
<1>4. ASSUME ok, Acceptable(w) PROVE BundleCovered'
  <2> DEFINE t == Transaction(w)
  <2>1. tx' = t /\ bundle' = attached
    BY <1>3, <1>4, Zenon DEF Build
  <2>2. innerCalls \in Seq(InnerCalls) /\ innerCalls' = innerCalls
    <3>1. innerCalls' = innerCalls
      BY <1>3, <1>4, Zenon DEF Build
    <3> QED BY <3>1 DEF BuildersInv
  <2>3. None \notin Int /\ InnerValue \in Nat /\ InnerValue <= U256Max
    BY <1>4, <2>2, InnerValueNatural, BuildersAssumption DEF BatchAccepts
  <2>4. Given(o.gasLimit, BundleGas) \in 0 .. SafeMax
    BY <1>4, Zenon DEF BatchAccepts, Safe
  <2>5. /\ t.nonce = 0
        /\ t.gasLimit = Given(Given(o.gasLimit, BundleGas), TransferGas)
        /\ t.maxFee = Given(o.maxFee, DefaultFee) /\ t.tip = Given(o.tip, DefaultTip)
        /\ t.value = Given(InnerValue, 0) /\ t.txType = Given(BundleType, 2)
    BY <1>2, TransactionFields, Zenon
  <2> HIDE DEF t
  <2>6. t.gasLimit = Given(o.gasLimit, BundleGas)
    BY <2>3, <2>4, <2>5, BuildersAssumption DEF Given
  <2>7. t.value = InnerValue /\ t.txType = BundleType /\ t.txType # 3
    BY <2>3, <2>5, BuildersAssumption DEF Given
  <2>8. (o.maxFee = None \/ o.maxFee \in 0 .. SafeMax) /\ (o.tip = None \/ o.tip \in 0 .. SafeMax)
    <3>1. \A n \in {w.nonce, w.gasLimit, w.maxFee, w.tip, w.blobFee, w.txType} \ {None} :
             n \in 0 .. SafeMax
      BY <1>4, Zenon DEF Acceptable, Safe
    <3> QED BY <1>2, <3>1
  <2>9. t.maxFee \in 0 .. U64Max /\ t.tip \in 0 .. U64Max
    BY <2>5, <2>8, BuildersAssumption DEF Given
  <2>10. t.gasLimit \in 0 .. U64Max /\ t.nonce \in 0 .. U64Max
    BY <2>4, <2>5, <2>6, BuildersAssumption
  <2>11. t.value \in 0 .. U256Max
    BY <2>3, <2>7, BuildersAssumption
  <2>12. Encodable'
    BY <2>7, <2>9, <2>10, <2>11, <2>1 DEF Encodable
  <2>13. innerCalls # <<>>
    BY <1>4, <2>2 DEF BatchAccepts
  <2>14. InnerValue' = InnerValue /\ InnerGas' = InnerGas /\ Later' = Later
    BY <2>2, Zenon DEF InnerValue, InnerGas, CallValues, CallLimits, Later
  <2>15. CoversGas(t.gasLimit, IF attached.session = None THEN 0 ELSE SessionGas)
    BY <1>4, <2>6, Zenon
  <2>16. CoversGas(tx.gasLimit, Surcharge)'
    BY <2>1, <2>14, <2>15, Zenon DEF CoversGas, Surcharge
  <2>17. SessionShaped(bundle.session)'
    BY <1>4, <2>1, Zenon DEF SessionShaped
  <2> QED BY <2>2, <2>7, <2>1, <2>12, <2>13, <2>14, <2>16, <2>17, Zenon DEF BundleCovered
<1> HIDE DEF ok
<1>5. ok \in BOOLEAN
  BY DEF ok, BatchAccepts
<1> QED BY <1>2, <1>3, <1>4, <1>5, BuildKeeps

\* Every kind of bundle is built so that its limit covers what it attaches.
LEMMA BundlesKeep ==
  ASSUME BuildersInv
  PROVE  /\ \A o \in BatchOptions : BuildBatch(o) => BuildersInv'
         /\ \A o \in GasOptions, s \in Sizes :
               BuildSponsored(o, s) \/ BuildContractPaymaster(o, s) => BuildersInv'
         /\ \A o \in GasOptions, auth \in Authorisations : BuildSession(o, auth) => BuildersInv'
<1>1. \A o \in GasOptions : o \in BatchOptions
  BY DEF BatchOptions
<1>2. \A o : BatchAccepts(o) => CoversGas(Given(o.gasLimit, BundleGas), 0)
  BY Zenon DEF BatchAccepts
<1>3. ASSUME NEW o \in BatchOptions, BuildBatch(o) PROVE BuildersInv'
  <2>1. Bare.session = None
    BY Zenon DEF Bare
  <2>2. BuildBundle(o, TRUE, Bare)
    BY <1>3, Zenon DEF BuildBatch
  <2>3. BatchAccepts(o) =>
          /\ CoversGas(Given(o.gasLimit, BundleGas), IF Bare.session = None THEN 0 ELSE SessionGas)
          /\ SessionShaped(Bare.session)
    BY <1>2, <2>1, Zenon DEF SessionShaped
  <2> QED BY <2>2, <2>3, BundleKeeps
<1>4. ASSUME NEW o \in GasOptions, NEW s \in Sizes,
             BuildSponsored(o, s) \/ BuildContractPaymaster(o, s)
      PROVE  BuildersInv'
  <2> DEFINE a == [Bare EXCEPT !.paymaster = "paymaster", !.signature = s]
             b == [Bare EXCEPT !.paymaster = "paymaster", !.context = s]
  <2>1. a.session = None /\ b.session = None
    BY Zenon DEF Bare
  <2>2. BuildBundle(o, s = "fits", a) \/ BuildBundle(o, s = "fits", b)
    BY <1>4, Zenon DEF BuildSponsored, BuildContractPaymaster
  <2> HIDE DEF a, b
  <2>3. BatchAccepts(o) =>
          /\ CoversGas(Given(o.gasLimit, BundleGas), IF a.session = None THEN 0 ELSE SessionGas)
          /\ CoversGas(Given(o.gasLimit, BundleGas), IF b.session = None THEN 0 ELSE SessionGas)
          /\ SessionShaped(a.session) /\ SessionShaped(b.session)
    BY <1>2, <2>1, Zenon DEF SessionShaped
  <2>4. (s = "fits") \in BOOLEAN /\ o \in BatchOptions
    BY <1>1
  <2>5. CASE BuildBundle(o, s = "fits", a)
    BY <2>3, <2>4, <2>5, BundleKeeps
  <2>6. CASE BuildBundle(o, s = "fits", b)
    BY <2>3, <2>4, <2>6, BundleKeeps
  <2> QED BY <2>2, <2>5, <2>6
<1>5. ASSUME NEW o \in GasOptions, NEW auth \in Authorisations, BuildSession(o, auth)
      PROVE  BuildersInv'
  <2> DEFINE a == [Bare EXCEPT !.session = auth]
             ok == WellShaped(auth) /\ CoversGas(Given(o.gasLimit, BundleGas), SessionGas)
  <2>1. BuildBundle(o, ok, a)
    BY <1>5, Zenon DEF BuildSession
  <2>2. ok /\ BatchAccepts(o) =>
          /\ CoversGas(Given(o.gasLimit, BundleGas), IF a.session = None THEN 0 ELSE SessionGas)
          /\ SessionShaped(a.session)
    <3>1. a.session = auth
      BY Zenon DEF Bare
    <3> QED BY <1>2, <1>5, <3>1, Zenon DEF SessionShaped
  <2>3. ok \in BOOLEAN /\ o \in BatchOptions
    BY <1>1 DEF WellShaped, SizesFit
  <2> HIDE DEF a, ok
  <2> QED BY <2>1, <2>2, <2>3, BundleKeeps
<1> QED BY <1>1, <1>3, <1>4, <1>5

LEMMA BuildersStep == BuildersInv /\ [BuildersNext]_builderVars => BuildersInv'
<1> SUFFICES ASSUME BuildersInv, [BuildersNext]_builderVars PROVE BuildersInv'
  OBVIOUS
<1>1. ASSUME NEW v \in Nat, NEW g \in Nat, NEW f \in {"good", "malformed"}, stage = "listing",
             innerCalls' = Append(innerCalls, [value |-> v, gas |-> g, form |-> f]),
             UNCHANGED <<tx, bundle, stage>>
      PROVE  BuildersInv'
  <2>1. [value |-> v, gas |-> g, form |-> f] \in InnerCalls
    BY DEF InnerCalls
  <2>2. innerCalls' \in Seq(InnerCalls)
    BY <1>1, <2>1 DEF BuildersInv
  <2> QED BY <1>1, <2>2 DEF BuildersInv
<1>2. ASSUME Refuse PROVE BuildersInv'
  BY <1>2 DEF Refuse, BuildersInv, Stages
<1>3. ASSUME NEW v \in Amounts, NEW g \in Gases, InnerCall(v, g) PROVE BuildersInv'
  <2>1. CASE v \in 0 .. U256Max /\ Safe(g)
    <3>1. v \in Nat /\ g \in Nat
      BY <2>1, BuildersAssumption DEF Safe
    <3>2. /\ stage = "listing" /\ UNCHANGED <<tx, bundle, stage>>
          /\ innerCalls' = Append(innerCalls, [value |-> v, gas |-> g, form |-> "good"])
      BY <1>3, <2>1, Zenon DEF InnerCall
    <3> QED BY <1>1, <3>1, <3>2
  <2>2. CASE ~(v \in 0 .. U256Max /\ Safe(g))
    BY <1>2, <1>3, <2>2, Zenon DEF InnerCall
  <2> QED BY <2>1, <2>2
<1>4. ASSUME NEW v \in Amounts \cap Nat, NEW g \in Gases \cap Nat,
             NEW f \in {"good", "malformed"}, CallByHand(v, g, f)
      PROVE  BuildersInv'
  BY <1>1, <1>4 DEF CallByHand
<1>5. ASSUME NEW o \in PlainOptions, BuildTransaction(o) PROVE BuildersInv'
  <2>1. stage = "listing" /\ Build(o, TRUE, None) /\ DOMAIN o = Fields
    BY <1>5, PlainOptionsAre, Zenon DEF BuildTransaction
  <2> QED BY <2>1, BuildKeeps
<1>6. ASSUME NEW o \in PlainOptions, NEW b \in BOOLEAN, BuildSystemTransaction(o, b)
      PROVE  BuildersInv'
  <2> DEFINE w == [o EXCEPT !.to = "accountManager", !.value = 0,
                            !.gasLimit = Given(@, SystemGas)]
  <2>1. DOMAIN w = Fields
    BY PlainOptionsAre, Zenon
  <2>2. stage = "listing" /\ Build(w, b, None)
    BY <1>6, Zenon DEF BuildSystemTransaction
  <2> HIDE DEF w
  <2> QED BY <2>1, <2>2, BuildKeeps
<1>7. ASSUME Hash PROVE BuildersInv'
  <2>1. stage = "built" /\ UNCHANGED <<innerCalls, tx, bundle>>
        /\ stage' = IF Encodable /\ BundleEncodable THEN "hashed" ELSE "unhashable"
    BY <1>7 DEF Hash
  <2>2. /\ BundleCovered' = BundleCovered
        /\ Encodable' = Encodable /\ BundleEncodable' = BundleEncodable
    BY <2>1, Zenon DEF BundleCovered, BundleEncodable, Encodable, CoversGas, Surcharge,
                       InnerValue, InnerGas, Later, CallValues, CallLimits
  <2>3. bundle # None => Encodable
    BY <2>1 DEF BuildersInv, BundleCovered
  <2> QED BY <2>1, <2>2, <2>3, Zenon DEF BuildersInv, Stages
<1>8. CASE UNCHANGED builderVars
  <2>1. UNCHANGED <<innerCalls, tx, bundle, stage>>
    BY <1>8 DEF builderVars
  <2> QED BY <2>1, Zenon DEF BuildersInv, BundleCovered, BundleEncodable, Encodable,
                             CoversGas, Surcharge, InnerValue, InnerGas, Later, CallValues, CallLimits
<1> QED
  BY <1>3, <1>4, <1>5, <1>6, <1>7, <1>8, BundlesKeep, Zenon DEF BuildersNext

LEMMA AuthorisationsAre ==
  \A auth \in Authorisations :
     auth.cap \in Nat \cup {NotInteger} /\ auth.expiry \in Nat \cup {NotInteger}
<1> DEFINE numbers == Nat \cup {NotInteger}
<1>1. \A r, c, e : Granting(r, c, e).cap = c /\ Granting(r, c, e).expiry = e
  BY Zenon DEF Granting, InOrder
<1>2. \A f \in {"pubkey", "root", "signature"} : \A s :
         [InOrder EXCEPT ![f] = s].cap = 0 /\ [InOrder EXCEPT ![f] = s].expiry = 1
  BY Zenon DEF InOrder
<1>3. [InOrder EXCEPT !.algo = 3].cap = 0 /\ [InOrder EXCEPT !.algo = 3].expiry = 1
  BY Zenon DEF InOrder
<1>4. \A n \in {0, U256Max + 1, NotInteger} \cup {0, 1, U64Max + 1, NotInteger} : n \in numbers
  BY BuildersAssumption
<1> HIDE DEF numbers
<1>5. \A a \in Authorisations :
         \/ a = [InOrder EXCEPT !.algo = 3]
         \/ \E f \in {"pubkey", "root", "signature"} : \E s : a = [InOrder EXCEPT ![f] = s]
         \/ \E r : \E c \in {0, U256Max + 1, NotInteger} :
               \E e \in {0, 1, U64Max + 1, NotInteger} : a = Granting(r, c, e)
  BY DEF Authorisations
<1>6. \A a \in Authorisations : a.cap \in numbers /\ a.expiry \in numbers
  <2> SUFFICES ASSUME NEW a \in Authorisations PROVE a.cap \in numbers /\ a.expiry \in numbers
    OBVIOUS
  <2>1. 0 \in numbers /\ 1 \in numbers
    BY <1>4
  <2>2. CASE a = [InOrder EXCEPT !.algo = 3]
    BY <1>3, <2>1, <2>2, Zenon
  <2>3. CASE \E f \in {"pubkey", "root", "signature"} : \E s : a = [InOrder EXCEPT ![f] = s]
    BY <1>2, <2>1, <2>3, Zenon
  <2>4. CASE \E r : \E c \in {0, U256Max + 1, NotInteger} :
               \E e \in {0, 1, U64Max + 1, NotInteger} : a = Granting(r, c, e)
    BY <1>1, <1>4, <2>4
  <2> QED BY <1>5, <2>2, <2>3, <2>4, Zenon
<1> QED BY <1>6 DEF numbers

\* An authorisation a builder let pass is hashed unless it was written wrong.
LEMMA ShapedEncodes ==
  ASSUME NEW auth \in Authorisations, WellShaped(auth)
  PROVE  /\ SessionEncodable(auth) <=> ~WrittenWrong(auth)
         /\ SessionEncodable(auth) => auth.expiry > 0
<1>1. auth.cap \in Nat \cup {NotInteger} /\ auth.expiry \in Nat \cup {NotInteger}
  BY AuthorisationsAre
<1>2. NotInteger \notin Nat
  BY BuildersAssumption
<1> QED BY <1>1, <1>2 DEF SessionEncodable, WrittenWrong, WellShaped

\* What is hashed, and so signed, fits the protocol, and a bundle runs to its end
\* within its gas limit, with an expiry that is a block after the first; what a
\* builder accepted as a bundle can be hashed, unless the target, cap or expiry of
\* its session authorisation, which no builder tests, cannot be encoded
\* (buildBatchTransaction, validateAaGasBudget, hashTransaction and
\* hashBatchTransaction, src/src/transactions.ts; validateSessionAuthShape,
\* src/src/session.ts).
THEOREM SignedCanRun == BuildersSpec => []SignedIsSound
<1>1. BuildersInv => SignedIsSound
  <2> SUFFICES ASSUME BuildersInv PROVE SignedIsSound
    OBVIOUS
  <2>1. ASSUME stage = "hashed", bundle # None
        PROVE  /\ RunsToItsEnd /\ innerCalls # <<>>
               /\ tx.value = Total(CallValues, Len(innerCalls))
               /\ bundle.session # None =>
                    ~WrittenWrong(bundle.session) /\ bundle.session.expiry > 0
    <3>1. BundleCovered /\ innerCalls \in Seq(InnerCalls)
      BY <2>1 DEF BuildersInv
    <3>2. tx.gasLimit \in Int
      BY <3>1, BuildersAssumption DEF BundleCovered, Encodable
    <3>3. RunsToItsEnd
      BY <3>1, <3>2, CoveredRuns DEF BundleCovered
    <3>4. bundle.session # None =>
            /\ bundle.session \in Authorisations /\ WellShaped(bundle.session)
            /\ SessionEncodable(bundle.session)
      BY <2>1, <3>1, Zenon DEF BuildersInv, BundleCovered, SessionShaped, BundleEncodable
    <3> QED BY <3>1, <3>3, <3>4, ShapedEncodes, Zenon DEF BundleCovered, InnerValue
  <2>2. ASSUME stage = "hashed"
        PROVE  /\ Encodable
               /\ tx.tip <= tx.maxFee /\ (tx.blobs # None <=> tx.txType = 3)
               /\ tx.txType = 3 => tx.to # "null"
    BY <2>2 DEF BuildersInv
  <2>3. ASSUME stage = "unhashable", bundle # None
        PROVE  bundle.session # None /\ WrittenWrong(bundle.session)
    <3>1. BundleCovered /\ ~BundleEncodable
      BY <2>3 DEF BuildersInv
    <3>2. bundle.session # None /\ ~SessionEncodable(bundle.session)
      BY <3>1, Zenon DEF BundleEncodable
    <3>3. bundle.session \in Authorisations /\ WellShaped(bundle.session)
      BY <3>1, <3>2, Zenon DEF BundleCovered, SessionShaped
    <3> QED BY <3>2, <3>3, ShapedEncodes, Zenon
  <2> QED BY <2>1, <2>2, <2>3, Zenon DEF SignedIsSound, Encodable
<1> QED
  BY <1>1, BuildersStart, BuildersStep, PTL DEF BuildersSpec

-----------------------------------------------------------------------------
(* Keys *)

\* Every record is of one request that could be derived.
Derived(r) ==
    \E t \in Typings, release \in Releases, algo \in Algorithms :
        \/ \E a \in Accounts :
              /\ AllDerivable(AccountPath(algo, a))
              /\ r = Record(t, release, algo, a, AccountPath(algo, a))
        \/ \E i \in Indices :
              /\ AllDerivable(SessionPath(i))
              /\ r = Record(t, release, algo, <<i>>, SessionPath(i))

\* The last key came from a record that is still there.
RestoredFromRecord ==
    \E r \in records, t \in Typings, release \in Releases :
        \E path \in Copies(r.path) :
            Parses(path) /\ restored = Restoration(r, path, t, release)

WalletInv ==
    /\ \A r \in records : Derived(r)
    /\ restored \in {Nobody, Refused} \/ RestoredFromRecord

LEMMA WalletStarts == WalletInit => WalletInv
BY DEF WalletInit, WalletInv

LEMMA WalletStep == WalletInv /\ [WalletNext]_walletVars => WalletInv'
<1> SUFFICES ASSUME WalletInv, [WalletNext]_walletVars PROVE WalletInv'
  OBVIOUS
<1>1. ASSUME NEW t \in Typings, NEW release \in Releases, NEW algo \in Algorithms,
             NEW a \in Accounts, DeriveAccount(t, release, algo, a)
      PROVE  WalletInv'
  <2>1. CASE AllDerivable(AccountPath(algo, a))
    <3>1. Derived(Record(t, release, algo, a, AccountPath(algo, a)))
      BY <2>1, Zenon DEF Derived
    <3>2. /\ records' = records \cup {Record(t, release, algo, a, AccountPath(algo, a))}
          /\ restored' = restored
      BY <1>1, <2>1, Zenon DEF DeriveAccount, Derive
    <3> QED BY <3>1, <3>2, Zenon DEF WalletInv, RestoredFromRecord
  <2>2. CASE ~AllDerivable(AccountPath(algo, a))
    BY <1>1, <2>2, Zenon DEF DeriveAccount, Derive, WalletInv
  <2> QED BY <2>1, <2>2
<1>2. ASSUME NEW t \in Typings, NEW release \in Releases, NEW algo \in Algorithms,
             NEW i \in Indices, DeriveSessionKey(t, release, algo, i)
      PROVE  WalletInv'
  <2>1. CASE AllDerivable(SessionPath(i))
    <3>1. Derived(Record(t, release, algo, <<i>>, SessionPath(i)))
      BY <2>1, Zenon DEF Derived
    <3>2. /\ records' = records \cup {Record(t, release, algo, <<i>>, SessionPath(i))}
          /\ restored' = restored
      BY <1>2, <2>1, Zenon DEF DeriveSessionKey, Derive
    <3> QED BY <3>1, <3>2, Zenon DEF WalletInv, RestoredFromRecord
  <2>2. CASE ~AllDerivable(SessionPath(i))
    BY <1>2, <2>2, Zenon DEF DeriveSessionKey, Derive, WalletInv
  <2> QED BY <2>1, <2>2
<1>3. ASSUME NEW r \in records, NEW t \in Typings, NEW release \in Releases,
             NEW path \in Copies(r.path), Restore(r, path, t, release)
      PROVE  WalletInv'
  <2>1. records' = records
    BY <1>3 DEF Restore
  <2>2. restored' = Refused \/ (Parses(path) /\ restored' = Restoration(r, path, t, release))
    BY <1>3, Zenon DEF Restore
  <2>3. (restored \in {Nobody, Refused} \/ RestoredFromRecord)'
    BY <2>1, <2>2, Zenon DEF RestoredFromRecord
  <2> QED BY <2>1, <2>3, Zenon DEF WalletInv
<1>4. CASE UNCHANGED walletVars
  BY <1>4, Zenon DEF WalletInv, RestoredFromRecord, walletVars
<1> QED
  BY <1>1, <1>2, <1>3, <1>4, Zenon DEF WalletNext

\* Components of a path that can be derived: three for a session key, six for an account.
Component == 0 .. HardenedOffset - 1
Components == [1 .. 3 -> Component] \cup [1 .. 6 -> Component]

LEMMA AccountComponents ==
  ASSUME NEW algo \in Algorithms, NEW a \in Accounts, AllDerivable(AccountPath(algo, a))
  PROVE  AccountPath(algo, a) \in [1 .. 6 -> Component]
BY DEF AllDerivable, Derivable, AccountPath, Component

LEMMA SessionComponents ==
  ASSUME NEW i \in Indices, AllDerivable(SessionPath(i))
  PROVE  SessionPath(i) \in [1 .. 3 -> Component]
BY DEF AllDerivable, Derivable, SessionPath, Component

\* What a record was asked for, and the algorithm, can be told from its path.
LEMMA AccountsApart ==
  ASSUME NEW algo \in Algorithms, NEW a \in Accounts, NEW b \in Accounts,
         AccountPath(algo, a) = AccountPath(algo, b)
  PROVE  a = b
<1>1. \A x, y \in Int \X Int \X Int : x[1] = y[1] /\ x[2] = y[2] /\ x[3] = y[3] => x = y
  OBVIOUS
<1>2. a \in Int \X Int \X Int /\ b \in Int \X Int \X Int
  BY WalletAssumption
<1>3. a[1] = b[1] /\ a[2] = b[2] /\ a[3] = b[3]
  BY DEF AccountPath
<1> QED BY <1>1, <1>2, <1>3

LEMMA SessionsApart ==
  ASSUME NEW i \in Indices, NEW j \in Indices, SessionPath(i) = SessionPath(j)
  PROVE  i = j
BY DEF SessionPath

LEMMA KindsApart ==
  ASSUME NEW algo \in Algorithms, NEW a \in Accounts, NEW i \in Indices
  PROVE  AccountPath(algo, a) # SessionPath(i)
BY DEF AccountPath, SessionPath

\* The node of a path, and a key, stand for one seed, path and algorithm only.
LEMMA NodeAtPath ==
  ASSUME NEW seed, NEW c \in Components
  PROVE  /\ DeriveAtPath(MasterNode(seed), c).seed = seed
         /\ DOMAIN DeriveAtPath(MasterNode(seed), c).indices = DOMAIN c
         /\ \A i \in DOMAIN c :
               DeriveAtPath(MasterNode(seed), c).indices[i] = HardenedOffset + c[i]
<1> DEFINE hardened == [i \in DOMAIN c |-> HardenedOffset + c[i]]
<1>1. PICK n \in {3, 6} : c \in [1 .. n -> Component]
  BY DEF Components
<1>2. hardened \in Seq(Int) /\ Len(hardened) = n /\ DOMAIN hardened = DOMAIN c
  BY <1>1, WalletAssumption DEF Component
<1> HIDE DEF hardened
<1>3. <<>> \o hardened = hardened
  BY <1>2
<1>4. /\ DeriveAtPath(MasterNode(seed), c).seed = seed
      /\ DeriveAtPath(MasterNode(seed), c).indices = <<>> \o hardened
  BY Zenon DEF DeriveAtPath, MasterNode, hardened
<1>5. \A i \in DOMAIN c : hardened[i] = HardenedOffset + c[i]
  BY DEF hardened
<1> QED BY <1>2, <1>3, <1>4, <1>5

Key(seed, c, algo) == Leaf(DeriveAtPath(MasterNode(seed), c), algo)

LEMMA KeysApart ==
  ASSUME NEW s, NEW z, NEW c \in Components, NEW d \in Components,
         NEW algo \in Algorithms, NEW other \in Algorithms,
         Key(s, c, algo) = Key(z, d, other)
  PROVE  s = z /\ c = d /\ algo = other
<1> DEFINE P == DeriveAtPath(MasterNode(s), c)
           Q == DeriveAtPath(MasterNode(z), d)
<1>1. P = Q
  BY Zenon DEF Key, Leaf
<1>2. algo = other
  BY DEF Key, Leaf, Algorithms
<1>3. /\ P.seed = s /\ DOMAIN P.indices = DOMAIN c
      /\ \A i \in DOMAIN c : P.indices[i] = HardenedOffset + c[i]
  BY NodeAtPath, Zenon
<1>4. /\ Q.seed = z /\ DOMAIN Q.indices = DOMAIN d
      /\ \A i \in DOMAIN d : Q.indices[i] = HardenedOffset + d[i]
  BY NodeAtPath, Zenon
<1> HIDE DEF P, Q
<1>5. DOMAIN c = DOMAIN d /\ \A i \in DOMAIN c : HardenedOffset + c[i] = HardenedOffset + d[i]
  BY <1>1, <1>3, <1>4, Zenon
<1>6. \A i \in DOMAIN c : c[i] \in Int /\ d[i] \in Int
  BY <1>5 DEF Components, Component
<1>7. \A i \in DOMAIN c : c[i] = d[i]
  BY <1>5, <1>6, WalletAssumption
<1>8. c = d
  BY <1>5, <1>7 DEF Components
<1> QED BY <1>1, <1>2, <1>3, <1>4, <1>8

\* A copy of a path that parses has the numbers of the path.
LEMMA CopiesKeepNumbers ==
  ASSUME NEW c \in Components, NEW path \in Copies(FormatPath(c)), Parses(path)
  PROVE  ParsePath(path) = c
<1> DEFINE parts == [i \in DOMAIN c |-> [number |-> c[i], tail |-> "", mark |-> Mark]]
           n == Len(parts)
<1>1. n \in DOMAIN c
  <2>1. PICK k \in {3, 6} : c \in [1 .. k -> Component]
    BY DEF Components
  <2>2. DOMAIN parts = 1 .. k
    BY <2>1
  <2> HIDE DEF parts
  <2>3. Len(parts) = k
    BY <2>2
  <2> QED BY <2>1, <2>3
<1>2. /\ DOMAIN parts = DOMAIN c
      /\ \A i \in DOMAIN c : parts[i] = [number |-> c[i], tail |-> "", mark |-> Mark]
  OBVIOUS
<1>3. c = [i \in DOMAIN c |-> c[i]]
  BY DEF Components
<1>4. FormatPath(c).parts = parts /\ FormatPath(c) = [root |-> "m/", parts |-> parts]
  BY Zenon DEF FormatPath
<1> HIDE DEF parts, n
<1>5. ASSUME NEW i \in DOMAIN c PROVE parts[i].number = c[i]
  <2>1. parts[i] = [number |-> c[i], tail |-> "", mark |-> Mark]
    BY <1>2
  <2>2. [number |-> c[i], tail |-> "", mark |-> Mark].number = c[i]
    OBVIOUS
  <2> QED BY <2>1, <2>2, Zenon
<1>6. CASE path = FormatPath(c)
  BY <1>2, <1>3, <1>4, <1>5, <1>6, Zenon DEF ParsePath
<1>7. CASE path = [FormatPath(c) EXCEPT !.root = ""]
  <2>1. path.root = ""
    BY <1>4, <1>7, Zenon
  <2> QED BY <2>1 DEF Parses
<1>8. CASE path = [FormatPath(c) EXCEPT !.parts[n].mark = ""]
  <2>1. path.parts = [parts EXCEPT ![n].mark = ""]
    BY <1>4, <1>8, Zenon
  <2>2. path.parts[n] = [parts[n] EXCEPT !.mark = ""] /\ n \in DOMAIN path.parts
    BY <1>1, <1>2, <2>1, Zenon
  <2>3. path.parts[n].mark = ""
    <3>1. parts[n] = [number |-> c[n], tail |-> "", mark |-> Mark]
      BY <1>1, <1>2
    <3>2. path.parts[n] = [[number |-> c[n], tail |-> "", mark |-> Mark] EXCEPT !.mark = ""]
      BY <2>2, <3>1, Zenon
    <3> QED BY <3>2, Zenon
  <2> QED BY <2>2, <2>3 DEF Parses, Mark
<1>9. CASE path = [FormatPath(c) EXCEPT !.parts[n].tail = "x"]
  <2>1. path.parts = [parts EXCEPT ![n].tail = "x"]
    BY <1>4, <1>9, Zenon
  <2>2. DOMAIN path.parts = DOMAIN c
    BY <1>2, <2>1, Zenon
  <2>3. ASSUME NEW i \in DOMAIN c PROVE path.parts[i].number = c[i]
    <3>1. CASE i = n
      <4>1. path.parts[n] = [parts[n] EXCEPT !.tail = "x"]
        BY <1>1, <1>2, <2>1, Zenon
      <4>2. path.parts[n].number = parts[n].number
        BY <4>1, <1>1, <1>2, Zenon
      <4> QED BY <3>1, <4>2, <1>1, <1>5, Zenon
    <3>2. CASE i # n
      BY <3>2, <1>2, <1>5, <2>1, Zenon
    <3> QED BY <3>1, <3>2
  <2> QED BY <2>2, <2>3, <1>3, Zenon DEF ParsePath
<1> QED BY <1>4, <1>6, <1>7, <1>8, <1>9, Zenon DEF Copies, n

\* Typings of one wallet give one seed, and a seed is of one set of words.
LEMMA OneSeed ==
  ASSUME NEW t \in Typings, NEW u \in Typings, NEW release \in Releases, NEW other \in Releases,
         SameWallet(t, release, u, other)
  PROVE  Seed(t, release) = Seed(u, other)
<1>1. t.phrase = u.phrase /\ t.passphrase = u.passphrase
  BY DEF SameWallet, SameWords
<1>2. MnemonicToSeed(t) = MnemonicToSeed(u)
  BY <1>1, Zenon DEF MnemonicToSeed, Normalized
<1>3. \A v \in Typings : Canonical(v) => MnemonicToSeedLegacy(v) = MnemonicToSeed(v)
  <2> SUFFICES ASSUME NEW v \in Typings, Canonical(v)
               PROVE  MnemonicToSeedLegacy(v) = MnemonicToSeed(v)
    OBVIOUS
  <2>1. v.layout \notin {"padded", "nextLine"}
    BY DEF Canonical
  <2>2. NormalizedBefore(v) = <<v.phrase>>
    BY <2>1, Zenon DEF NormalizedBefore
  <2>3. v.decomposed = TRUE
    BY WalletAssumption, Zenon DEF Canonical
  <2> QED BY <2>2, <2>3, Zenon DEF MnemonicToSeedLegacy, MnemonicToSeed, Normalized
<1>4. CASE release = "current" /\ other = "current"
  BY <1>2, <1>4, Zenon DEF Seed
<1>5. CASE t = u /\ release = other
  BY <1>5
<1>6. CASE (release = "legacy" => Canonical(t)) /\ (other = "legacy" => Canonical(u))
  BY <1>2, <1>3, <1>6, Zenon DEF Seed, Releases
<1> QED BY <1>4, <1>5, <1>6, Zenon DEF SameWallet

LEMMA SeedOfWords ==
  ASSUME NEW t \in Typings, NEW u \in Typings, NEW release \in Releases, NEW other \in Releases,
         Seed(t, release) = Seed(u, other)
  PROVE  SameWords(t, u)
<1>1. \A v \in Typings, k \in Releases :
         Seed(v, k).text[1] = v.phrase /\ Seed(v, k).salt[1] = v.passphrase
  BY DEF Seed, MnemonicToSeed, MnemonicToSeedLegacy, Normalized, NormalizedBefore
<1> QED BY <1>1, Zenon DEF SameWords

\* What the invariant says of a record, in the terms of the lemmas above.
IsOf(r, t, release, algo, c) ==
    /\ r.path = FormatPath(c)
    /\ r.publicKey = Key(Seed(t, release), c, algo)
    /\ r.algoId = IF algo = "ml-dsa-65" THEN 1 ELSE 2
    /\ r.owner = t /\ r.release = release
    /\ \/ \E a \in Accounts : r.asked = <<algo, a>> /\ c = AccountPath(algo, a)
       \/ \E i \in Indices : r.asked = <<algo, <<i>>>> /\ c = SessionPath(i)

LEMMA RecordParts ==
  ASSUME NEW r, Derived(r)
  PROVE  \E t \in Typings, release \in Releases, algo \in Algorithms, c \in Components :
            IsOf(r, t, release, algo, c)
<1>1. PICK t \in Typings, release \in Releases, algo \in Algorithms :
        \/ \E a \in Accounts :
              /\ AllDerivable(AccountPath(algo, a))
              /\ r = Record(t, release, algo, a, AccountPath(algo, a))
        \/ \E i \in Indices :
              /\ AllDerivable(SessionPath(i))
              /\ r = Record(t, release, algo, <<i>>, SessionPath(i))
  BY Zenon DEF Derived
<1>2. \A asked, c :
        LET k == Record(t, release, algo, asked, c) IN
            /\ k.path = FormatPath(c)
            /\ k.publicKey = Key(Seed(t, release), c, algo)
            /\ k.algoId = IF algo = "ml-dsa-65" THEN 1 ELSE 2
            /\ k.owner = t /\ k.release = release /\ k.asked = <<algo, asked>>
  BY Zenon DEF Record, Leaf, Key
<1>3. ASSUME NEW a \in Accounts, AllDerivable(AccountPath(algo, a)),
             r = Record(t, release, algo, a, AccountPath(algo, a))
      PROVE  \E c \in Components : IsOf(r, t, release, algo, c)
  <2>1. AccountPath(algo, a) \in Components
    BY <1>3, AccountComponents, Zenon DEF Components
  <2>2. IsOf(r, t, release, algo, AccountPath(algo, a))
    BY <1>2, <1>3, Zenon DEF IsOf
  <2> QED BY <2>1, <2>2
<1>4. ASSUME NEW i \in Indices, AllDerivable(SessionPath(i)),
             r = Record(t, release, algo, <<i>>, SessionPath(i))
      PROVE  \E c \in Components : IsOf(r, t, release, algo, c)
  <2>1. SessionPath(i) \in Components
    BY <1>4, SessionComponents, Zenon DEF Components
  <2>2. IsOf(r, t, release, algo, SessionPath(i))
    BY <1>2, <1>4, Zenon DEF IsOf
  <2> QED BY <2>1, <2>2
<1> QED BY <1>1, <1>3, <1>4, Zenon

LEMMA RecordsApart ==
  ASSUME NEW r, NEW s, Derived(r), Derived(s), r.publicKey = s.publicKey
  PROVE  r.asked = s.asked /\ SameWords(r.owner, s.owner)
<1>1. PICK t \in Typings, release \in Releases, algo \in Algorithms, c \in Components :
          IsOf(r, t, release, algo, c)
  BY RecordParts, Zenon
<1>2. PICK u \in Typings, old \in Releases, other \in Algorithms, d \in Components :
          IsOf(s, u, old, other, d)
  BY RecordParts, Zenon
<1>3. Key(Seed(t, release), c, algo) = Key(Seed(u, old), d, other)
  BY <1>1, <1>2, Zenon DEF IsOf
<1>4. Seed(t, release) = Seed(u, old) /\ c = d /\ algo = other
  BY <1>3, KeysApart
<1>5. SameWords(t, u)
  BY <1>4, SeedOfWords
<1>6. SameWords(r.owner, s.owner)
  BY <1>1, <1>2, <1>5, Zenon DEF IsOf
<1>7. r.asked = s.asked
  BY <1>1, <1>2, <1>4, AccountsApart, SessionsApart, KindsApart, Zenon DEF IsOf
<1> QED BY <1>6, <1>7

\* A restored key is the recorded one exactly if the words are.
RightKey(x) ==
    /\ SameWallet(x.record.owner, x.record.release, x.typed, x.release)
         => x.publicKey = x.record.publicKey
    /\ x.publicKey = x.record.publicKey => SameWords(x.record.owner, x.typed)

LEMMA RestorationRight ==
  ASSUME NEW r, Derived(r), NEW path \in Copies(r.path), Parses(path),
         NEW u \in Typings, NEW other \in Releases
  PROVE  RightKey(Restoration(r, path, u, other))
<1>1. PICK t \in Typings, release \in Releases, algo \in Algorithms, c \in Components :
          IsOf(r, t, release, algo, c)
  BY RecordParts, Zenon
<1>2. ParsePath(path) = c
  <2>1. r.path = FormatPath(c)
    BY <1>1 DEF IsOf
  <2> QED BY <2>1, CopiesKeepNumbers
<1>3. (IF r.algoId = 1 THEN "ml-dsa-65" ELSE "slh-dsa-sha2-256f") = algo
  BY <1>1 DEF Algorithms, IsOf
<1>4. Restoration(r, path, u, other).publicKey = Key(Seed(u, other), c, algo)
  BY <1>2, <1>3, Zenon DEF Restoration, Key
<1>5. /\ Restoration(r, path, u, other).record = r
      /\ Restoration(r, path, u, other).typed = u
      /\ Restoration(r, path, u, other).release = other
  BY Zenon DEF Restoration
<1>6. SameWallet(t, release, u, other) => Seed(t, release) = Seed(u, other)
  BY OneSeed
<1>7. ASSUME Key(Seed(u, other), c, algo) = Key(Seed(t, release), c, algo)
      PROVE  SameWords(t, u)
  <2>1. Seed(t, release) = Seed(u, other)
    BY <1>7, KeysApart
  <2> QED BY <2>1, SeedOfWords
<1> QED BY <1>1, <1>4, <1>5, <1>6, <1>7, Zenon DEF RightKey, IsOf

\* A record and its owner's words are enough to have the key again, however the words
\* are typed and whichever release derived it, and no two requests share a key
\* (deriveAccount, deriveSessionKey, accountToRecord and parsePath, src/src/hdwallet.ts).
THEOREM RecordsAreEnough == WalletSpec => []RecordsRestore
<1>1. WalletInv => RecordsRestore
  <2> SUFFICES ASSUME WalletInv PROVE RecordsRestore
    OBVIOUS
  <2>1. \A r, s \in records : r.publicKey = s.publicKey =>
          r.asked = s.asked /\ SameWords(r.owner, s.owner)
    BY RecordsApart, Zenon DEF WalletInv
  <2>2. ASSUME restored \notin {Nobody, Refused}
        PROVE  RightKey(restored)
    <3>1. PICK r \in records, t \in Typings, release \in Releases :
            \E path \in Copies(r.path) :
                Parses(path) /\ restored = Restoration(r, path, t, release)
      BY <2>2, Zenon DEF WalletInv, RestoredFromRecord
    <3>2. Derived(r)
      BY Zenon DEF WalletInv
    <3> QED BY <3>1, <3>2, RestorationRight, Zenon
  <2> QED BY <2>1, <2>2, Zenon DEF RecordsRestore, RightKey
<1> QED
  BY <1>1, WalletStarts, WalletStep, PTL DEF WalletSpec

-----------------------------------------------------------------------------
(* Types of an ABI *)

\* The levels of types exist: by induction on the number of levels.
LEMMA TypesExist ==
  \E g : g = [n \in 0 .. MaxNesting |-> IF n = 0 THEN {} ELSE TypesFrom(g[n - 1])]
<1> DEFINE Good(g, m) == g = [n \in 0 .. m |-> IF n = 0 THEN {} ELSE TypesFrom(g[n - 1])]
           T == {m \in Nat : \E g : Good(g, m)}
<1>1. 0 \in T
  <2> DEFINE g == [n \in 0 .. 0 |-> {}]
  <2>1. Good(g, 0)
    OBVIOUS
  <2> QED BY <2>1
<1>2. ASSUME NEW m \in Nat, m \in T PROVE m + 1 \in T
  <2>1. PICK g : Good(g, m)
    BY <1>2
  <2> DEFINE h == [n \in 0 .. m + 1 |-> IF n = 0 THEN {} ELSE TypesFrom(g[n - 1])]
  <2>2. ASSUME NEW n \in 0 .. m PROVE h[n] = g[n]
    <3>1. g[n] = IF n = 0 THEN {} ELSE TypesFrom(g[n - 1])
      BY <2>1, Zenon
    <3>2. n \in 0 .. m + 1
      OBVIOUS
    <3>3. h[n] = IF n = 0 THEN {} ELSE TypesFrom(g[n - 1])
      BY <3>2, Zenon
    <3> QED BY <3>1, <3>3, Zenon
  <2>3. ASSUME NEW n \in 0 .. m + 1
        PROVE  (IF n = 0 THEN {} ELSE TypesFrom(g[n - 1]))
                 = IF n = 0 THEN {} ELSE TypesFrom(h[n - 1])
    <3> HIDE DEF h
    <3>1. n # 0 => n - 1 \in 0 .. m
      OBVIOUS
    <3>2. n # 0 => g[n - 1] = h[n - 1]
      BY <2>2, <3>1
    <3> QED BY <3>2, Zenon
  <2>4. Good(h, m + 1)
    BY <2>3, Zenon
  <2> HIDE DEF h
  <2> QED BY <2>4
<1> HIDE DEF T
<1>3. Nat \subseteq T
  BY <1>1, <1>2, Induction
<1> QED BY <1>3, NestingAssumption DEF T

\* What TypesOf says of each level.
LEMMA TypesAre ==
  /\ TypesOf[0] = {}
  /\ \A n \in 1 .. MaxNesting : TypesOf[n] = TypesFrom(TypesOf[n - 1])
<1>1. TypesOf = [n \in 0 .. MaxNesting |-> IF n = 0 THEN {} ELSE TypesFrom(TypesOf[n - 1])]
  BY TypesExist, Zenon DEF TypesOf
<1>2. ASSUME NEW n \in 0 .. MaxNesting
      PROVE  TypesOf[n] = IF n = 0 THEN {} ELSE TypesFrom(TypesOf[n - 1])
  BY <1>1, Zenon
<1> QED
  <2>1. 0 \in 0 .. MaxNesting /\ \A n \in 1 .. MaxNesting : n \in 0 .. MaxNesting /\ n # 0
    BY NestingAssumption
  <2> QED BY <1>2, <2>1, Zenon

\* A level has the types of the one below.
LEMMA TypesNest ==
  \A n \in 1 .. MaxNesting : TypesOf[n - 1] \subseteq TypesOf[n]
<1> DEFINE T == {n \in Nat : n + 1 <= MaxNesting => TypesOf[n] \subseteq TypesOf[n + 1]}
<1>1. 0 \in T
  BY TypesAre
<1>2. ASSUME NEW n \in Nat, n \in T PROVE n + 1 \in T
  <2> SUFFICES ASSUME n + 2 <= MaxNesting PROVE TypesOf[n + 1] \subseteq TypesOf[n + 2]
    OBVIOUS
  <2>1. TypesOf[n + 1] = TypesFrom(TypesOf[n]) /\ TypesOf[n + 2] = TypesFrom(TypesOf[n + 1])
    BY TypesAre, NestingAssumption
  <2>2. TypesOf[n] \subseteq TypesOf[n + 1]
    BY <1>2, NestingAssumption
  <2>3. Seq(TypesOf[n]) \subseteq Seq(TypesOf[n + 1])
    BY <2>2
  <2> QED BY <2>1, <2>3 DEF TypesFrom
<1> HIDE DEF T
<1>3. Nat \subseteq T
  BY <1>1, <1>2, Induction
<1> QED
  <2> SUFFICES ASSUME NEW n \in 1 .. MaxNesting PROVE TypesOf[n - 1] \subseteq TypesOf[n]
    OBVIOUS
  <2>1. n - 1 \in T
    BY <1>3
  <2> QED BY <2>1, NestingAssumption DEF T

\* Types has those of every level.
LEMMA TypesBelow ==
  \A n \in 0 .. MaxNesting : TypesOf[n] \subseteq Types
<1> DEFINE T == {k \in Nat : k <= MaxNesting => TypesOf[MaxNesting - k] \subseteq Types}
<1>1. 0 \in T
  BY NestingAssumption DEF Types
<1>2. ASSUME NEW k \in Nat, k \in T PROVE k + 1 \in T
  <2> SUFFICES ASSUME k + 1 <= MaxNesting
               PROVE  TypesOf[MaxNesting - (k + 1)] \subseteq Types
    OBVIOUS
  <2> DEFINE n == MaxNesting - k
  <2>1. n \in 1 .. MaxNesting /\ n - 1 = MaxNesting - (k + 1)
    BY NestingAssumption
  <2> HIDE DEF n
  <2>2. TypesOf[n - 1] \subseteq TypesOf[n]
    BY <2>1, TypesNest
  <2>3. TypesOf[n] \subseteq Types
    BY <1>2, NestingAssumption DEF n
  <2> QED BY <2>1, <2>2, <2>3
<1> HIDE DEF T
<1>3. Nat \subseteq T
  BY <1>1, <1>2, Induction
<1> QED
  <2> SUFFICES ASSUME NEW n \in 0 .. MaxNesting PROVE TypesOf[n] \subseteq Types
    OBVIOUS
  <2>1. /\ MaxNesting - n \in T /\ MaxNesting - n <= MaxNesting
        /\ MaxNesting - (MaxNesting - n) = n
    BY <1>3, NestingAssumption
  <2> QED BY <2>1 DEF T

\* A type, its components and its base.
LEMMA TypeIs ==
  ASSUME NEW p \in Types
  PROVE  /\ p.base \in Atomic \cup {"array", "tuple"} /\ p.components \in Seq(Types)
         /\ p.base \in Atomic => p.components = <<>>
         /\ p.base = "array" => Len(p.components) = 1
         /\ p = Type(p.base, p.components)
<1>1. MaxNesting \in 1 .. MaxNesting
  BY TypesAre, NestingAssumption DEF Types
<1>2. p \in TypesFrom(TypesOf[MaxNesting - 1])
  BY <1>1, TypesAre DEF Types
<1>3. TypesOf[MaxNesting - 1] \subseteq Types
  BY <1>1, TypesBelow
<1>4. Seq(TypesOf[MaxNesting - 1]) \subseteq Seq(Types)
  BY <1>3
<1> QED BY <1>2, <1>4 DEF TypesFrom, Type

\* What holds of a type if it holds of its components, holds of all types.
LEMMA TypeInduction ==
  ASSUME NEW G,
         \A p \in Types : (\A i \in DOMAIN p.components : p.components[i] \in G) => p \in G
  PROVE  Types \subseteq G
<1> DEFINE T == {n \in Nat : n <= MaxNesting => TypesOf[n] \subseteq G}
<1>1. 0 \in T
  BY TypesAre
<1>2. ASSUME NEW n \in Nat, n \in T PROVE n + 1 \in T
  <2> SUFFICES ASSUME n + 1 <= MaxNesting, NEW p \in TypesOf[n + 1] PROVE p \in G
    OBVIOUS
  <2>1. /\ n + 1 \in 1 .. MaxNesting /\ n + 1 - 1 = n
        /\ n + 1 \in 0 .. MaxNesting /\ n <= MaxNesting
    BY NestingAssumption
  <2>2. p \in TypesFrom(TypesOf[n]) /\ p \in Types
    BY <2>1, TypesAre, TypesBelow
  <2>3. p.components \in Seq(G)
    <3>1. p.components \in Seq(TypesOf[n]) /\ TypesOf[n] \subseteq G
      BY <1>2, <2>1, <2>2 DEF TypesFrom
    <3> QED BY <3>1
  <2> QED BY <2>2, <2>3
<1> HIDE DEF T
<1>3. Nat \subseteq T
  BY <1>1, <1>2, Induction
<1> QED BY <1>3, NestingAssumption DEF T, Types

-----------------------------------------------------------------------------
(* Recursive functions over types *)

\* What a function has for the components of a type.
Parts(p, g) == [i \in DOMAIN p.components |-> g[p.components[i]]]

\* The bodies of the functions, given the parts.
ValuesBy(atoms, p, parts) ==
    IF p.base = "array" THEN {List(s) : s \in Sequences(parts[1])}
    ELSE IF p.base = "tuple" THEN {List(s) : s \in Products(parts)}
    ELSE atoms[p.base]

MappedBy(atoms, change, p, parts) ==
    [v \in Values(atoms)[p] |->
        IF p.base \in Atomic THEN change[p.base][v]
        ELSE List([i \in DOMAIN v.items |->
                     parts[IF p.base = "array" THEN 1 ELSE i][v.items[i]]])]

TransformedBy(p, parts) == Type(IF p.base = "address" THEN "bytes32" ELSE p.base, parts)

HasBy(p, parts) == p.base = "address" \/ \E i \in DOMAIN p.components : parts[i]

\* Values is a function, level by level, and what its definition says.
LEMMA ValuesExist ==
  ASSUME NEW atoms
  PROVE  \E g : g = [p \in Types |-> ValuesBy(atoms, p, Parts(p, g))]
<1> DEFINE Good(g, n) == g = [p \in TypesOf[n] |-> ValuesBy(atoms, p, Parts(p, g))]
           T == {n \in Nat : n <= MaxNesting => \E g : Good(g, n)}
<1>1. 0 \in T
  <2> DEFINE g == [p \in TypesOf[0] |-> {}]
  <2>1. Good(g, 0)
    BY TypesAre
  <2> QED BY <2>1
<1>2. ASSUME NEW n \in Nat, n \in T PROVE n + 1 \in T
  <2> SUFFICES ASSUME n + 1 <= MaxNesting PROVE \E g : Good(g, n + 1)
    OBVIOUS
  <2>1. PICK g : Good(g, n)
    BY <1>2, NestingAssumption
  <2> DEFINE h == [p \in TypesOf[n + 1] |-> ValuesBy(atoms, p, Parts(p, g))]
  <2>2. n + 1 \in 1 .. MaxNesting /\ n + 1 - 1 = n
    BY NestingAssumption
  <2>3. TypesOf[n] \subseteq TypesOf[n + 1] /\ TypesOf[n + 1] = TypesFrom(TypesOf[n])
    BY <2>2, TypesAre, TypesNest
  <2>4. ASSUME NEW q \in TypesOf[n] PROVE g[q] = h[q]
    BY <2>1, <2>3, Zenon
  <2>5. ASSUME NEW p \in TypesOf[n + 1] PROVE Parts(p, g) = Parts(p, h)
    <3> HIDE DEF h
    <3>1. \A i \in DOMAIN p.components : p.components[i] \in TypesOf[n]
      BY <2>3 DEF TypesFrom
    <3>2. \A i \in DOMAIN p.components : g[p.components[i]] = h[p.components[i]]
      BY <2>4, <3>1
    <3> QED BY <3>2, Zenon DEF Parts
  <2>6. h = [p \in TypesOf[n + 1] |-> ValuesBy(atoms, p, Parts(p, h))]
    BY <2>5, Zenon
  <2> HIDE DEF h
  <2> QED BY <2>6
<1> HIDE DEF T
<1>3. Nat \subseteq T
  BY <1>1, <1>2, Induction
<1> QED BY <1>3, NestingAssumption DEF T, Types

\* Hence its values are those of its definition.
LEMMA ValuesAre ==
  ASSUME NEW atoms
  PROVE  Values(atoms) = [p \in Types |-> ValuesBy(atoms, p, Parts(p, Values(atoms)))]
BY ValuesExist, Zenon DEF Values, ValuesBy, Parts

\* The same of Mapped.
LEMMA MappedExist ==
  ASSUME NEW atoms, NEW change
  PROVE  \E g : g = [p \in Types |-> MappedBy(atoms, change, p, Parts(p, g))]
<1> DEFINE Good(g, n) == g = [p \in TypesOf[n] |-> MappedBy(atoms, change, p, Parts(p, g))]
           T == {n \in Nat : n <= MaxNesting => \E g : Good(g, n)}
<1>1. 0 \in T
  <2> DEFINE g == [p \in TypesOf[0] |-> {}]
  <2>1. Good(g, 0)
    BY TypesAre
  <2> QED BY <2>1
<1>2. ASSUME NEW n \in Nat, n \in T PROVE n + 1 \in T
  <2> SUFFICES ASSUME n + 1 <= MaxNesting PROVE \E g : Good(g, n + 1)
    OBVIOUS
  <2>1. PICK g : Good(g, n)
    BY <1>2, NestingAssumption
  <2> DEFINE h == [p \in TypesOf[n + 1] |-> MappedBy(atoms, change, p, Parts(p, g))]
  <2>2. n + 1 \in 1 .. MaxNesting /\ n + 1 - 1 = n
    BY NestingAssumption
  <2>3. TypesOf[n] \subseteq TypesOf[n + 1] /\ TypesOf[n + 1] = TypesFrom(TypesOf[n])
    BY <2>2, TypesAre, TypesNest
  <2>4. ASSUME NEW q \in TypesOf[n] PROVE g[q] = h[q]
    BY <2>1, <2>3, Zenon
  <2>5. ASSUME NEW p \in TypesOf[n + 1] PROVE Parts(p, g) = Parts(p, h)
    <3> HIDE DEF h
    <3>1. \A i \in DOMAIN p.components : p.components[i] \in TypesOf[n]
      BY <2>3 DEF TypesFrom
    <3>2. \A i \in DOMAIN p.components : g[p.components[i]] = h[p.components[i]]
      BY <2>4, <3>1
    <3> QED BY <3>2, Zenon DEF Parts
  <2>6. h = [p \in TypesOf[n + 1] |-> MappedBy(atoms, change, p, Parts(p, h))]
    BY <2>5, Zenon
  <2> HIDE DEF h
  <2> QED BY <2>6
<1> HIDE DEF T
<1>3. Nat \subseteq T
  BY <1>1, <1>2, Induction
<1> QED BY <1>3, NestingAssumption DEF T, Types

\* Mapped is what its definition says, of values given the parts.
LEMMA MappedAre ==
  ASSUME NEW atoms, NEW change
  PROVE  Mapped(atoms, change)
           = [p \in Types |-> MappedBy(atoms, change, p, Parts(p, Mapped(atoms, change)))]
<1> DEFINE By(p, parts) ==
             [v \in Values(atoms)[p] |->
                IF p.base \in Atomic THEN change[p.base][v]
                ELSE List([i \in DOMAIN v.items |->
                             parts[IF p.base = "array" THEN 1 ELSE i][v.items[i]]])]
<1>1. \A p, parts : MappedBy(atoms, change, p, parts) = By(p, parts)
  BY DEF MappedBy
<1>2. Mapped(atoms, change)
        = CHOOSE g : g = [p \in Types |-> By(p, [i \in DOMAIN p.components |-> g[p.components[i]]])]
  BY DEF Mapped
<1> HIDE DEF By
<1>3. \E g : g = [p \in Types |-> By(p, Parts(p, g))]
  <2>1. PICK g : g = [p \in Types |-> MappedBy(atoms, change, p, Parts(p, g))]
    BY MappedExist
  <2>2. [p \in Types |-> MappedBy(atoms, change, p, Parts(p, g))]
          = [p \in Types |-> By(p, Parts(p, g))]
    BY <1>1
  <2> QED BY <2>1, <2>2
<1>4. Mapped(atoms, change) = [p \in Types |-> By(p, Parts(p, Mapped(atoms, change)))]
  BY <1>2, <1>3, Zenon DEF Parts
<1>5. [p \in Types |-> By(p, Parts(p, Mapped(atoms, change)))]
        = [p \in Types |-> MappedBy(atoms, change, p, Parts(p, Mapped(atoms, change)))]
  BY <1>1
<1> QED BY <1>4, <1>5

\* The same of TransformShellAddressParameter.
LEMMA TransformedExist ==
  \E g : g = [p \in Types |-> TransformedBy(p, Parts(p, g))]
<1> DEFINE Good(g, n) == g = [p \in TypesOf[n] |-> TransformedBy(p, Parts(p, g))]
           T == {n \in Nat : n <= MaxNesting => \E g : Good(g, n)}
<1>1. 0 \in T
  <2> DEFINE g == [p \in TypesOf[0] |-> {}]
  <2>1. Good(g, 0)
    BY TypesAre
  <2> QED BY <2>1
<1>2. ASSUME NEW n \in Nat, n \in T PROVE n + 1 \in T
  <2> SUFFICES ASSUME n + 1 <= MaxNesting PROVE \E g : Good(g, n + 1)
    OBVIOUS
  <2>1. PICK g : Good(g, n)
    BY <1>2, NestingAssumption
  <2> DEFINE h == [p \in TypesOf[n + 1] |-> TransformedBy(p, Parts(p, g))]
  <2>2. n + 1 \in 1 .. MaxNesting /\ n + 1 - 1 = n
    BY NestingAssumption
  <2>3. TypesOf[n] \subseteq TypesOf[n + 1] /\ TypesOf[n + 1] = TypesFrom(TypesOf[n])
    BY <2>2, TypesAre, TypesNest
  <2>4. ASSUME NEW q \in TypesOf[n] PROVE g[q] = h[q]
    BY <2>1, <2>3, Zenon
  <2>5. ASSUME NEW p \in TypesOf[n + 1] PROVE Parts(p, g) = Parts(p, h)
    <3> HIDE DEF h
    <3>1. \A i \in DOMAIN p.components : p.components[i] \in TypesOf[n]
      BY <2>3 DEF TypesFrom
    <3>2. \A i \in DOMAIN p.components : g[p.components[i]] = h[p.components[i]]
      BY <2>4, <3>1
    <3> QED BY <3>2, Zenon DEF Parts
  <2>6. h = [p \in TypesOf[n + 1] |-> TransformedBy(p, Parts(p, h))]
    BY <2>5, Zenon
  <2> HIDE DEF h
  <2> QED BY <2>6
<1> HIDE DEF T
<1>3. Nat \subseteq T
  BY <1>1, <1>2, Induction
<1> QED BY <1>3, NestingAssumption DEF T, Types

\* TransformShellAddressParameter is what its definition says.
LEMMA TransformedAre ==
  TransformShellAddressParameter
    = [p \in Types |-> TransformedBy(p, Parts(p, TransformShellAddressParameter))]
BY TransformedExist, Zenon DEF TransformShellAddressParameter, TransformedBy, Parts

\* The same of HasShellAddress.
LEMMA HasExist ==
  \E g : g = [p \in Types |-> HasBy(p, Parts(p, g))]
<1> DEFINE Good(g, n) == g = [p \in TypesOf[n] |-> HasBy(p, Parts(p, g))]
           T == {n \in Nat : n <= MaxNesting => \E g : Good(g, n)}
<1>1. 0 \in T
  <2> DEFINE g == [p \in TypesOf[0] |-> {}]
  <2>1. Good(g, 0)
    BY TypesAre
  <2> QED BY <2>1
<1>2. ASSUME NEW n \in Nat, n \in T PROVE n + 1 \in T
  <2> SUFFICES ASSUME n + 1 <= MaxNesting PROVE \E g : Good(g, n + 1)
    OBVIOUS
  <2>1. PICK g : Good(g, n)
    BY <1>2, NestingAssumption
  <2> DEFINE h == [p \in TypesOf[n + 1] |-> HasBy(p, Parts(p, g))]
  <2>2. n + 1 \in 1 .. MaxNesting /\ n + 1 - 1 = n
    BY NestingAssumption
  <2>3. TypesOf[n] \subseteq TypesOf[n + 1] /\ TypesOf[n + 1] = TypesFrom(TypesOf[n])
    BY <2>2, TypesAre, TypesNest
  <2>4. ASSUME NEW q \in TypesOf[n] PROVE g[q] = h[q]
    BY <2>1, <2>3, Zenon
  <2>5. ASSUME NEW p \in TypesOf[n + 1] PROVE Parts(p, g) = Parts(p, h)
    <3> HIDE DEF h
    <3>1. \A i \in DOMAIN p.components : p.components[i] \in TypesOf[n]
      BY <2>3 DEF TypesFrom
    <3>2. \A i \in DOMAIN p.components : g[p.components[i]] = h[p.components[i]]
      BY <2>4, <3>1
    <3> QED BY <3>2, Zenon DEF Parts
  <2>6. h = [p \in TypesOf[n + 1] |-> HasBy(p, Parts(p, h))]
    BY <2>5, Zenon
  <2> HIDE DEF h
  <2> QED BY <2>6
<1> HIDE DEF T
<1>3. Nat \subseteq T
  BY <1>1, <1>2, Induction
<1> QED BY <1>3, NestingAssumption DEF T, Types

\* HasShellAddress is what its definition says.
LEMMA HasAre ==
  \A p \in Types : HasShellAddress[p] <=>
      (p.base = "address" \/ \E i \in DOMAIN p.components : HasShellAddress[p.components[i]])
<1> DEFINE In(p, g) == p.base = "address" \/ \E i \in DOMAIN p.components : g[p.components[i]]
<1>1. HasShellAddress = CHOOSE g : g = [p \in Types |-> In(p, g)]
  BY DEF HasShellAddress
<1>2. ASSUME NEW p, NEW g PROVE HasBy(p, Parts(p, g)) = In(p, g)
  <2>1. \A i \in DOMAIN p.components : Parts(p, g)[i] = g[p.components[i]]
    BY Zenon DEF Parts
  <2> QED BY <2>1, Zenon DEF HasBy
<1> HIDE DEF In
<1>3. \E g : g = [p \in Types |-> In(p, g)]
  <2>1. PICK g : g = [p \in Types |-> HasBy(p, Parts(p, g))]
    BY HasExist
  <2>2. [p \in Types |-> HasBy(p, Parts(p, g))] = [p \in Types |-> In(p, g)]
    BY <1>2
  <2> QED BY <2>1, <2>2
<1>4. HasShellAddress = [p \in Types |-> In(p, HasShellAddress)]
  BY <1>1, <1>3, Zenon
<1>5. \A p \in Types : HasShellAddress[p] = In(p, HasShellAddress)
  BY <1>4, Zenon
<1> QED BY <1>5, Zenon DEF In

-----------------------------------------------------------------------------
(* What is handed to viem *)

\* What the transformation does at the root, and that it goes on below.
LEMMA TransformedIs ==
  ASSUME NEW p \in Types
  PROVE  /\ TransformShellAddressParameter[p].base
              = IF p.base = "address" THEN "bytes32" ELSE p.base
         /\ TransformShellAddressParameter[p].components
              = Parts(p, TransformShellAddressParameter)
<1>1. TransformShellAddressParameter[p]
        = TransformedBy(p, Parts(p, TransformShellAddressParameter))
  BY TransformedAre, Zenon
<1> QED BY <1>1 DEF TransformedBy, Type

\* It makes types of types, without nesting them deeper.
LEMMA TransformedType ==
  \A p \in Types : TransformShellAddressParameter[p] \in Types
<1> DEFINE t == TransformShellAddressParameter
           T == {n \in Nat : n <= MaxNesting => \A p \in TypesOf[n] : t[p] \in TypesOf[n]}
<1> HIDE DEF t
<1>1. 0 \in T
  BY TypesAre
<1>2. ASSUME NEW n \in Nat, n \in T PROVE n + 1 \in T
  <2> SUFFICES ASSUME n + 1 <= MaxNesting, NEW p \in TypesOf[n + 1]
               PROVE  t[p] \in TypesOf[n + 1]
    OBVIOUS
  <2>1. /\ n + 1 \in 1 .. MaxNesting /\ n + 1 - 1 = n
        /\ n + 1 \in 0 .. MaxNesting /\ n <= MaxNesting
    BY NestingAssumption
  <2>2. p \in TypesFrom(TypesOf[n]) /\ p \in Types /\ TypesOf[n + 1] = TypesFrom(TypesOf[n])
    BY <2>1, TypesAre, TypesBelow
  <2>3. t[p] = TransformedBy(p, Parts(p, t))
    BY <2>2, TransformedAre, Zenon DEF t
  <2>4. p.components \in Seq(TypesOf[n]) /\ \A q \in TypesOf[n] : t[q] \in TypesOf[n]
    BY <1>2, <2>1, <2>2 DEF TypesFrom
  <2>5. /\ Parts(p, t) \in Seq(TypesOf[n]) /\ Len(Parts(p, t)) = Len(p.components)
        /\ p.components = <<>> => Parts(p, t) = <<>>
    BY <2>4 DEF Parts
  <2> QED BY <2>2, <2>3, <2>5 DEF TypesFrom, TransformedBy, Type, Atomic
<1> HIDE DEF T
<1>3. Nat \subseteq T
  BY <1>1, <1>2, Induction
<1> QED BY <1>3, NestingAssumption DEF T, Types, t

\* Without an address in it a type stays as it is.
LEMMA TransformedSame ==
  \A p \in Types : ~ HasShellAddress[p] => TransformShellAddressParameter[p] = p
<1> DEFINE t == TransformShellAddressParameter
           G == {p \in Types : ~ HasShellAddress[p] => t[p] = p}
<1>1. ASSUME NEW p \in Types, \A i \in DOMAIN p.components : p.components[i] \in G
      PROVE  p \in G
  <2> SUFFICES ASSUME ~ HasShellAddress[p] PROVE t[p] = p
    OBVIOUS
  <2>1. p.base # "address" /\ \A i \in DOMAIN p.components : ~ HasShellAddress[p.components[i]]
    BY HasAre
  <2>2. \A i \in DOMAIN p.components : t[p.components[i]] = p.components[i]
    BY <1>1, <2>1
  <2>3. Parts(p, t) = p.components
    <3>1. p.components \in Seq(Types)
      BY TypeIs
    <3> HIDE DEF t
    <3> QED BY <2>2, <3>1 DEF Parts
  <2>4. t[p] = TransformedBy(p, Parts(p, t))
    BY TransformedAre, Zenon
  <2>5. p = Type(p.base, p.components)
    BY TypeIs, Zenon
  <2> HIDE DEF t
  <2> QED BY <2>1, <2>3, <2>4, <2>5, Zenon DEF TransformedBy
<1>2. Types \subseteq G
  <2> HIDE DEF G
  <2> QED BY <1>1, TypeInduction
<1> QED BY <1>2

\* viem is never given an address: every type it gets is a transformed one.
LEMMA TypesForViemAre ==
  ASSUME NEW ps \in Seq(Types)
  PROVE  TypesForViem(ps) = Transformed(ps)
<1>1. ASSUME ~ HasShellAddressParameter(ps) PROVE Transformed(ps) = ps
  <2>1. \A i \in DOMAIN ps : TransformShellAddressParameter[ps[i]] = ps[i]
    BY <1>1, TransformedSame DEF HasShellAddressParameter
  <2> QED BY <2>1 DEF Transformed
<1> QED BY <1>1 DEF TypesForViem

\* What x says of words y says of words and addresses.
Alike(x, y) ==
    x["bytes32"] = y["address"] /\ x["bytes32"] = y["bytes32"] /\ x["uint256"] = y["uint256"]

\* Types with words instead of addresses have the same values, if words may be
\* what addresses may be.
LEMMA ValuesTransformed ==
  ASSUME NEW A, NEW B, Alike(A, B)
  PROVE  \A p \in Types : Values(A)[TransformShellAddressParameter[p]] = Values(B)[p]
<1>0. A["bytes32"] = B["address"] /\ A["bytes32"] = B["bytes32"] /\ A["uint256"] = B["uint256"]
  BY DEF Alike
<1> DEFINE t == TransformShellAddressParameter
           f == Values(A)
           g == Values(B)
           G == {p \in Types : f[t[p]] = g[p]}
<1>1. ASSUME NEW p \in Types, \A i \in DOMAIN p.components : p.components[i] \in G
      PROVE  p \in G
  <2>1. \A i \in DOMAIN p.components : f[t[p.components[i]]] = g[p.components[i]]
    BY <1>1
  <2>2. t[p] \in Types /\ t[p].base = (IF p.base = "address" THEN "bytes32" ELSE p.base)
        /\ t[p].components = Parts(p, t)
    BY TransformedType, TransformedIs
  <2>3. f[t[p]] = ValuesBy(A, t[p], Parts(t[p], f)) /\ g[p] = ValuesBy(B, p, Parts(p, g))
    BY <2>2, ValuesAre, Zenon
  <2> HIDE DEF t, f, g
  <2>4. Parts(t[p], f) = Parts(p, g)
    BY <2>1, <2>2 DEF Parts
  <2>5. ValuesBy(A, t[p], Parts(p, g)) = ValuesBy(B, p, Parts(p, g))
    <3> DEFINE y == Parts(p, g)
               u == {List(s) : s \in Sequences(y[1])}
               w == {List(s) : s \in Products(y)}
    <3>1. /\ ValuesBy(A, t[p], y) = IF t[p].base = "array" THEN u
                                    ELSE IF t[p].base = "tuple" THEN w ELSE A[t[p].base]
          /\ ValuesBy(B, p, y) = IF p.base = "array" THEN u
                                 ELSE IF p.base = "tuple" THEN w ELSE B[p.base]
      BY Zenon DEF ValuesBy
    <3>2. p.base \in {"address", "bytes32", "uint256", "array", "tuple"}
      BY TypeIs DEF Atomic
    <3> HIDE DEF y, u, w
    <3>3. ValuesBy(A, t[p], y) = ValuesBy(B, p, y)
      <4>1. t[p].base = IF p.base = "address" THEN "bytes32" ELSE p.base
        BY <2>2
      <4>2. CASE p.base = "address"
        BY <1>0, <3>1, <4>1, <4>2
      <4>3. CASE p.base \in {"bytes32", "uint256"}
        BY <1>0, <3>1, <4>1, <4>3
      <4>4. CASE p.base \in {"array", "tuple"}
        BY <3>1, <4>1, <4>4
      <4> QED BY <3>2, <4>2, <4>3, <4>4
    <3> QED BY <3>3 DEF y
  <2> QED BY <2>3, <2>4, <2>5
<1>2. Types \subseteq G
  <2> HIDE DEF G
  <2> QED BY <1>1, TypeInduction
<1> QED BY <1>2

\* Mapped at one type.
LEMMA MappedAt ==
  ASSUME NEW A, NEW c, NEW p \in Types
  PROVE  Mapped(A, c)[p] = MappedBy(A, c, p, Parts(p, Mapped(A, c)))
BY MappedAre, Zenon

\* What changes the atoms of a type with words changes those of the type with
\* addresses alike.
LEMMA MappedTransformed ==
  ASSUME NEW A, NEW B, Alike(A, B), NEW c, NEW d, Alike(c, d)
  PROVE  \A p \in Types : Mapped(A, c)[TransformShellAddressParameter[p]] = Mapped(B, d)[p]
<1>0. c["bytes32"] = d["address"] /\ c["bytes32"] = d["bytes32"] /\ c["uint256"] = d["uint256"]
  BY DEF Alike
<1> DEFINE t == TransformShellAddressParameter
           f == Mapped(A, c)
           g == Mapped(B, d)
           G == {p \in Types : f[t[p]] = g[p]}
<1>1. ASSUME NEW p \in Types, \A i \in DOMAIN p.components : p.components[i] \in G
      PROVE  p \in G
  <2>1. \A i \in DOMAIN p.components : f[t[p.components[i]]] = g[p.components[i]]
    BY <1>1
  <2>2. t[p] \in Types /\ t[p].base = (IF p.base = "address" THEN "bytes32" ELSE p.base)
        /\ t[p].components = Parts(p, t)
    BY TransformedType, TransformedIs
  <2>3. f[t[p]] = MappedBy(A, c, t[p], Parts(t[p], f)) /\ g[p] = MappedBy(B, d, p, Parts(p, g))
    <3> HIDE DEF t
    <3> QED BY <2>2, MappedAt
  <2>4. Values(A)[t[p]] = Values(B)[p]
    BY ValuesTransformed
  <2> HIDE DEF t, f, g
  <2>5. Parts(t[p], f) = Parts(p, g)
    BY <2>1, <2>2 DEF Parts
  <2>6. MappedBy(A, c, t[p], Parts(p, g)) = MappedBy(B, d, p, Parts(p, g))
    <3> DEFINE y == Parts(p, g)
               S == Values(B)[p]
               z(v) == List([i \in DOMAIN v.items |->
                              y[IF p.base = "array" THEN 1 ELSE i][v.items[i]]])
    <3>1. p.base \in {"address", "bytes32", "uint256", "array", "tuple"}
      BY TypeIs DEF Atomic
    <3>2. /\ t[p].base \in Atomic <=> p.base \in Atomic
          /\ t[p].base = "array" <=> p.base = "array"
          /\ p.base \in Atomic => c[t[p].base] = d[p.base]
      BY <1>0, <2>2, <3>1 DEF Atomic
    <3>3. MappedBy(A, c, t[p], y) = [v \in S |-> IF t[p].base \in Atomic THEN c[t[p].base][v] ELSE
             List([i \in DOMAIN v.items |->
                     y[IF t[p].base = "array" THEN 1 ELSE i][v.items[i]]])]
      BY <2>4, Zenon DEF MappedBy
    <3>4. MappedBy(B, d, p, y) = [v \in S |-> IF p.base \in Atomic THEN d[p.base][v] ELSE z(v)]
      BY Zenon DEF MappedBy
    <3> HIDE DEF y, S
    <3>5. CASE p.base \in Atomic
      BY <3>2, <3>3, <3>4, <3>5 DEF y
    <3>6. CASE p.base \notin Atomic
      BY <3>2, <3>3, <3>4, <3>6 DEF y
    <3> QED BY <3>5, <3>6
  <2> QED BY <2>3, <2>5, <2>6
<1>2. Types \subseteq G
  <2> HIDE DEF G
  <2> QED BY <1>1, TypeInduction
<1> QED BY <1>2

\* A list holds its items.
LEMMA ListIs == \A s : List(s).items = s
BY DEF List

\* The values of a type that is not atomic are lists with items of its components.
LEMMA ListsOf ==
  ASSUME NEW A, NEW p \in Types, p.base \notin Atomic, NEW v \in Values(A)[p]
  PROVE  /\ v = List(v.items)
         /\ v.items = [i \in DOMAIN v.items |-> v.items[i]]
         /\ \A i \in DOMAIN v.items :
              LET k == IF p.base = "array" THEN 1 ELSE i
              IN  /\ k \in DOMAIN p.components
                  /\ v.items[i] \in Values(A)[p.components[k]]
<1> DEFINE f == Values(A)
           y == Parts(p, f)
<1>1. f[p] = ValuesBy(A, p, y)
  BY ValuesAre, Zenon
<1> HIDE DEF f
<1>2. /\ DOMAIN y = DOMAIN p.components
      /\ \A k \in DOMAIN p.components : y[k] = f[p.components[k]]
  BY DEF Parts
<1>3. p.components \in Seq(Types) /\ (p.base = "array" => 1 \in DOMAIN p.components)
      /\ p.base \in {"array", "tuple"}
  BY TypeIs
<1> HIDE DEF y
<1>4. CASE p.base = "array"
  <2>1. f[p] = {List(s) : s \in Sequences(y[1])}
    BY <1>1, <1>4, Zenon DEF ValuesBy
  <2>2. PICK s \in Sequences(y[1]) : v = List(s)
    BY <2>1 DEF f
  <2>3. v.items = s /\ s = [i \in DOMAIN s |-> s[i]] /\ \A i \in DOMAIN s : s[i] \in y[1]
    BY <2>2, ListIs DEF Sequences
  <2> QED BY <1>2, <1>3, <1>4, <2>2, <2>3 DEF f
<1>5. CASE p.base = "tuple"
  <2>1. f[p] = {List(s) : s \in Products(y)}
    BY <1>1, <1>5, Zenon DEF ValuesBy
  <2>2. PICK s \in Products(y) : v = List(s)
    BY <2>1 DEF f
  <2>3. /\ v.items = s /\ s = [i \in DOMAIN s |-> s[i]]
        /\ DOMAIN s = DOMAIN y /\ \A i \in DOMAIN s : s[i] \in y[i]
    BY <2>2, ListIs DEF Products
  <2> QED BY <1>2, <1>3, <1>5, <2>2, <2>3 DEF f
<1> QED BY <1>3, <1>4, <1>5

\* Mapped at one value.
LEMMA MappedIs ==
  ASSUME NEW A, NEW c, NEW p \in Types, NEW v \in Values(A)[p]
  PROVE  Mapped(A, c)[p][v] =
           IF p.base \in Atomic THEN c[p.base][v]
           ELSE List([i \in DOMAIN v.items |->
                        Mapped(A, c)[p.components[IF p.base = "array" THEN 1 ELSE i]][v.items[i]]])
<1> DEFINE f == Mapped(A, c)
<1>1. f[p] = MappedBy(A, c, p, Parts(p, f))
  BY MappedAt
<1>2. f[p][v] = IF p.base \in Atomic THEN c[p.base][v]
                ELSE List([i \in DOMAIN v.items |->
                        Parts(p, f)[IF p.base = "array" THEN 1 ELSE i][v.items[i]]])
  BY <1>1, Zenon DEF MappedBy
<1> HIDE DEF f
<1>3. p.base \notin Atomic =>
        [i \in DOMAIN v.items |-> Parts(p, f)[IF p.base = "array" THEN 1 ELSE i][v.items[i]]]
        = [i \in DOMAIN v.items |-> f[p.components[IF p.base = "array" THEN 1 ELSE i]][v.items[i]]]
  <2> SUFFICES ASSUME p.base \notin Atomic, NEW i \in DOMAIN v.items
               PROVE  LET k == IF p.base = "array" THEN 1 ELSE i
                      IN  Parts(p, f)[k] = f[p.components[k]]
    OBVIOUS
  <2> DEFINE k == IF p.base = "array" THEN 1 ELSE i
  <2>1. k \in DOMAIN p.components
    BY ListsOf
  <2> HIDE DEF k
  <2>2. Parts(p, f)[k] = f[p.components[k]]
    BY <2>1, Zenon DEF Parts
  <2> QED BY <2>2 DEF k
<1> QED BY <1>2, <1>3, Zenon DEF f

\* A change that takes atoms to atoms takes values to values of the same type.
LEMMA MappedType ==
  ASSUME NEW A, NEW B, NEW c, \A b \in Atomic : \A v \in A[b] : c[b][v] \in B[b]
  PROVE  \A p \in Types : \A v \in Values(A)[p] : Mapped(A, c)[p][v] \in Values(B)[p]
<1> DEFINE f == Values(A)
           g == Values(B)
           m == Mapped(A, c)
           G == {p \in Types : \A v \in f[p] : m[p][v] \in g[p]}
<1>1. ASSUME NEW p \in Types, \A i \in DOMAIN p.components : p.components[i] \in G
      PROVE  p \in G
  <2> SUFFICES ASSUME NEW v \in f[p] PROVE m[p][v] \in g[p]
    OBVIOUS
  <2>1. f[p] = ValuesBy(A, p, Parts(p, f))
    BY ValuesAre, Zenon
  <2>2. g[p] = ValuesBy(B, p, Parts(p, g))
    BY ValuesAre, Zenon
  <2> DEFINE w == [i \in DOMAIN v.items |->
                     m[p.components[IF p.base = "array" THEN 1 ELSE i]][v.items[i]]]
             x == Parts(p, f)
             y == Parts(p, g)
  <2>3. m[p][v] = IF p.base \in Atomic THEN c[p.base][v] ELSE List(w)
    BY MappedIs
  <2>4. CASE p.base \in Atomic
    <3>1. p.base # "array" /\ p.base # "tuple"
      BY <2>4 DEF Atomic
    <3>2. f[p] = A[p.base] /\ g[p] = B[p.base]
      BY <2>1, <2>2, <3>1, Zenon DEF ValuesBy
    <3> HIDE DEF f, g, m
    <3> QED BY <2>3, <2>4, <3>2
  <2>5. CASE p.base \notin Atomic
    <3>1. /\ v = List(v.items)
          /\ v.items = [i \in DOMAIN v.items |-> v.items[i]]
          /\ \A i \in DOMAIN v.items :
               LET k == IF p.base = "array" THEN 1 ELSE i
               IN  k \in DOMAIN p.components /\ v.items[i] \in f[p.components[k]]
      BY <2>5, ListsOf, Zenon
    <3>2. ASSUME NEW i \in DOMAIN v.items
          PROVE  w[i] \in y[IF p.base = "array" THEN 1 ELSE i]
      <4> DEFINE k == IF p.base = "array" THEN 1 ELSE i
      <4>1. k \in DOMAIN p.components /\ v.items[i] \in f[p.components[k]]
        BY <3>1
      <4>2. w[i] = m[p.components[k]][v.items[i]]
        OBVIOUS
      <4> HIDE DEF k, f, g, m, w
      <4>3. w[i] \in g[p.components[k]]
        BY <1>1, <4>1, <4>2
      <4>4. y[k] = g[p.components[k]]
        BY <4>1, Zenon DEF Parts
      <4> QED BY <4>3, <4>4 DEF k
    <3>3. DOMAIN w = DOMAIN v.items /\ DOMAIN x = DOMAIN y
      BY DEF Parts
    <3> HIDE DEF f, g, m, w, x, y
    <3>4. p.base \in {"array", "tuple"}
      BY <2>5, TypeIs
    <3>5. CASE p.base = "array"
      <4>1. f[p] = {List(s) : s \in Sequences(x[1])} /\ g[p] = {List(s) : s \in Sequences(y[1])}
        BY <2>1, <2>2, <3>5, Zenon DEF ValuesBy, x, y
      <4>2. PICK s \in Sequences(x[1]) : v = List(s)
        BY <4>1
      <4>3. v.items = s
        BY <4>2, ListIs
      <4>4. PICK n \in 0 .. MaxItems : DOMAIN s = 1 .. n
        BY <4>2 DEF Sequences
      <4>5. w \in [1 .. n -> y[1]]
        <5>1. w = [i \in 1 .. n |-> w[i]]
          BY <3>3, <4>3, <4>4 DEF w
        <5> QED BY <3>2, <3>3, <3>5, <4>3, <4>4, <5>1
      <4>6. w \in Sequences(y[1])
        BY <4>5 DEF Sequences
      <4> QED BY <2>3, <2>5, <4>1, <4>6
    <3>6. CASE p.base = "tuple"
      <4>0. p.base # "array"
        BY <3>6
      <4>1. f[p] = {List(s) : s \in Products(x)} /\ g[p] = {List(s) : s \in Products(y)}
        BY <2>1, <2>2, <3>6, <4>0, Zenon DEF ValuesBy, x, y
      <4>2. PICK s \in Products(x) : v = List(s)
        BY <4>1
      <4>3. v.items = s /\ DOMAIN s = DOMAIN y
        BY <3>3, <4>2, ListIs DEF Products
      <4>4. DOMAIN w = DOMAIN y /\ \A i \in DOMAIN y : w[i] \in y[i]
        BY <3>2, <3>3, <4>0, <4>3
      <4>5. w \in [DOMAIN y -> UNION Range(y)]
        <5>1. w = [i \in DOMAIN y |-> w[i]]
          BY <3>3, <4>4 DEF w
        <5>2. \A i \in DOMAIN y : w[i] \in UNION Range(y)
          BY <4>4 DEF Range
        <5> QED BY <5>1, <5>2
      <4>6. w \in Products(y)
        BY <4>4, <4>5 DEF Products
      <4> QED BY <2>3, <2>5, <4>1, <4>6
    <3> QED BY <3>4, <3>5, <3>6
  <2> QED BY <2>4, <2>5
<1>2. Types \subseteq G
  <2> HIDE DEF G
  <2> QED BY <1>1, TypeInduction
<1> QED BY <1>2

\* A change of nothing changes nothing.
LEMMA MappedSame ==
  ASSUME NEW A, NEW c, \A b \in Atomic : \A v \in A[b] : c[b][v] = v
  PROVE  \A p \in Types : \A v \in Values(A)[p] : Mapped(A, c)[p][v] = v
<1> DEFINE f == Values(A)
           m == Mapped(A, c)
           G == {p \in Types : \A v \in f[p] : m[p][v] = v}
<1>1. ASSUME NEW p \in Types, \A i \in DOMAIN p.components : p.components[i] \in G
      PROVE  p \in G
  <2> SUFFICES ASSUME NEW v \in f[p] PROVE m[p][v] = v
    OBVIOUS
  <2> DEFINE w == [i \in DOMAIN v.items |->
                     m[p.components[IF p.base = "array" THEN 1 ELSE i]][v.items[i]]]
  <2>1. m[p][v] = IF p.base \in Atomic THEN c[p.base][v] ELSE List(w)
    BY MappedIs
  <2>2. CASE p.base \in Atomic
    <3>1. f[p] = ValuesBy(A, p, Parts(p, f))
      BY ValuesAre, Zenon
    <3>2. p.base # "array" /\ p.base # "tuple"
      BY <2>2 DEF Atomic
    <3>3. f[p] = A[p.base]
      BY <3>1, <3>2, Zenon DEF ValuesBy
    <3> HIDE DEF f, m
    <3> QED BY <2>1, <2>2, <3>3
  <2>3. CASE p.base \notin Atomic
    <3>1. /\ v = List(v.items)
          /\ v.items = [i \in DOMAIN v.items |-> v.items[i]]
          /\ \A i \in DOMAIN v.items :
               LET k == IF p.base = "array" THEN 1 ELSE i
               IN  k \in DOMAIN p.components /\ v.items[i] \in f[p.components[k]]
      BY <2>3, ListsOf, Zenon
    <3>2. ASSUME NEW i \in DOMAIN v.items PROVE w[i] = v.items[i]
      <4> DEFINE k == IF p.base = "array" THEN 1 ELSE i
      <4>1. k \in DOMAIN p.components /\ v.items[i] \in f[p.components[k]]
        BY <3>1
      <4>2. w[i] = m[p.components[k]][v.items[i]]
        OBVIOUS
      <4> HIDE DEF k, f, m, w
      <4> QED BY <1>1, <4>1, <4>2
    <3> HIDE DEF f, m
    <3> QED BY <2>1, <2>3, <3>1, <3>2
  <2> QED BY <2>2, <2>3
<1>2. Types \subseteq G
  <2> HIDE DEF G
  <2> QED BY <1>1, TypeInduction
<1> QED BY <1>2

\* Lists of values, by their items.
LEMMA TuplesIs ==
  ASSUME NEW ps \in Seq(Types), NEW A, NEW s
  PROVE  s \in Tuples(ps, A) <=> /\ s = [i \in DOMAIN ps |-> s[i]]
                                 /\ \A i \in DOMAIN ps : s[i] \in Values(A)[ps[i]]
<1> DEFINE x == [i \in DOMAIN ps |-> Values(A)[ps[i]]]
<1>1. DOMAIN x = DOMAIN ps /\ \A i \in DOMAIN ps : x[i] = Values(A)[ps[i]]
  OBVIOUS
<1>2. Tuples(ps, A) = Products(x)
  BY Zenon DEF Tuples
<1> HIDE DEF x
<1>3. ASSUME s = [i \in DOMAIN x |-> s[i]], \A i \in DOMAIN x : s[i] \in x[i]
      PROVE  s \in Products(x)
  <2>1. \A i \in DOMAIN x : s[i] \in UNION Range(x)
    BY <1>3 DEF Range
  <2>2. s \in [DOMAIN x -> UNION Range(x)]
    BY <1>3, <2>1
  <2> QED BY <1>3, <2>2 DEF Products
<1>4. ASSUME s \in Products(x)
      PROVE  s = [i \in DOMAIN x |-> s[i]] /\ \A i \in DOMAIN x : s[i] \in x[i]
  BY <1>4 DEF Products
<1> QED BY <1>1, <1>2, <1>3, <1>4

\* Types handed to viem have the values that the types of the ABI have in Shell.
LEMMA ValuesForViem ==
  \A p \in Types : Values(ForViem)[TransformShellAddressParameter[p]] = Values(Proper)[p]
<1>1. Alike(ForViem, Proper)
  BY DEF ForViem, Proper, Known, Alike
<1> QED BY <1>1, ValuesTransformed, Zenon

\* viem encodes them as the ABI means them.
LEMMA EncodedForViem ==
  \A p \in Types : Mapped(ForViem, Lowered(ForViem))[TransformShellAddressParameter[p]]
                     = Mapped(Proper, Lowered(Proper))[p]
<1>1. Alike(ForViem, Proper)
  BY DEF ForViem, Proper, Known, Alike
<1> DEFINE c == Lowered(ForViem)
           d == Lowered(Proper)
<1>2. Alike(c, d)
  BY <1>1 DEF Lowered, Atomic, Alike
<1> HIDE DEF c, d
<1>3. \A p \in Types :
         Mapped(ForViem, c)[TransformShellAddressParameter[p]] = Mapped(Proper, d)[p]
  BY <1>1, <1>2, MappedTransformed
<1> QED BY <1>3 DEF c, d

\* And it decodes what is on the wire as it is: it never gets to see an address.
LEMMA DecodedForViem ==
  \A p \in Types : \A v \in Values(OnWire)[p] :
     Mapped(OnWire, Cut)[TransformShellAddressParameter[p]][v] = v
<1> DEFINE Keep == [b \in Atomic |-> IF b = "address" THEN Cut["bytes32"] ELSE Cut[b]]
<1>1. Alike(OnWire, OnWire)
  BY DEF OnWire, Known, Alike
<1>2. Alike(Cut, Keep)
  BY DEF Atomic, Alike
<1>3. \A b \in Atomic : \A v \in OnWire[b] : Keep[b][v] = v
  BY <1>1 DEF Cut, Atomic, Alike
<1> HIDE DEF Keep
<1>4. \A p \in Types :
         Mapped(OnWire, Cut)[TransformShellAddressParameter[p]] = Mapped(OnWire, Keep)[p]
  BY <1>1, <1>2, MappedTransformed
<1>5. \A p \in Types : \A v \in Values(OnWire)[p] : Mapped(OnWire, Keep)[p][v] = v
  BY <1>3, MappedSame
<1> QED BY <1>4, <1>5

\* Arguments are accepted just if they are proper values of the types of the ABI.
LEMMA AcceptedIs ==
  ASSUME NEW ps \in Seq(Types), NEW s, Len(s) \in Nat, s = [i \in 1 .. Len(s) |-> s[i]]
  PROVE  Accepted(ps, s) <=> s \in Tuples(ps, Proper)
<1>1. TypesForViem(ps) = [i \in DOMAIN ps |-> TransformShellAddressParameter[ps[i]]]
  BY TypesForViemAre DEF Transformed
<1>2. ASSUME NEW i \in DOMAIN ps
      PROVE  Values(ForViem)[TypesForViem(ps)[i]] = Values(Proper)[ps[i]]
  <2>1. ps[i] \in Types
    OBVIOUS
  <2>2. TypesForViem(ps)[i] = TransformShellAddressParameter[ps[i]]
    BY <1>1
  <2> QED BY <2>1, <2>2, ValuesForViem
<1>3. Accepted(ps, s) <=>
         Len(s) = Len(ps) /\ \A i \in DOMAIN ps : s[i] \in Values(Proper)[ps[i]]
  BY <1>2 DEF Accepted
<1>4. Len(s) = Len(ps) <=> s = [i \in DOMAIN ps |-> s[i]]
  <2>1. DOMAIN ps = 1 .. Len(ps) /\ Len(ps) \in Nat /\ DOMAIN s = 1 .. Len(s)
    OBVIOUS
  <2>2. ASSUME Len(s) = Len(ps) PROVE s = [i \in DOMAIN ps |-> s[i]]
    BY <2>1, <2>2
  <2>3. ASSUME s = [i \in DOMAIN ps |-> s[i]] PROVE Len(s) = Len(ps)
    <3>1. 1 .. Len(s) = 1 .. Len(ps)
      BY <2>1, <2>3
    <3> DEFINE m == Len(s)
               n == Len(ps)
    <3>2. m \in Nat /\ n \in Nat /\ 1 .. m = 1 .. n
      BY <2>1, <3>1
    <3> HIDE DEF m, n
    <3>3. m \in 1 .. m \/ m = 0
      BY <3>2
    <3>4. n \in 1 .. n \/ n = 0
      BY <3>2
    <3>5. m <= n /\ n <= m
      BY <3>2, <3>3, <3>4
    <3>6. m = n
      BY <3>2, <3>5
    <3> QED BY <3>6 DEF m, n
  <2> QED BY <2>2, <2>3
<1> QED BY <1>3, <1>4, TuplesIs

\* viem encodes proper arguments as the ABI means them, every address whole.
LEMMA DataIs ==
  ASSUME NEW ps \in Seq(Types), NEW s \in Tuples(ps, Proper), NEW selector
  PROVE  /\ Data(selector, ps, s).selector = selector
         /\ Data(selector, ps, s).args = Bytes(ps, s)
         /\ Bytes(ps, s) \in Tuples(ps, OnWire)
<1>1. s = [i \in DOMAIN ps |-> s[i]] /\ \A i \in DOMAIN ps : s[i] \in Values(Proper)[ps[i]]
  BY TuplesIs
<1>2. DOMAIN s = DOMAIN ps
  BY <1>1
<1>3. ASSUME NEW i \in DOMAIN ps
      PROVE  Encoded(TypesForViem(ps)[i], s[i]) = Mapped(Proper, Lowered(Proper))[ps[i]][s[i]]
  <2>1. TypesForViem(ps)[i] = TransformShellAddressParameter[ps[i]] /\ ps[i] \in Types
    BY TypesForViemAre DEF Transformed
  <2> QED BY <2>1, EncodedForViem DEF Encoded
<1>4. Data(selector, ps, s).args = Bytes(ps, s)
  BY <1>2, <1>3 DEF Data, Bytes
<1>5. ASSUME NEW b \in Atomic, NEW v \in Proper[b] PROVE Lowered(Proper)[b][v] \in OnWire[b]
  BY <1>5 DEF Lowered, Proper, OnWire, Known, Words, Word, Number, Atomic
<1>6. \A i \in DOMAIN ps :
         Mapped(Proper, Lowered(Proper))[ps[i]][s[i]] \in Values(OnWire)[ps[i]]
  <2>1. \A b \in Atomic : \A v \in Proper[b] : Lowered(Proper)[b][v] \in OnWire[b]
    BY <1>5
  <2>2. \A p \in Types : \A v \in Values(Proper)[p] :
           Mapped(Proper, Lowered(Proper))[p][v] \in Values(OnWire)[p]
    BY <2>1, MappedType
  <2> QED BY <1>1, <2>2
<1>7. Bytes(ps, s) \in Tuples(ps, OnWire)
  <2>1. Bytes(ps, s) = [i \in DOMAIN ps |-> Mapped(Proper, Lowered(Proper))[ps[i]][s[i]]]
    BY <1>2 DEF Bytes
  <2> DEFINE b == Bytes(ps, s)
  <2>2. b = [i \in DOMAIN ps |-> b[i]] /\ \A i \in DOMAIN ps : b[i] \in Values(OnWire)[ps[i]]
    BY <2>1, <1>6
  <2> HIDE DEF b
  <2>3. b \in Tuples(ps, OnWire)
    BY <2>2, TuplesIs
  <2> QED BY <2>3 DEF b
<1> QED BY <1>4, <1>7 DEF Data

\* What is decoded is what was on the wire, every address whole.
LEMMA DecodedSame ==
  ASSUME NEW ps \in Seq(Types), NEW s \in Tuples(ps, OnWire)
  PROVE  [k \in DOMAIN s |-> Decoded(TypesForViem(ps)[k], s[k])] = s
<1>1. s = [i \in DOMAIN ps |-> s[i]] /\ \A i \in DOMAIN ps : s[i] \in Values(OnWire)[ps[i]]
  BY TuplesIs
<1>2. ASSUME NEW i \in DOMAIN ps PROVE Decoded(TypesForViem(ps)[i], s[i]) = s[i]
  <2>1. TypesForViem(ps)[i] = TransformShellAddressParameter[ps[i]] /\ ps[i] \in Types
    BY TypesForViemAre DEF Transformed
  <2> QED BY <1>1, <2>1, DecodedForViem DEF Decoded
<1> QED BY <1>1, <1>2

-----------------------------------------------------------------------------
(* The call *)

\* Before a function runs: the function that is meant, its arguments as bytes.
SentIsMeant ==
    callStage = "sent" =>
        /\ ran = Unset /\ result = Unset
        /\ \/ /\ call.how = "deploy" /\ data.selector = Creation
              /\ data.args = Bytes(ConstructorInputs, call.args)
              /\ data.args \in Tuples(ConstructorInputs, OnWire)
           \/ /\ call.how # "deploy"
              /\ \E i \in Functions :
                   /\ Meant = {i} /\ data.selector = Signature(abi[i])
                   /\ data.args = Bytes(abi[i].inputs, call.args)
                   /\ data.args \in Tuples(abi[i].inputs, OnWire)

\* Once it has answered: how the answer is to be read.
AnsweredIsMeant ==
    callStage = "answered" =>
        /\ result = Unset /\ call.how \in {"readContract", "by hand"}
        /\ ran.entry \in Functions /\ Meant = {ran.entry}
        /\ data.selector = Signature(abi[ran.entry])
        /\ answered \in Tuples(abi[ran.entry].outputs, OnWire)

\* The inductive invariant.
AbiInv ==
    /\ abi \in Interfaces /\ call.target \in {"good", "malformed"}
    /\ Len(call.args) \in Nat /\ call.args = [i \in 1 .. Len(call.args) |-> call.args[i]]
    /\ callStage = "asked" => ran = Unset /\ result = Unset
    /\ SentIsMeant
    /\ AnsweredIsMeant
    /\ CallsAsNamed

\* What the assumptions say of the ABI in use.
LEMMA InterfaceIs ==
  ASSUME abi \in Interfaces
  PROVE  /\ \A i \in DOMAIN abi : abi[i].inputs \in Seq(Types) /\ abi[i].outputs \in Seq(Types)
         /\ IsFiniteSet(DOMAIN abi)
         /\ \A i, j \in Constructors : i = j
<1>1. abi \in Seq(Entries)
  BY InterfaceAssumption
<1>2. \A i \in DOMAIN abi : abi[i] \in Entries
  BY <1>1
<1>3. DOMAIN abi = 1 .. Len(abi) /\ Len(abi) \in Nat
  BY <1>1
<1>4. IsFiniteSet(DOMAIN abi)
  BY <1>3, FS_Interval
<1>5. \A i, j \in Constructors : i = j
  BY InterfaceAssumption DEF Constructors
<1> QED BY <1>2, <1>4, <1>5 DEF Entries

\* There is one constructor, or none.
LEMMA ConstructorIs ==
  ASSUME abi \in Interfaces
  PROVE  /\ ConstructorInputs \in Seq(Types)
         /\ \A i \in Constructors : Constructors = {i} /\ ConstructorInputs = abi[i].inputs
<1>1. ASSUME NEW i \in Constructors
      PROVE  Constructors = {i} /\ ConstructorInputs = abi[i].inputs
  <2>1. Constructors = {i}
    BY InterfaceIs
  <2>2. (CHOOSE j \in Constructors : TRUE) = i
    BY <2>1
  <2> QED BY <2>1, <2>2 DEF ConstructorInputs
<1>2. ASSUME Constructors = {} PROVE ConstructorInputs = <<>>
  BY <1>2 DEF ConstructorInputs
<1>3. \A i \in Constructors : abi[i].inputs \in Seq(Types)
  BY InterfaceIs DEF Constructors
<1>4. <<>> \in Seq(Types)
  OBVIOUS
<1> QED BY <1>1, <1>2, <1>3, <1>4

\* A set of functions has one member just if it is the set of that member.
LEMMA OneFunction ==
  ASSUME abi \in Interfaces, NEW S, S \subseteq DOMAIN abi
  PROVE  Cardinality(S) = 1 <=> \E i : S = {i}
BY InterfaceIs, FS_Subset, FS_Singleton

\* findFunctionAbi finds what alone suits.
LEMMA FoundIs ==
  ASSUME abi \in Interfaces, NEW f, NEW n
  PROVE  /\ \A i \in FindFunctionAbi(f, n) : Suiting(f, n) = {i}
         /\ \A i : Suiting(f, n) = {i} => FindFunctionAbi(f, n) = {i}
<1>1. Suiting(f, n) \subseteq DOMAIN abi
  BY DEF Suiting, Functions
<1>2. Cardinality(Suiting(f, n)) = 1 <=> \E i : Suiting(f, n) = {i}
  BY <1>1, OneFunction
<1> QED BY <1>2 DEF FindFunctionAbi

\* With a number of arguments the functions that suit are those that are meant.
LEMMA SuitingMeant ==
  ASSUME abi \in Interfaces, Len(call.args) \in Nat, call.how # "deploy"
  PROVE  Suiting(call.functionName, Len(call.args)) = Meant
<1>1. Len(call.args) # AnyCount
  BY DEF AnyCount
<1> QED BY <1>1 DEF Suiting, Suits, Meant

\* A name is no signature, and either says which name, a signature also which
\* parameters.
LEMMA NamesAre ==
  ASSUME abi \in Interfaces, NEW i \in DOMAIN abi, NEW j \in DOMAIN abi
  PROVE  /\ Name(abi[i]) # Signature(abi[j]) /\ Creation # Signature(abi[i])
         /\ Name(abi[i]) = Name(abi[j]) <=> abi[i].name = abi[j].name
         /\ Signature(abi[i]) = Signature(abi[j]) <=>
              abi[i].name = abi[j].name /\ abi[i].inputs = abi[j].inputs
<1>1. abi[j].inputs # Unset
  BY InterfaceIs, UnsetAssumption
<1>2. Creation # Signature(abi[i])
  BY DEF Creation, Signature
<1> QED BY <1>1, <1>2 DEF Name, Signature

\* The function that is meant is the only one with its signature.
LEMMA SignatureMeant ==
  ASSUME abi \in Interfaces, call.how # "deploy", NEW r \in Functions, Meant = {r},
         NEW i \in Functions, Signature(abi[i]) = Signature(abi[r])
  PROVE  i = r
<1>1. i \in DOMAIN abi /\ r \in DOMAIN abi
  BY DEF Functions
<1>2. abi[i].name = abi[r].name /\ abi[i].inputs = abi[r].inputs
  BY <1>1, NamesAre
<1>3. i \in Meant
  BY <1>2 DEF Meant, Name, Signature
<1> QED BY <1>3

\* The first state.
LEMMA AbiInitially == AbiInit => AbiInv
<1> SUFFICES ASSUME AbiInit PROVE AbiInv
  OBVIOUS
<1>1. abi \in Interfaces /\ callStage = "asked" /\ ran = Unset /\ result = Unset
  BY DEF AbiInit
<1>2. Len(call.args) \in Nat /\ call.args = [i \in 1 .. Len(call.args) |-> call.args[i]]
  <2>1. ASSUME NEW e, e.inputs \in Seq(Types), call \in Asked(e)
        PROVE  call.args \in Tuples(e.inputs, Written) \cup {<<>>}
    BY <2>1 DEF Asked
  <2>2. ASSUME NEW ps \in Seq(Types), NEW s \in Tuples(ps, Written) \cup {<<>>}
        PROVE  Len(s) \in Nat /\ s = [i \in 1 .. Len(s) |-> s[i]]
    <3>1. CASE s = <<>>
      BY <3>1
    <3>2. CASE s \in Tuples(ps, Written)
      <4>1. s = [i \in DOMAIN ps |-> s[i]]
        BY <3>2, TuplesIs
      <4>2. DOMAIN ps = 1 .. Len(ps) /\ Len(ps) \in Nat
        OBVIOUS
      <4>3. DOMAIN s = 1 .. Len(ps)
        BY <4>1, <4>2
      <4>4. Len(s) = Len(ps)
        BY <4>2, <4>3
      <4> QED BY <4>1, <4>2, <4>4
    <3> QED BY <3>1, <3>2
  <2>3. CASE call \in Asked(NoConstructor)
    <3>1. NoConstructor.inputs \in Seq(Types)
      BY DEF NoConstructor
    <3> QED BY <2>1, <2>2, <2>3, <3>1
  <2>4. CASE call \in UNION {Asked(e) : e \in Range(abi)}
    <3>1. PICK i \in DOMAIN abi : call \in Asked(abi[i])
      BY <2>4 DEF Range
    <3>2. abi[i].inputs \in Seq(Types)
      BY <1>1, InterfaceIs
    <3> QED BY <2>1, <2>2, <3>1, <3>2
  <2> QED BY <2>3, <2>4 DEF AbiInit
<1>3. call.target \in {"good", "malformed"}
  <2>1. \A e : Asked(e) \subseteq {c \in Asked(e) : c.target \in {"good", "malformed"}}
    BY DEF Asked
  <2> QED BY <2>1 DEF AbiInit
<1> QED BY <1>1, <1>2, <1>3 DEF AbiInv, SentIsMeant, AnsweredIsMeant, CallsAsNamed

\* A step that leaves the ABI and what is asked for leaves what is meant.
LEMMA SameMeant ==
  ASSUME UNCHANGED <<abi, call>>
  PROVE  Meant' = Meant /\ Functions' = Functions /\ ConstructorInputs' = ConstructorInputs
<1>1. abi' = abi /\ call' = call
  OBVIOUS
<1> QED BY <1>1 DEF Meant, Functions, Constructors, ConstructorInputs, Name, Signature

\* What is sent is the one function that is meant; a refusal has a reason.
LEMMA FunctionStep ==
  ASSUME AbiInv, CallFunction
  PROVE  AbiInv'
<1>1. abi \in Interfaces /\ Len(call.args) \in Nat
      /\ call.args = [i \in 1 .. Len(call.args) |-> call.args[i]]
      /\ ran = Unset /\ result = Unset /\ call.target \in {"good", "malformed"}
  BY DEF AbiInv, CallFunction
<1>2. call.how # "deploy" /\ abi' = abi /\ call' = call /\ ran' = ran /\ result' = result
  BY DEF CallFunction, SendCall, EndCall
<1>3. Meant' = Meant /\ Functions' = Functions
  BY <1>2, SameMeant
<1>4. Suiting(call.functionName, Len(call.args)) = Meant
  BY <1>1, <1>2, SuitingMeant
<1> DEFINE found == FindFunctionAbi(call.functionName, Len(call.args))
<1>5. \A i \in found : Meant = {i}
  BY <1>1, <1>4, FoundIs
<1>6. \A i : Meant = {i} => found = {i}
  BY <1>1, <1>4, FoundIs
<1>7. \A i \in Functions : abi[i].inputs \in Seq(Types)
  BY <1>1, InterfaceIs DEF Functions
<1>8. \A i \in Meant : i \in Functions
  BY <1>2 DEF Meant
<1>9. ASSUME NEW i \in Meant
      PROVE  Accepted(abi[i].inputs, call.args) <=> call.args \in Tuples(abi[i].inputs, Proper)
  BY <1>1, <1>7, <1>8, AcceptedIs
<1> HIDE DEF found
<1>10. CASE /\ call.target = "good"
            /\ \E i \in found :
                 /\ Accepted(abi[i].inputs, call.args)
                 /\ SendCall(Data(Signature(abi[i]), abi[i].inputs, call.args))
  <2>1. PICK i \in found :
             /\ Accepted(abi[i].inputs, call.args)
             /\ SendCall(Data(Signature(abi[i]), abi[i].inputs, call.args))
    BY <1>10
  <2>2. Meant = {i} /\ i \in Functions
    BY <1>5, <1>8
  <2>3. call.args \in Tuples(abi[i].inputs, Proper)
    BY <1>9, <2>1, <2>2
  <2>4. data' = Data(Signature(abi[i]), abi[i].inputs, call.args) /\ callStage' = "sent"
    BY <2>1 DEF SendCall
  <2>5. /\ data'.selector = Signature(abi[i]) /\ data'.args = Bytes(abi[i].inputs, call.args)
        /\ data'.args \in Tuples(abi[i].inputs, OnWire)
    BY <1>7, <2>2, <2>3, <2>4, DataIs
  <2>6. SentIsMeant'
    BY <1>1, <1>2, <1>3, <2>2, <2>5 DEF SentIsMeant
  <2>7. AnsweredIsMeant'
    BY <2>4 DEF AnsweredIsMeant
  <2>8. CallsAsNamed'
    BY <1>1, <1>2, <2>4 DEF CallsAsNamed
  <2> QED BY <1>1, <1>2, <2>4, <2>6, <2>7, <2>8 DEF AbiInv
<1>11. CASE /\ \/ call.target = "malformed"
               \/ \A i \in found : ~ Accepted(abi[i].inputs, call.args)
            /\ EndCall("refused")
  <2>1. callStage' = "refused"
    BY <1>11 DEF EndCall
  <2>2. \/ call.target = "malformed" \/ Cardinality(Meant) # 1
        \/ \E i \in Meant : call.args \notin Tuples(abi[i].inputs, Proper)
    <3>1. SUFFICES ASSUME Cardinality(Meant) = 1,
                          \A i \in found : ~ Accepted(abi[i].inputs, call.args)
                   PROVE  \E i \in Meant : call.args \notin Tuples(abi[i].inputs, Proper)
      BY <1>11
    <3>2. Meant \subseteq DOMAIN abi
      BY <1>8 DEF Functions
    <3>3. PICK i : Meant = {i}
      BY <1>1, <3>1, <3>2, OneFunction
    <3>4. i \in found /\ i \in Meant
      BY <1>6, <3>3
    <3> QED BY <1>9, <3>1, <3>4
  <2>3. CallsAsNamed'
    BY <1>1, <1>2, <1>3, <2>1, <2>2 DEF CallsAsNamed
  <2> QED BY <1>1, <1>2, <2>1, <2>3 DEF AbiInv, SentIsMeant, AnsweredIsMeant
<1> QED BY <1>10, <1>11 DEF CallFunction, found

\* The same of the constructor.
LEMMA DeployStep ==
  ASSUME AbiInv, Deploy
  PROVE  AbiInv'
<1>1. abi \in Interfaces /\ Len(call.args) \in Nat
      /\ call.args = [i \in 1 .. Len(call.args) |-> call.args[i]]
      /\ ran = Unset /\ result = Unset /\ call.target \in {"good", "malformed"}
  BY DEF AbiInv, Deploy
<1>2. call.how = "deploy" /\ abi' = abi /\ call' = call /\ ran' = ran /\ result' = result
  BY DEF Deploy, SendCall, EndCall
<1>3. Meant' = Meant /\ ConstructorInputs' = ConstructorInputs
  BY <1>2, SameMeant
<1>4. ConstructorInputs \in Seq(Types)
  BY <1>1, ConstructorIs
<1>5. Accepted(ConstructorInputs, call.args) <=> call.args \in Tuples(ConstructorInputs, Proper)
  BY <1>1, <1>4, AcceptedIs
<1>6. CASE /\ call.target = "good" /\ Accepted(ConstructorInputs, call.args)
           /\ SendCall(Data(Creation, ConstructorInputs, call.args))
  <2>1. data' = Data(Creation, ConstructorInputs, call.args) /\ callStage' = "sent"
    BY <1>6 DEF SendCall
  <2>2. /\ data'.selector = Creation /\ data'.args = Bytes(ConstructorInputs, call.args)
        /\ data'.args \in Tuples(ConstructorInputs, OnWire)
    BY <1>4, <1>5, <1>6, <2>1, DataIs
  <2>3. SentIsMeant'
    BY <1>1, <1>2, <1>3, <2>2 DEF SentIsMeant
  <2>4. AnsweredIsMeant'
    BY <2>1 DEF AnsweredIsMeant
  <2>5. CallsAsNamed'
    BY <1>1, <1>2, <2>1 DEF CallsAsNamed
  <2> QED BY <1>1, <1>2, <2>1, <2>3, <2>4, <2>5 DEF AbiInv
<1>7. CASE /\ ~ (call.target = "good" /\ Accepted(ConstructorInputs, call.args))
           /\ EndCall("refused")
  <2>1. callStage' = "refused"
    BY <1>7 DEF EndCall
  <2>2. Meant = Constructors
    BY <1>2 DEF Meant
  <2>3. \/ call.target # "good" \/ Cardinality(Meant) # 1
        \/ \E i \in Meant : call.args \notin Tuples(abi[i].inputs, Proper)
    <3>1. SUFFICES ASSUME Cardinality(Meant) = 1, ~ Accepted(ConstructorInputs, call.args)
                   PROVE  \E i \in Meant : call.args \notin Tuples(abi[i].inputs, Proper)
      BY <1>7
    <3>2. PICK i : Meant = {i}
      BY <1>1, <2>2, <3>1, OneFunction DEF Constructors
    <3>3. ConstructorInputs = abi[i].inputs
      BY <1>1, <2>2, <3>2, ConstructorIs
    <3> QED BY <1>5, <3>1, <3>2, <3>3
  <2>4. CallsAsNamed'
    BY <1>1, <1>2, <1>3, <2>1, <2>3 DEF CallsAsNamed
  <2> QED BY <1>1, <1>2, <2>1, <2>4 DEF AbiInv, SentIsMeant, AnsweredIsMeant
<1> QED BY <1>6, <1>7 DEF Deploy


\* The selector names the function that is meant, and no other has it.
LEMMA ExecuteStep ==
  ASSUME AbiInv, Execute
  PROVE  AbiInv'
<1>1. /\ abi \in Interfaces /\ ran = Unset /\ result = Unset /\ SentIsMeant
      /\ callStage = "sent"
  BY DEF AbiInv, Execute, SentIsMeant
<1>2. abi' = abi /\ call' = call /\ data' = data /\ result' = result
  BY DEF Execute
<1>3. Meant' = Meant /\ Functions' = Functions
  BY <1>2, SameMeant
<1>4. PICK i \in DOMAIN abi :
         /\ IF data.selector = Creation THEN i \in Constructors
            ELSE i \in Functions /\ data.selector = Signature(abi[i])
         /\ ran' = [entry |-> i, args |-> data.args]
         /\ answered' \in Tuples(abi[i].outputs, OnWire)
  BY DEF Execute
<1>5. callStage' = IF call.how \in {"readContract", "by hand"} THEN "answered" ELSE "done"
  BY DEF Execute
<1>6. /\ Meant = {i} /\ data.args = Bytes(abi[i].inputs, call.args)
      /\ data.args \in Tuples(abi[i].inputs, OnWire)
      /\ call.how # "deploy" => i \in Functions /\ data.selector = Signature(abi[i])
  <2>1. CASE call.how = "deploy"
    <3>1. /\ data.selector = Creation /\ data.args = Bytes(ConstructorInputs, call.args)
          /\ data.args \in Tuples(ConstructorInputs, OnWire)
      BY <1>1, <2>1 DEF SentIsMeant
    <3>2. i \in Constructors
      BY <1>4, <3>1
    <3>3. Constructors = {i} /\ ConstructorInputs = abi[i].inputs
      BY <1>1, <3>2, ConstructorIs
    <3> QED BY <2>1, <3>1, <3>3 DEF Meant
  <2>2. CASE call.how # "deploy"
    <3>1. PICK r \in Functions :
             /\ Meant = {r} /\ data.selector = Signature(abi[r])
             /\ data.args = Bytes(abi[r].inputs, call.args)
             /\ data.args \in Tuples(abi[r].inputs, OnWire)
      BY <1>1, <2>2 DEF SentIsMeant
    <3>2. Creation # Signature(abi[r])
      BY <1>1, NamesAre DEF Functions
    <3>3. i \in Functions /\ Signature(abi[i]) = Signature(abi[r])
      BY <1>4, <3>1, <3>2
    <3>4. i = r
      BY <1>1, <2>2, <3>1, <3>3, SignatureMeant
    <3> QED BY <3>1, <3>3, <3>4
  <2> QED BY <2>1, <2>2
<1>7. AnsweredIsMeant'
  BY <1>1, <1>2, <1>3, <1>4, <1>5, <1>6 DEF AnsweredIsMeant
<1>8. CallsAsNamed'
  <2>1. ran'.entry = i /\ ran'.args = data.args /\ Meant' = {ran'.entry}
    BY <1>3, <1>4, <1>6
  <2>2. ran'.args = Bytes(abi[ran'.entry].inputs, call.args)
        /\ ran'.args \in Tuples(abi[ran'.entry].inputs, OnWire)
    BY <1>6, <2>1
  <2> QED BY <1>1, <1>2, <1>5, <2>1, <2>2 DEF CallsAsNamed
<1> QED BY <1>2, <1>5, <1>7, <1>8 DEF AbiInv, SentIsMeant

\* A function that is meant has a selector in the contract: only a creation without
\* a constructor runs nothing.
LEMMA NothingStep ==
  ASSUME AbiInv, NothingRuns
  PROVE  AbiInv'
<1>1. /\ abi \in Interfaces /\ ran = Unset /\ result = Unset /\ SentIsMeant
      /\ callStage = "sent"
  BY DEF AbiInv, NothingRuns, SentIsMeant
<1>2. call' = call /\ abi' = abi /\ ran' = ran /\ result' = result
  BY DEF NothingRuns, EndCall
<1>3. callStage' = "done"
  <2>1. CASE data.selector = Creation
    BY <2>1 DEF NothingRuns, EndCall
  <2>2. CASE data.selector # Creation
    <3>1. \E i \in Functions : data.selector = Signature(abi[i])
      BY <1>1, <2>2 DEF SentIsMeant
    <3> QED BY <2>2, <3>1 DEF NothingRuns
  <2> QED BY <2>1, <2>2
<1>4. CallsAsNamed'
  BY <1>1, <1>2, <1>3 DEF CallsAsNamed
<1> QED BY <1>2, <1>3, <1>4 DEF AbiInv, SentIsMeant, AnsweredIsMeant

\* A signature finds the function again whatever the number of arguments; a name may
\* find others, and is refused then.
LEMMA DecodeStep ==
  ASSUME AbiInv, DecodeFunctionResult
  PROVE  AbiInv'
<1> DEFINE r == ran.entry
           name == NameForDecoding(data.selector)
           found == FindFunctionAbi(name, AnyCount)
<1>1. /\ abi \in Interfaces /\ result = Unset /\ CallsAsNamed
      /\ callStage = "answered" /\ call.how \in {"readContract", "by hand"}
      /\ r \in Functions /\ Meant = {r} /\ data.selector = Signature(abi[r])
      /\ answered \in Tuples(abi[r].outputs, OnWire)
  BY DEF AbiInv, DecodeFunctionResult, AnsweredIsMeant
<1>2. call.how # "deploy"
  BY <1>1
<1>3. \A i \in Functions : i \in DOMAIN abi
  BY DEF Functions
<1>4. call.functionName \in {Name(abi[r]), Signature(abi[r])}
  BY <1>1, <1>2 DEF Meant
<1>5. r \in Suiting(name, AnyCount)
  BY <1>1, <1>4 DEF NameForDecoding, Suiting, Suits
<1>6. (found = {} \/ found = {r}) /\ (Suiting(name, AnyCount) = {r} => found = {r})
  <2>1. /\ \A i \in found : Suiting(name, AnyCount) = {i}
        /\ \A i : Suiting(name, AnyCount) = {i} => found = {i}
    BY <1>1, FoundIs
  <2> HIDE DEF found, r
  <2> QED BY <1>5, <2>1
<1>7. ASSUME NEW j \in Suiting(name, AnyCount), name = Signature(abi[r]) PROVE j = r
  <2>1. j \in Functions /\ name \in {Name(abi[j]), Signature(abi[j])}
    BY DEF Suiting, Suits
  <2>2. j \in DOMAIN abi /\ r \in DOMAIN abi
    BY <1>1, <1>3, <2>1
  <2> HIDE DEF r, name
  <2>3. Name(abi[j]) # Signature(abi[r])
    BY <1>1, <2>2, NamesAre
  <2>4. Signature(abi[j]) = Signature(abi[r])
    BY <1>7, <2>1, <2>3
  <2> QED BY <1>1, <1>2, <2>1, <2>4, SignatureMeant
<1>8. abi' = abi /\ call' = call /\ ran' = ran /\ answered' = answered
  BY DEF DecodeFunctionResult, EndCall
<1>9. Meant' = Meant /\ Functions' = Functions
  BY <1>8, SameMeant
<1> HIDE DEF r, name, found
<1>10. CASE found = {} /\ EndCall("unread")
  <2>1. callStage' = "unread" /\ result' = result
    BY <1>10 DEF EndCall
  <2>2. Suiting(name, AnyCount) # {r}
    BY <1>6, <1>10
  <2>3. PICK j \in Suiting(name, AnyCount) : j # r
    BY <1>5, <2>2
  <2>4. name # Signature(abi[r])
    BY <1>7, <2>3
  <2>5. call.how = "by hand" /\ name = call.functionName /\ name = Name(abi[r])
    BY <1>1, <1>4, <2>4 DEF NameForDecoding, name
  <2>6. j \in Functions /\ name \in {Name(abi[j]), Signature(abi[j])}
    BY DEF Suiting, Suits
  <2>7. name = Name(abi[j])
    BY <1>1, <1>3, <2>5, <2>6, NamesAre
  <2>8. \E i, k \in Functions :
          i # k /\ call.functionName = Name(abi[i]) /\ call.functionName = Name(abi[k])
    BY <1>1, <2>3, <2>5, <2>6, <2>7
  <2>9. CallsAsNamed'
    BY <1>1, <1>8, <1>9, <2>1, <2>5, <2>8 DEF CallsAsNamed, Bytes, Name
  <2> QED BY <1>8, <2>1, <2>9 DEF AbiInv, SentIsMeant, AnsweredIsMeant
<1>11. CASE /\ \E i \in found :
                 result' = Shaped([k \in DOMAIN answered |->
                             Decoded(TypesForViem(abi[i].outputs)[k], answered[k])])
            /\ callStage' = "done"
  <2>1. result' = Shaped([k \in DOMAIN answered |->
                            Decoded(TypesForViem(abi[r].outputs)[k], answered[k])])
    BY <1>6, <1>11
  <2>2. abi[r].outputs \in Seq(Types)
    BY <1>1, <1>3, InterfaceIs
  <2>3. [k \in DOMAIN answered |-> Decoded(TypesForViem(abi[r].outputs)[k], answered[k])]
          = answered
    BY <1>1, <2>2, DecodedSame
  <2>4. result' = Shaped(answered)
    BY <2>1, <2>3
  <2>5. CallsAsNamed'
    BY <1>1, <1>8, <1>9, <1>11, <2>4 DEF CallsAsNamed, Bytes, Shaped
  <2> QED BY <1>8, <1>11, <2>5 DEF AbiInv, SentIsMeant, AnsweredIsMeant
<1> QED BY <1>10, <1>11 DEF DecodeFunctionResult, found, name

\* Every step.
LEMMA AbiInductive == AbiInv /\ [AbiNext]_abiVars => AbiInv'
<1> SUFFICES ASSUME AbiInv, [AbiNext]_abiVars PROVE AbiInv'
  OBVIOUS
<1>1. CASE UNCHANGED abiVars
  <2>1. /\ abi' = abi /\ call' = call /\ callStage' = callStage /\ data' = data
        /\ ran' = ran /\ answered' = answered /\ result' = result
    BY <1>1 DEF abiVars
  <2>2. Meant' = Meant /\ Functions' = Functions /\ ConstructorInputs' = ConstructorInputs
    BY <2>1, SameMeant
  <2>3. SentIsMeant' /\ AnsweredIsMeant'
    BY <2>1, <2>2 DEF AbiInv, SentIsMeant, AnsweredIsMeant
  <2>4. CallsAsNamed'
    BY <2>1, <2>2 DEF AbiInv, CallsAsNamed
  <2> QED BY <2>1, <2>3, <2>4 DEF AbiInv
<1> QED BY <1>1, FunctionStep, DeployStep, ExecuteStep, NothingStep, DecodeStep DEF AbiNext

\* Calls reach the function they name with every address whole (CallsAsNamed), for
\* any ABI, any depth of its types, and any arguments: findFunctionAbi,
\* encodeFunctionData, buildDeployTransaction and decodeFunctionResult.
THEOREM CallsCorrect == AbiSpec => []CallsAsNamed
<1>1. AbiInv => CallsAsNamed
  BY DEF AbiInv
<1> QED BY <1>1, AbiInitially, AbiInductive, PTL DEF AbiSpec

=============================================================================
