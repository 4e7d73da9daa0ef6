------------------------------ MODULE HdWallet ------------------------------
(* The HD wallet (src/src/hdwallet.ts): accounts and session keys derived    *)
(* from a mnemonic, kept as records without secrets, and restored from a     *)
(* record's path and the mnemonic as its owner types it some other day.      *)
(*                                                                           *)
(* Hashes and key generation are injective terms: a node is its seed and the *)
(* indices that lead to it, a key its node and algorithm.  A mnemonic is its *)
(* words and how they were typed, since that is what normalisation is about. *)
EXTENDS Integers, Sequences, FiniteSets

CONSTANTS
    Phrases, Passphrases,
    Typings,            \* how users may type them
    Nobody, Refused,    \* no key restored yet; an error was thrown
    HardenedOffset,     \* HARDENED_OFFSET
    Indices,            \* session indices a caller may ask for
    Accounts,           \* account, change and address index a caller may ask for
    MaxRecords

\* How the words are laid out: "padded" has white space around them,
\* "nextLine" U+0085 between them.  A passphrase may be in NFKD already.
Layouts == {"plain", "upper", "spaced", "padded", "nextLine"}

ASSUME WalletAssumption ==
    /\ HardenedOffset \in Nat /\ MaxRecords \in Nat
    /\ Indices \subseteq Int /\ Accounts \subseteq Int \X Int \X Int
    /\ Typings \subseteq [phrase : Phrases, layout : Layouts,
                          passphrase : Passphrases, decomposed : BOOLEAN]

VARIABLES
    records,        \* accountToRecord of what was derived, with its owner
    restored        \* the last key restored from a record, or Refused

walletVars == <<records, restored>>

Algorithms == {"ml-dsa-65", "slh-dsa-sha2-256f"}

-----------------------------------------------------------------------------
(* Seeds *)

\* Deliberate fault: white space around the words is kept.
Untrimmed(t) == IF t.layout = "padded" THEN <<t.phrase, t.layout>> ELSE <<t.phrase>>

\* normalizeMnemonic keeps the words only.
Normalized(t) == <<t.phrase>>

\* The previous release: empty first and last words become spaces, and U+0085
\* is no white space to a regular expression's \s.
NormalizedBefore(t) ==
    IF t.layout \in {"padded", "nextLine"} THEN <<t.phrase, t.layout>> ELSE <<t.phrase>>

MnemonicToSeed(t) == [text |-> Normalized(t), salt |-> <<t.passphrase, TRUE>>]

MnemonicToSeedLegacy(t) ==
    [text |-> NormalizedBefore(t), salt |-> <<t.passphrase, t.decomposed>>]

Seed(t, release) ==
    IF release = "current" THEN MnemonicToSeed(t) ELSE MnemonicToSeedLegacy(t)

-----------------------------------------------------------------------------
(* The tree, its leaves and paths *)

Derivable(index) == index \in 0 .. HardenedOffset - 1

\* masterNodeFromSeed, deriveChildNode and deriveAtPath; every index is hardened.
MasterNode(seed) == [seed |-> seed, indices |-> <<>>]

DeriveAtPath(node, components) ==
    [node EXCEPT !.indices =
        @ \o [i \in DOMAIN components |-> HardenedOffset + components[i]]]

\* Deliberate fault: one leaf key for both algorithms.
AlgorithmIgnored(node, algo) ==
    [node |-> node, algoId |-> IF algo = "ml-dsa-65" THEN 1 ELSE 1]

\* deriveMlDsa65Account and deriveSlhDsaAccount hash under keys of their own.
Leaf(node, algo) == [node |-> node, algoId |-> IF algo = "ml-dsa-65" THEN 1 ELSE 2]

\* A path as text: a number, what follows it, and the mark that hardens it.
Mark == "'"

FormatPath(components) ==
    [root |-> "m/",
     parts |-> [i \in DOMAIN components |->
                  [number |-> components[i], tail |-> "", mark |-> Mark]]]

Parses(path) ==
    /\ path.root = "m/"
    /\ \A i \in DOMAIN path.parts :
          path.parts[i].mark = Mark /\ Derivable(path.parts[i].number)

\* parseInt stops at the first character that is no digit, so a tail is lost.
ParsePath(path) == [i \in DOMAIN path.parts |-> path.parts[i].number]

-----------------------------------------------------------------------------

WalletInit == records = {} /\ restored = Nobody

\* Any index out of range makes the derivation throw.  A record is kept with
\* what its owner asked for and how the words were typed.
AllDerivable(components) == \A i \in DOMAIN components : Derivable(components[i])

Record(t, release, algo, asked, components) ==
    LET leaf == Leaf(DeriveAtPath(MasterNode(Seed(t, release)), components), algo)
    IN  [path |-> FormatPath(components), publicKey |-> leaf, algoId |-> leaf.algoId,
         asked |-> <<algo, asked>>, owner |-> t, release |-> release]

Derive(t, release, algo, asked, components) ==
    IF AllDerivable(components)
    THEN records' = records \cup {Record(t, release, algo, asked, components)}
         /\ UNCHANGED restored
    ELSE restored' = Refused /\ UNCHANGED records

\* deriveAccount
AccountPath(algo, account) ==
    <<9000, 8888, IF algo = "ml-dsa-65" THEN 1 ELSE 2, account[1], account[2], account[3]>>

\* Deliberate fault: the session keys of one seed share their first levels
\* only, the index being left out.
SessionSubtree(index) == <<1, 1>>

\* deriveSessionKey
SessionPath(index) == <<1, 1, index>>

DeriveAccount(t, release, algo, account) ==
    Derive(t, release, algo, account, AccountPath(algo, account))

DeriveSessionKey(t, release, algo, index) ==
    Derive(t, release, algo, <<index>>, SessionPath(index))

\* Path texts a user may copy from a record.
Copies(path) ==
    {path, [path EXCEPT !.root = ""],
     [path EXCEPT !.parts[Len(path.parts)].mark = ""],
     [path EXCEPT !.parts[Len(path.parts)].tail = "x"]}

\* parsePath, deriveAtPath and the leaf of the record's algorithm.
Restoration(r, path, t, release) ==
    [record |-> r, typed |-> t, release |-> release,
     publicKey |-> Leaf(DeriveAtPath(MasterNode(Seed(t, release)), ParsePath(path)),
                        IF r.algoId = 1 THEN "ml-dsa-65" ELSE "slh-dsa-sha2-256f")]

Restore(r, path, t, release) ==
    /\ restored' = IF Parses(path) THEN Restoration(r, path, t, release) ELSE Refused
    /\ UNCHANGED records

Releases == {"current", "legacy"}

WalletNext ==
    \/ /\ Cardinality(records) < MaxRecords
       /\ \E t \in Typings, release \in Releases, algo \in Algorithms :
             \/ \E a \in Accounts : DeriveAccount(t, release, algo, a)
             \/ \E i \in Indices : DeriveSessionKey(t, release, algo, i)
    \/ \E r \in records, t \in Typings, release \in Releases :
          \E path \in Copies(r.path) : Restore(r, path, t, release)

WalletSpec == WalletInit /\ [][WalletNext]_walletVars

-----------------------------------------------------------------------------

SameWords(t, u) == t.phrase = u.phrase /\ t.passphrase = u.passphrase

\* A typing that both releases read alike.
Canonical(t) == t.layout \in {"plain", "upper", "spaced"} /\ t.decomposed

\* The seeds that must be one: however they are typed for the current release;
\* as they were typed then for the previous one; canonical ones for both.
SameWallet(t, release, u, other) ==
    /\ SameWords(t, u)
    /\ \/ release = "current" /\ other = "current"
       \/ release = "legacy" /\ other = "legacy" /\ t = u
       \/ (release = "legacy" => Canonical(t)) /\ (other = "legacy" => Canonical(u))

\* A record and its owner's words are enough to have the key again: a record
\* restored from its path, or from a copy of it that parses, gives the recorded
\* key in the same wallet, however the words are typed this time, and another
\* key with any other words.  Two records share a key only if they are of one
\* request and one wallet: no session key is an account's, and no index or
\* algorithm repeats another's key.
RecordsRestore ==
    /\ restored \notin {Nobody, Refused} =>
         LET r == restored.record IN
         /\ SameWallet(r.owner, r.release, restored.typed, restored.release)
              => restored.publicKey = r.publicKey
         /\ restored.publicKey = r.publicKey => SameWords(r.owner, restored.typed)
    /\ \A r, s \in records : r.publicKey = s.publicKey =>
          r.asked = s.asked /\ SameWords(r.owner, s.owner)

=============================================================================
