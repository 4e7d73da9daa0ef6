----------------------------- MODULE MCOffline ------------------------------
(* What the library computes: transactions (Builders), calls of contracts    *)
(* (ContractAbi), and the keys of the HD wallet (HdWallet).  They share      *)
(* nothing, so a behaviour is one of them.                                   *)
EXTENDS Builders, ContractAbi, HdWallet

CONSTANTS phrase1, phrase2, secret1, secret2, a1

VARIABLE part

NoTransaction == innerCalls = <<>> /\ tx = None /\ bundle = None /\ stage = "listing"

NoContract ==
    /\ abi = <<>> /\ call = Unset /\ callStage = "done"
    /\ data = Unset /\ ran = Unset /\ answered = Unset /\ result = Unset

NoWallet == records = {} /\ restored = Nobody

OfflineInit ==
    \/ part = "builders" /\ BuildersInit /\ NoContract /\ NoWallet
    \/ part = "contract" /\ NoTransaction /\ AbiInit /\ NoWallet
    \/ part = "wallet" /\ NoTransaction /\ NoContract /\ WalletInit

OfflineNext ==
    \/ part = "builders" /\ BuildersNext /\ UNCHANGED <<part, abiVars, walletVars>>
    \/ part = "contract" /\ AbiNext /\ UNCHANGED <<part, builderVars, walletVars>>
    \/ part = "wallet" /\ WalletNext /\ UNCHANGED <<part, builderVars, abiVars>>

OfflineSpec == OfflineInit /\ [][OfflineNext]_<<part, builderVars, abiVars, walletVars>>

\* Amounts and limits on both sides of every bound.
MCAmounts == {-1, 0, 8, 16}
MCGases == {-1, 0, 3, 8, 9, 10, 12, 13, 15}
MCFees == {-1, 0, 2, 3, 13}
MCIndices == {-1, 0, 9999, 10000}
MCAccounts == {<<0, 0, 0>>, <<0, 1, 0>>, <<9999, 0, 0>>, <<0, 0, 9999>>,
               <<-1, 0, 0>>, <<0, 0, 10000>>}

Typed(phrase, layout, passphrase, decomposed) ==
    [phrase |-> phrase, layout |-> layout, passphrase |-> passphrase,
     decomposed |-> decomposed]

\* A wallet typed in two ways, one with another passphrase, and one of other
\* words.
MCTypings ==
    {Typed(phrase1, "upper", secret1, TRUE), Typed(phrase1, "padded", secret1, FALSE),
     Typed(phrase1, "nextLine", secret2, TRUE),
     Typed(phrase2, "plain", secret1, TRUE)}

Address == Type("address", <<>>)
Uint == Type("uint256", <<>>)
Array(item) == Type("array", <<item>>)
Pair == Type("tuple", <<Address, Uint>>)

Entry(type, name, inputs, outputs) ==
    [type |-> type, name |-> name, inputs |-> inputs, outputs |-> outputs]

\* Overloads of one and of two parameters, with different results; arrays and
\* structures with addresses inside, and a constructor; types without addresses.
MCInterfaces ==
    {<<Entry("event", "f", <<Address, Uint, Uint>>, <<>>),
       Entry("function", "f", <<Address>>, <<Address>>),
       Entry("function", "f", <<Uint>>, <<Uint, Uint>>),
       Entry("function", "f", <<Address, Uint>>, <<Pair>>)>>,
     <<Entry("constructor", "", <<Array(Address)>>, <<>>),
       Entry("function", "f", <<Array(Pair)>>, <<Array(Address), Uint>>),
       Entry("function", "g", <<Pair, Address>>, <<>>)>>,
     <<Entry("constructor", "", <<Type("tuple", <<Pair>>), Uint>>, <<>>),
       Entry("function", "f", <<Array(Array(Address))>>, <<Array(Pair)>>)>>,
     <<Entry("function", "f", <<Uint>>, <<Array(Uint)>>)>>}

=============================================================================
