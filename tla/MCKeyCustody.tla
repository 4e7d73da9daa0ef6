---------------------------- MODULE MCKeyCustody ----------------------------
(* Small instances of KeyCustody. *)
EXTENDS KeyCustody, TLC

CONSTANTS c1, c2, pk1, pk2, sk1, sk2, alice, bob, right, wrong

MCAddressOf == (pk1 :> alice) @@ (pk2 :> bob)
MCKeyPairs == (sk1 :> pk1) @@ (sk2 :> pk2)

File1 == [wellFormed |-> TRUE, declared |-> alice, public |-> pk1,
          secret |-> sk1, password |-> right]
File2 == [wellFormed |-> TRUE, declared |-> bob, public |-> pk2,
          secret |-> sk2, password |-> right]
Malformed == [File1 EXCEPT !.wellFormed = FALSE]
Misaddressed == [File1 EXCEPT !.declared = bob]

\* The public key of one account over the ciphertext of another.
Mixed == [File1 EXCEPT !.secret = sk2]

MCFiles == {File1, File2, Malformed, Misaddressed}
MixedFiles == {File1, Mixed}

CallSymmetry == Permutations(Calls)

=============================================================================
