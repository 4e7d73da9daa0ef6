---------------------------- MODULE MCSubmission ----------------------------
(* Small instances of Submission. *)
EXTENDS Submission, TLC

CONSTANTS c1, c2, s1, s2, key, alice, x, y

\* Two signer objects over one adapter, as after handing a key to two parts of
\* a program.
MCAdapterOf == (s1 :> key) @@ (s2 :> key)
MCAccountOf == (s1 :> alice) @@ (s2 :> alice)

Deploy == [signer |-> s1, kind |-> "deploy", content |-> x, nonce |-> NoNonce,
           includeKey |-> "auto", wait |-> TRUE]
Write == [signer |-> s2, kind |-> "write", content |-> y, nonce |-> NoNonce,
          includeKey |-> "auto", wait |-> FALSE]
WriteAtZero == [signer |-> s2, kind |-> "write", content |-> y, nonce |-> 0,
                includeKey |-> "no", wait |-> FALSE]

MCOptions == {Deploy, Write, WriteAtZero}

CallSymmetry == Permutations(Calls)

=============================================================================
