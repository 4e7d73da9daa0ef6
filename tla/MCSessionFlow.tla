--------------------------- MODULE MCSessionFlow ---------------------------
(* Small instances of SessionFlow. *)
EXTENDS SessionFlow, TLC

CONSTANTS s1, s2, b1, b2, narrow, wide, mainnet, transfer, swap, dilithium3,
          mlDsa65

SessionBatch == [chain |-> mainnet, content |-> transfer, session |-> s1,
                 sponsored |-> FALSE]
SponsoredBatch == [chain |-> mainnet, content |-> swap, session |-> None,
                   sponsored |-> TRUE]
SponsoredSession == [chain |-> mainnet, content |-> swap, session |-> s2,
                     sponsored |-> TRUE]

MCRequests == {SessionBatch, SponsoredBatch, SponsoredSession}
OneSession == {SessionBatch}
PlainBatch == {[chain |-> mainnet, content |-> transfer, session |-> None,
                sponsored |-> FALSE]}

TermSymmetry == Permutations(Terms) \cup Permutations(Batches)

=============================================================================
