--------------------------- MODULE MCContractCli ---------------------------
(* Small instances of ContractCli: two versions, the second longer. *)
EXTENDS ContractCli, TLC

CONSTANTS c1, c2, p1, p2, short, long

MCSize == (short :> 1) @@ (long :> 2)

CliSymmetry == Permutations(Commands) \cup Permutations(Paths)

=============================================================================
