---------------------------- MODULE ArtifactStore ----------------------------
(***************************************************************************)
(* What the contract commands promise about artifact files: a command acts *)
(* on an artifact that one compilation published as a whole under the path *)
(* it was given, and on nothing else.  While a compilation replaces a file *)
(* there may be nothing to load, never a part of something.                *)
(***************************************************************************)
EXTENDS Sequences

CONSTANTS
    Paths,
    Commands,
    Artifacts,
    None                \* nothing to load, nothing loaded

VARIABLES
    published,          \* the artifact under each path
    held,               \* the artifact each command has loaded
    deployed            \* the artifacts of the contracts on chain

storeVars == <<published, held, deployed>>

StoreInit ==
    /\ published \in [Paths -> Artifacts \cup {None}]
    /\ held = [c \in Commands |-> None]
    /\ deployed = <<>>

Publish(p, a) ==
    /\ published' = [published EXCEPT ![p] = a]
    /\ UNCHANGED <<held, deployed>>

Withdraw(p) ==
    /\ published' = [published EXCEPT ![p] = None]
    /\ UNCHANGED <<held, deployed>>

Load(c, p) ==
    /\ published[p] # None
    /\ held' = [held EXCEPT ![c] = published[p]]
    /\ UNCHANGED <<published, deployed>>

Deploy(c) ==
    /\ held[c] # None
    /\ deployed' = Append(deployed, held[c])
    /\ UNCHANGED <<published, held>>

StoreNext ==
    \/ \E p \in Paths, a \in Artifacts : Publish(p, a)
    \/ \E p \in Paths : Withdraw(p)
    \/ \E c \in Commands, p \in Paths : Load(c, p)
    \/ \E c \in Commands : Deploy(c)

StoreSpec == StoreInit /\ [][StoreNext]_storeVars

=============================================================================
