----------------------------- MODULE ContractCli -----------------------------
(***************************************************************************)
(* The contract commands (src/src/cli.ts) and the artifact files they hand *)
(* to each other (src/src/contracts-compiler.ts).  Every command is a      *)
(* process of its own; several may run at once, over the same files, and   *)
(* any of them may stop between two steps: an error, or a killed process.  *)
(* An artifact is written in place: the file is truncated when it is       *)
(* opened, and filled afterwards.  smoke compiles, deploys, writes and     *)
(* reads in one process, and loads its own artifact anew for each step.    *)
(*                                                                         *)
(* The file system is external.  A file is what its first bytes are the    *)
(* whole of, if anything, and its size: filling a file that another        *)
(* process filled meanwhile with more leaves the rest of that behind, and  *)
(* such a file is not JSON.  An artifact fits into one write and one read  *)
(* (512 KiB).  The node is external too: a call may take effect although   *)
(* the command fails waiting for it; contracts are numbered.               *)
(*                                                                         *)
(* An artifact is named by the version of the sources it is compiled from; *)
(* the user edits the sources at any time.                                 *)
(***************************************************************************)
EXTENDS Integers, Sequences

CONSTANTS
    Paths,              \* of artifact files
    Commands,           \* processes
    Artifacts,          \* versions of the sources, and what they compile to
    Size,               \* of an artifact's file
    MaxContracts,       \* bound: deployments
    None

ASSUME SizeAssumption == Size \in [Artifacts -> Nat \ {0}]
ASSUME NoneAssumption == None \notin Artifacts
ASSUME BoundAssumption == MaxContracts \in Nat

\* What a command is to do.  smoke has both paths in one option, out.
Plans ==
    {<<"compile">>, <<"deploy">>, <<"write">>, <<"read">>}
      \cup {<<"compile", "deploy">> \o rest :
              rest \in {<<>>, <<"write">>, <<"read">>, <<"write", "read">>}}

Steps == {"compile", "deploy", "write", "read"}

CommandLines == [path : Paths, plan : Plans]

VARIABLES
    source,             \* the sources
    file,               \* artifact files
    line,               \* each command's command line
    todo,               \* the steps it has left, the current one first
    pc,                 \* its place in the current step, or how it ended
    compiled,           \* the artifact it compiled
    loaded,             \* the artifact it loaded last
    address,            \* the contract it deployed
    did,                \* what it has done on chain and with what
    deployed            \* the chain: the artifact of each contract

progress == <<todo, pc>>
memory == <<compiled, loaded, address>>
chain == <<did, deployed>>
vars == <<source, file, line, progress, memory, chain>>

Nothing == [first |-> None, size |-> 0]

\* JSON.parse accepts nothing but the text of one artifact.
Parses(f) == f.first # None /\ f.size = Size[f.first]

\* The first thing a step awaits that is not private to it.
Entry(step) == IF step = "compile" THEN "source" ELSE "load"

Init ==
    /\ source \in Artifacts
    /\ file \in [Paths -> {Nothing} \cup {[first |-> a, size |-> Size[a]] : a \in Artifacts}]
    /\ line \in [Commands -> CommandLines]
    /\ todo = [c \in Commands |-> line[c].plan]
    /\ pc = [c \in Commands |-> Entry(Head(todo[c]))]
    /\ compiled = [c \in Commands |-> None]
    /\ loaded = [c \in Commands |-> None]
    /\ address = [c \in Commands |-> None]
    /\ did = [c \in Commands |-> {}]
    /\ deployed = <<>>

At(c, step, place) == pc[c] = place /\ Head(todo[c]) = step

-----------------------------------------------------------------------------

\* The step is done: the next one of the plan, or exit 0.
StepDone(c) ==
    /\ todo' = [todo EXCEPT ![c] = Tail(@)]
    /\ pc' = [pc EXCEPT ![c] = IF Len(todo[c]) = 1 THEN "ok" ELSE Entry(todo[c][2])]

\* An error thrown anywhere is reported by main, and the exit code is 1: bad
\* options, solc, the keystore, the node.  Or the process is killed.
Stop(c) ==
    /\ pc[c] \notin {"ok", "failed"}
    /\ pc' = [pc EXCEPT ![c] = "failed"]
    /\ UNCHANGED <<source, file, line, todo, memory, chain>>

\* compileSolidity up to saveContractArtifact, with mkdir.
Compile(c) ==
    /\ At(c, "compile", "source")
    /\ compiled' = [compiled EXCEPT ![c] = source]
    /\ pc' = [pc EXCEPT ![c] = "open"]
    /\ UNCHANGED <<source, file, line, todo, loaded, address, chain>>

\* writeFile opens the file with flag w.
Truncate(c) ==
    /\ At(c, "compile", "open")
    /\ file' = [file EXCEPT ![line[c].path] = Nothing]
    /\ pc' = [pc EXCEPT ![c] = "fill"]
    /\ UNCHANGED <<source, line, todo, memory, chain>>

Larger(m, n) == IF m > n THEN m ELSE n

\* ... and writes from offset 0.
Fill(c) ==
    /\ At(c, "compile", "fill")
    /\ file' = [file EXCEPT ![line[c].path] =
                  [first |-> compiled[c], size |-> Larger(@.size, Size[compiled[c]])]]
    /\ StepDone(c)
    /\ UNCHANGED <<source, line, memory, chain>>

\* The disk is full, or the process is killed while it writes.
FillInterrupted(c) ==
    /\ At(c, "compile", "fill")
    /\ file' = [file EXCEPT ![line[c].path] = [first |-> None, size |-> Larger(@.size, 1)]]
    /\ pc' = [pc EXCEPT ![c] = "failed"]
    /\ UNCHANGED <<source, line, todo, memory, chain>>

\* Deliberate fault: what was compiled is used where the file does not parse.
LoadOrCompiled(c) ==
    /\ pc[c] = "load"
    /\ LET f == file[line[c].path]
       IN  IF Parses(f) \/ compiled[c] # None
           THEN /\ loaded' = [loaded EXCEPT ![c] = IF Parses(f) THEN f.first ELSE compiled[c]]
                /\ pc' = [pc EXCEPT ![c] = "send"]
           ELSE /\ pc' = [pc EXCEPT ![c] = "failed"]
                /\ UNCHANGED loaded
    /\ UNCHANGED <<source, file, line, todo, compiled, address, chain>>

\* loadContractArtifact, after loadSigner where the step needs one.
LoadArtifact(c) ==
    /\ pc[c] = "load"
    /\ LET f == file[line[c].path]
       IN  IF Parses(f)
           THEN /\ loaded' = [loaded EXCEPT ![c] = f.first]
                /\ pc' = [pc EXCEPT ![c] = "send"]
           ELSE /\ pc' = [pc EXCEPT ![c] = "failed"]
                /\ UNCHANGED loaded
    /\ UNCHANGED <<source, file, line, todo, compiled, address, chain>>

Done(c, step, at) == [step |-> step, address |-> at, artifact |-> loaded[c]]

\* Deliberate fault: without wait there is no receipt, and the address is "".
DeployUnwaited(c) ==
    /\ At(c, "deploy", "send")
    /\ Len(deployed) < MaxContracts
    /\ deployed' = Append(deployed, loaded[c])
    /\ address' = [address EXCEPT ![c] = 0]
    /\ did' = [did EXCEPT ![c] = @ \cup {Done(c, "deploy", 0)}]
    /\ StepDone(c)
    /\ UNCHANGED <<source, file, line, compiled, loaded>>

\* The contract is on chain; the command learns its address from the receipt, or
\* fails waiting for it.
Deploy(c) ==
    /\ At(c, "deploy", "send")
    /\ Len(deployed) < MaxContracts
    /\ deployed' = Append(deployed, loaded[c])
    /\ \/ /\ address' = [address EXCEPT ![c] = Len(deployed) + 1]
          /\ did' = [did EXCEPT ![c] = @ \cup {Done(c, "deploy", Len(deployed) + 1)}]
          /\ StepDone(c)
       \/ /\ pc' = [pc EXCEPT ![c] = "failed"]
          /\ UNCHANGED <<address, did, todo>>
    /\ UNCHANGED <<source, file, line, compiled, loaded>>

\* Deliberate fault: a write that is not acknowledged counts as done.
UnacknowledgedWrite(c) ==
    /\ pc[c] = "send" /\ Head(todo[c]) \in {"write", "read"}
    /\ \/ did' = [did EXCEPT ![c] = @ \cup {Done(c, Head(todo[c]), address[c])}]
       \/ UNCHANGED did
    /\ StepDone(c)
    /\ UNCHANGED <<source, file, line, memory, deployed>>

\* Deliberate fault: smoke talks to the contract deployed last.
LatestContract(c) ==
    /\ pc[c] = "send" /\ Head(todo[c]) \in {"write", "read"}
    /\ did' = [did EXCEPT ![c] = @ \cup {Done(c, Head(todo[c]), Len(deployed))}]
    /\ StepDone(c)
    /\ UNCHANGED <<source, file, line, memory, deployed>>

\* At the address of --address or, in smoke, of the contract just deployed.  A
\* write that takes effect although the command fails looks like Stop.
Interact(c) ==
    /\ pc[c] = "send" /\ Head(todo[c]) \in {"write", "read"}
    /\ did' = [did EXCEPT ![c] = @ \cup {Done(c, Head(todo[c]), address[c])}]
    /\ StepDone(c)
    /\ UNCHANGED <<source, file, line, memory, deployed>>

EditSource ==
    /\ source' \in Artifacts \ {source}
    /\ UNCHANGED <<file, line, progress, memory, chain>>

Next ==
    \/ \E c \in Commands :
         \/ Compile(c) \/ Truncate(c) \/ Fill(c) \/ FillInterrupted(c)
         \/ LoadArtifact(c)
         \/ Deploy(c) \/ Interact(c)
         \/ Stop(c)
    \/ EditSource

Spec == Init /\ [][Next]_vars

-----------------------------------------------------------------------------

\* Every variable keeps its type, and a command goes through its plan in order.
TypeOK ==
    /\ source \in Artifacts
    /\ file \in [Paths -> [first : Artifacts \cup {None}, size : Nat]]
    /\ line \in [Commands -> CommandLines]
    /\ pc \in [Commands -> {"source", "open", "fill", "load", "send", "ok", "failed"}]
    /\ todo \in [Commands -> Seq(Steps)]
    /\ \A c \in Commands :
         \E n \in 0 .. Len(line[c].plan) : todo[c] = SubSeq(line[c].plan, n + 1, Len(line[c].plan))
    /\ compiled \in [Commands -> Artifacts \cup {None}]
    /\ loaded \in [Commands -> Artifacts \cup {None}]
    /\ address \in [Commands -> (1 .. MaxContracts) \cup {None}]
    /\ did \in [Commands -> SUBSET [step : Steps \ {"compile"},
                                  address : (1 .. MaxContracts) \cup {None},
                                  artifact : Artifacts]]
    /\ deployed \in Seq(Artifacts)

Compiles(c) == Head(line[c].plan) = "compile"
Smokes(c) == Compiles(c) /\ Len(line[c].plan) > 1

\* Nobody else writes the file this command was given.
Private(c) ==
    \A d \in Commands \ {c} : Compiles(d) => line[d].path # line[c].path

\* smoke deploys what it compiled itself, and writes to and reads from that
\* very contract through that very ABI, although it goes through the file for
\* each step and the sources change; only its file must be its own (the default
\* of --out is one fixed name).
SmokeActsOnItsOwn ==
    \A c \in Commands : Smokes(c) /\ Private(c) =>
        \A d \in did[c] :
            /\ d.artifact = compiled[c]
            /\ d.address = address[c]
            /\ deployed[d.address] = compiled[c]

\* Exit 0 means that every step asked for was done, in whatever order other
\* commands, edits and failures come; for compile, that the artifact is in the
\* file unless somebody else wrote there.
OkMeansDone ==
    \A c \in Commands : pc[c] = "ok" =>
        /\ {d.step : d \in did[c]} =
             {line[c].plan[i] : i \in 1 .. Len(line[c].plan)} \ {"compile"}
        /\ Compiles(c) /\ Private(c) =>
             file[line[c].path] = [first |-> compiled[c], size |-> Size[compiled[c]]]

\* The contract commands implement ArtifactStore: what is published under a path
\* is what parses there.
Store ==
    INSTANCE ArtifactStore WITH
        published <- [p \in Paths |-> IF Parses(file[p]) THEN file[p].first ELSE None],
        held <- loaded

ImplementsStore == Store!StoreSpec

=============================================================================
