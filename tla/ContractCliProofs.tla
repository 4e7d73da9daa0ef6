------------------------- MODULE ContractCliProofs --------------------------
(***************************************************************************)
(* Proofs about ContractCli, for any number of commands, paths, versions   *)
(* and deployments: its types, what smoke acts on, what exit 0 means, and  *)
(* that the commands implement ArtifactStore.                              *)
(***************************************************************************)
EXTENDS ContractCli, SequenceTheorems, TLAPS

\* How many steps of its plan a command has done.
Position(c) == Len(line[c].plan) - Len(todo[c])

-----------------------------------------------------------------------------

LEMMA PlanShape ==
    ASSUME NEW plan \in Plans
    PROVE  /\ plan \in Seq(Steps)
           /\ Len(plan) >= 1
           /\ Len(plan) > 1 => plan[1] = "compile" /\ plan[2] = "deploy"
           /\ \A i \in 2 .. Len(plan) : plan[i] # "compile"
           /\ \A i \in 3 .. Len(plan) : plan[i] # "deploy"
<1>1. CASE plan \in {<<"compile">>, <<"deploy">>, <<"write">>, <<"read">>}
  BY <1>1 DEF Steps
<1>2. ASSUME NEW rest \in {<<>>, <<"write">>, <<"read">>, <<"write", "read">>},
             plan = <<"compile", "deploy">> \o rest
      PROVE  /\ plan \in Seq(Steps)
             /\ Len(plan) >= 2
             /\ plan[1] = "compile" /\ plan[2] = "deploy"
             /\ \A i \in 3 .. Len(plan) : plan[i] \in {"write", "read"}
  <2> DEFINE first == <<"compile", "deploy">>
  <2>1. /\ first \in Seq(Steps) /\ Len(first) = 2
        /\ first[1] = "compile" /\ first[2] = "deploy"
    BY DEF Steps
  <2>2. rest \in Seq({"write", "read"})
    <3>1. CASE rest = <<>>
      BY <3>1
    <3>2. CASE rest = <<"write">>
      BY <3>2
    <3>3. CASE rest = <<"read">>
      BY <3>3
    <3>4. CASE rest = <<"write", "read">>
      BY <3>4
    <3> QED
      BY <3>1, <3>2, <3>3, <3>4
  <2>6. rest \in Seq(Steps)
    BY <2>2, SeqMonotonic DEF Steps
  <2>3. Len(rest) \in Nat /\ \A i \in 1 .. Len(rest) : rest[i] \in {"write", "read"}
    BY <2>2, LenProperties, ElementOfSeq
  <2> HIDE DEF first
  <2>4. /\ first \o rest \in Seq(Steps)
        /\ Len(first \o rest) = Len(first) + Len(rest)
        /\ \A i \in 1 .. Len(first) + Len(rest) :
              (first \o rest)[i] = IF i <= Len(first) THEN first[i] ELSE rest[i - Len(first)]
    BY <2>1, <2>6, ConcatProperties
  <2>5. plan = first \o rest
    BY <1>2 DEF first
  <2> QED
    BY <2>1, <2>3, <2>4, <2>5
<1> QED
  BY <1>1, <1>2 DEF Plans

\* The steps left are the plan from the current position on.
LEMMA Taken ==
    ASSUME TypeOK, NEW c \in Commands
    PROVE  /\ line[c] \in CommandLines
           /\ line[c].plan \in Plans
           /\ todo[c] \in Seq(Steps)
           /\ Len(todo[c]) \in Nat
           /\ Position(c) \in 0 .. Len(line[c].plan)
           /\ todo[c] = SubSeq(line[c].plan, Position(c) + 1, Len(line[c].plan))
<1> DEFINE plan == line[c].plan
<1>1. line[c] \in CommandLines /\ plan \in Plans /\ todo[c] \in Seq(Steps)
  BY DEF TypeOK, CommandLines
<1>2. plan \in Seq(Steps) /\ Len(plan) \in Nat /\ Len(todo[c]) \in Nat
  BY <1>1, PlanShape, LenProperties
<1>3. PICK n \in 0 .. Len(plan) : todo[c] = SubSeq(plan, n + 1, Len(plan))
  BY DEF TypeOK
<1>4. \A i \in n + 1 .. Len(plan) : plan[i] \in Steps
  BY <1>2, <1>3, ElementOfSeq
<1>5. Len(todo[c]) = Len(plan) - n
  BY <1>2, <1>3, <1>4, SubSeqProperties
<1>6. Position(c) = n
  BY <1>2, <1>3, <1>5 DEF Position
<1> QED
  BY <1>1, <1>2, <1>3, <1>6

LEMMA AtPosition ==
    ASSUME TypeOK, NEW c \in Commands, todo[c] # <<>>
    PROVE  /\ Position(c) \in 0 .. Len(line[c].plan) - 1
           /\ Head(todo[c]) = line[c].plan[Position(c) + 1]
           /\ Head(todo[c]) \in Steps
           /\ Tail(todo[c]) = SubSeq(line[c].plan, Position(c) + 2, Len(line[c].plan))
           /\ Tail(todo[c]) \in Seq(Steps)
           /\ Len(Tail(todo[c])) = Len(todo[c]) - 1
           /\ Len(todo[c]) > 1 => todo[c][2] = line[c].plan[Position(c) + 2]
<1> DEFINE plan == line[c].plan
           p == Position(c)
<1>1. /\ plan \in Seq(Steps) /\ Len(plan) \in Nat
      /\ p \in 0 .. Len(plan)
      /\ todo[c] \in Seq(Steps)
  BY Taken, PlanShape, LenProperties
<1>2. todo[c] = SubSeq(plan, p + 1, Len(plan))
  BY Taken
<1>3. Len(todo[c]) \in Nat \ {0}
  BY <1>1, EmptySeq
<1>4. p = Len(plan) - Len(todo[c])
  BY DEF Position
<1> HIDE DEF plan, p
<1>5. p \in 0 .. Len(plan) - 1
  BY <1>1, <1>3, <1>4
<1>6. /\ Head(SubSeq(plan, p + 1, Len(plan))) = plan[p + 1]
      /\ Tail(SubSeq(plan, p + 1, Len(plan))) = SubSeq(plan, p + 1 + 1, Len(plan))
  <2>1. p + 1 \in 1 .. Len(plan) /\ Len(plan) \in p + 1 .. Len(plan)
    BY <1>1, <1>5
  <2> QED
    BY <1>1, <2>1, HeadTailOfSubSeq
<1>7. /\ Head(todo[c]) \in Steps /\ Tail(todo[c]) \in Seq(Steps)
      /\ Len(Tail(todo[c])) = Len(todo[c]) - 1
  BY <1>1, HeadTailProperties
<1>8. \A i \in 1 .. Len(plan) - (p + 1) + 1 :
         SubSeq(plan, p + 1, Len(plan))[i] = plan[p + 1 + i - 1]
  <2>1. \A i \in p + 1 .. Len(plan) : plan[i] \in Steps
    BY <1>1, ElementOfSeq
  <2> QED
    BY <1>1, <2>1, SubSeqProperties
<1>9. Len(todo[c]) > 1 => todo[c][2] = plan[p + 2]
  <2> SUFFICES ASSUME Len(todo[c]) > 1 PROVE todo[c][2] = plan[p + 2]
    OBVIOUS
  <2>1. 2 \in 1 .. Len(plan) - (p + 1) + 1 /\ p + 1 + 2 - 1 = p + 2
    BY <1>1, <1>3, <1>4
  <2> QED
    BY <1>2, <1>8, <2>1
<1>10. p + 1 + 1 = p + 2
  BY <1>1
<1> QED
  BY <1>2, <1>5, <1>6, <1>7, <1>9, <1>10 DEF plan, p

-----------------------------------------------------------------------------

\* A command is in the step its place says.
Control(c) ==
    /\ pc[c] \in {"source", "open", "fill"} => todo[c] # <<>> /\ Head(todo[c]) = "compile"
    /\ pc[c] \in {"load", "send"} => todo[c] # <<>> /\ Head(todo[c]) # "compile"
    /\ pc[c] = "ok" => todo[c] = <<>>

\* It has in memory what the rest of the step is about.
Holding(c) ==
    /\ pc[c] \in {"open", "fill"} => compiled[c] \in Artifacts
    /\ pc[c] = "send" => loaded[c] \in Artifacts

\* A file of its own is empty when it is filled, and holds the artifact after.
OwnFile(c) ==
    Compiles(c) /\ Private(c) =>
        /\ pc[c] = "fill" => file[line[c].path] = Nothing
        /\ Position(c) >= 1 =>
             /\ compiled[c] \in Artifacts
             /\ file[line[c].path] = [first |-> compiled[c], size |-> Size[compiled[c]]]

\* What it did is what it has behind it.
Account(c) ==
    {d.step : d \in did[c]} = {line[c].plan[i] : i \in 1 .. Position(c)} \ {"compile"}

\* smoke with a file of its own, before and after its deployment.
OwnContract(c) ==
    Smokes(c) /\ Private(c) =>
        /\ pc[c] = "send" => loaded[c] = compiled[c]
        /\ Position(c) < 2 => did[c] = {}
        /\ Position(c) >= 2 =>
             address[c] \in 1 .. Len(deployed) /\ deployed[address[c]] = compiled[c]
        /\ \A d \in did[c] : d.artifact = compiled[c] /\ d.address = address[c]

CommandInv(c) == Control(c) /\ Holding(c) /\ OwnFile(c) /\ Account(c) /\ OwnContract(c)

IInv ==
    /\ TypeOK
    /\ Len(deployed) <= MaxContracts
    /\ \A c \in Commands : CommandInv(c)

-----------------------------------------------------------------------------

\* Where in its plan a command is, by the step it is in.
LEMMA Whereabouts ==
    ASSUME TypeOK, NEW c \in Commands, todo[c] # <<>>
    PROVE  /\ Head(todo[c]) = "compile" => Compiles(c) /\ Position(c) = 0
           /\ Head(todo[c]) # "compile" /\ Compiles(c) => Smokes(c) /\ Position(c) >= 1
           /\ Head(todo[c]) = "deploy" /\ Smokes(c) => Position(c) = 1
           /\ Head(todo[c]) \in {"write", "read"} /\ Smokes(c) => Position(c) >= 2
<1> DEFINE plan == line[c].plan
           p == Position(c)
<1>1. /\ p \in 0 .. Len(plan) - 1 /\ Head(todo[c]) = plan[p + 1]
  BY AtPosition
<1>2. /\ plan \in Seq(Steps) /\ Len(plan) \in Nat /\ Len(plan) >= 1
      /\ Len(plan) > 1 => plan[1] = "compile" /\ plan[2] = "deploy"
      /\ \A i \in 2 .. Len(plan) : plan[i] # "compile"
      /\ \A i \in 3 .. Len(plan) : plan[i] # "deploy"
  BY Taken, PlanShape, LenProperties
<1>3. Head(plan) = plan[1]
  BY <1>2
<1> HIDE DEF p
<1>4. Compiles(c) <=> plan[1] = "compile"
  BY <1>3 DEF Compiles
<1>5. Smokes(c) <=> Compiles(c) /\ Len(plan) > 1
  BY DEF Smokes
<1> HIDE DEF plan
<1>6. p = 0 \/ p + 1 \in 2 .. Len(plan)
  BY <1>1, <1>2
<1>7. Head(todo[c]) = "compile" => Compiles(c) /\ p = 0
  BY <1>1, <1>2, <1>4, <1>6
<1>8. Head(todo[c]) # "compile" /\ Compiles(c) => Smokes(c) /\ p >= 1
  BY <1>1, <1>2, <1>4, <1>5, <1>6
<1>9. p = 0 \/ p = 1 \/ p + 1 \in 3 .. Len(plan)
  BY <1>1, <1>2
<1>10. Head(todo[c]) = "deploy" /\ Smokes(c) => p = 1
  BY <1>1, <1>2, <1>4, <1>5, <1>9
<1>11. Head(todo[c]) \in {"write", "read"} /\ Smokes(c) => p >= 2
  BY <1>1, <1>2, <1>4, <1>5, <1>9
<1> QED
  BY <1>7, <1>8, <1>10, <1>11 DEF p

\* A command keeps its invariant while others work, and when it only fails.
LEMMA Untouched ==
    ASSUME IInv, NEW d \in Commands,
           line' = line, todo'[d] = todo[d],
           pc'[d] = pc[d] \/ pc'[d] = "failed",
           compiled'[d] = compiled[d], loaded'[d] = loaded[d],
           address'[d] = address[d], did'[d] = did[d],
           \/ file'[line[d].path] = file[line[d].path]
           \/ ~(Compiles(d) /\ Private(d))
           \/ pc'[d] = "failed" /\ Position(d) = 0,
           deployed' = deployed \/ \E a \in Artifacts : deployed' = Append(deployed, a)
    PROVE  CommandInv(d)'
<1>1. CommandInv(d) /\ deployed \in Seq(Artifacts) /\ Position(d) \in Nat
  BY Taken DEF IInv, TypeOK
<1>2. /\ Position(d)' = Position(d)
      /\ Compiles(d)' <=> Compiles(d)
      /\ Smokes(d)' <=> Smokes(d)
      /\ Private(d)' <=> Private(d)
  BY DEF Position, Compiles, Smokes, Private
<1>3. Control(d)' /\ Holding(d)'
  BY <1>1 DEF CommandInv, Control, Holding
<1>4. OwnFile(d)'
  BY <1>1, <1>2 DEF CommandInv, OwnFile
<1>5. Account(d)'
  BY <1>1, <1>2 DEF CommandInv, Account
<1>6. Len(deployed)' >= Len(deployed) /\ Len(deployed) \in Nat /\ Len(deployed)' \in Nat
  BY <1>1
<1>7. \A i \in 1 .. Len(deployed) : deployed'[i] = deployed[i]
  BY <1>1
<1>8. OwnContract(d)'
  BY <1>1, <1>2, <1>6, <1>7 DEF CommandInv, OwnContract
<1> QED
  BY <1>3, <1>4, <1>5, <1>8 DEF CommandInv

\* The step that is done moves behind the command.
LEMMA Advance ==
    ASSUME TypeOK, NEW c \in Commands, todo[c] # <<>>, StepDone(c), line' = line
    PROVE  /\ todo' \in [Commands -> Seq(Steps)]
           /\ \A d \in Commands :
                \E n \in 0 .. Len(line[d].plan) :
                   todo'[d] = SubSeq(line[d].plan, n + 1, Len(line[d].plan))
           /\ pc' \in [Commands -> {"source", "open", "fill", "load", "send", "ok", "failed"}]
           /\ pc'[c] \in {"load", "ok"}
           /\ \A d \in Commands \ {c} : todo'[d] = todo[d] /\ pc'[d] = pc[d]
           /\ Position(c)' = Position(c) + 1
           /\ Position(c) \in Nat
           /\ Control(c)'
<1> DEFINE plan == line[c].plan
           p == Position(c)
<1>1. /\ p \in 0 .. Len(plan) - 1
      /\ Tail(todo[c]) = SubSeq(plan, p + 2, Len(plan))
      /\ Tail(todo[c]) \in Seq(Steps)
      /\ Len(Tail(todo[c])) = Len(todo[c]) - 1
      /\ Len(todo[c]) > 1 => todo[c][2] = plan[p + 2]
  BY AtPosition
<1>2. todo \in [Commands -> Seq(Steps)]
      /\ pc \in [Commands -> {"source", "open", "fill", "load", "send", "ok", "failed"}]
  BY DEF TypeOK
<1>3. /\ Len(plan) \in Nat /\ Len(todo[c]) \in Nat \ {0}
      /\ \A i \in 2 .. Len(plan) : plan[i] # "compile"
  BY Taken, PlanShape, LenProperties, EmptySeq
<1>4. /\ todo' = [todo EXCEPT ![c] = Tail(@)]
      /\ pc' = [pc EXCEPT ![c] = IF Len(todo[c]) = 1 THEN "ok" ELSE Entry(todo[c][2])]
  BY DEF StepDone
<1>5. todo'[c] = Tail(todo[c]) /\ todo' \in [Commands -> Seq(Steps)]
  BY <1>1, <1>2, <1>4
<1>6. p = Len(plan) - Len(todo[c]) /\ Position(c)' = Len(plan) - Len(todo'[c])
  BY DEF Position
<1> HIDE DEF p, plan
<1>14. Len(todo[c]) \in Nat /\ Len(todo[c]) >= 1 /\ Len(plan) \in Nat
  BY <1>3
<1>16. Len(todo[c]) = 1 \/ Len(todo[c]) > 1
  <2> DEFINE t == Len(todo[c])
  <2>1. t \in Nat /\ t >= 1
    BY <1>14
  <2> HIDE DEF t
  <2>2. t = 1 \/ t > 1
    BY <2>1
  <2> QED
    BY <2>2 DEF t
<1>15. Len(todo'[c]) = Len(todo[c]) - 1
  BY <1>1, <1>5
<1>7. Position(c)' = p + 1 /\ p \in Nat
  <2>1. p \in Nat
    BY <1>1, <1>14
  <2> QED
    BY <1>6, <1>14, <1>15, <2>1
<1>8. Len(todo[c]) # 1 => todo[c][2] # "compile"
  <2> SUFFICES ASSUME Len(todo[c]) # 1 PROVE todo[c][2] # "compile"
    OBVIOUS
  <2>1. p + 2 \in 2 .. Len(plan) /\ Len(todo[c]) > 1
    BY <1>6, <1>7, <1>14, <1>16
  <2> QED
    BY <1>1, <1>3, <2>1
<1>9. pc'[c] = IF Len(todo[c]) = 1 THEN "ok" ELSE "load"
  BY <1>2, <1>4, <1>8 DEF Entry
<1>10. pc' \in [Commands -> {"source", "open", "fill", "load", "send", "ok", "failed"}]
  BY <1>2, <1>4, <1>8 DEF Entry
<1>11. \A d \in Commands \ {c} : todo'[d] = todo[d] /\ pc'[d] = pc[d]
  BY <1>2, <1>4
<1>12. Control(c)'
  <2>1. CASE Len(todo[c]) = 1
    <3>1. todo'[c] = <<>>
      BY <1>1, <1>5, <2>1, EmptySeq
    <3> QED
      BY <1>9, <2>1, <3>1 DEF Control
  <2>2. CASE Len(todo[c]) # 1
    <3>1. Len(todo'[c]) >= 1 /\ todo'[c] \in Seq(Steps)
      <4>1. todo'[c] \in Seq(Steps)
        BY <1>1, <1>5
      <4>2. Len(todo'[c]) >= 1
        BY <1>14, <1>15, <1>16, <2>2
      <4> QED
        BY <4>1, <4>2
    <3>2. todo'[c] # <<>>
      BY <3>1, EmptySeq
    <3>3. todo'[c][1] = todo[c][2]
      <4>1. todo[c] \in Seq(Steps)
        BY <1>2
      <4>2. 1 \in 1 .. Len(Tail(todo[c]))
        BY <1>3, <1>5, <3>1
      <4> QED
        BY <1>5, <4>1, <4>2, HeadTailProperties
    <3>4. Head(todo'[c]) # "compile"
      BY <1>8, <2>2, <3>1, <3>3
    <3> QED
      BY <1>9, <2>2, <3>2, <3>4 DEF Control
  <2> QED
    BY <2>1, <2>2
<1>13. \A d \in Commands :
         \E n \in 0 .. Len(line[d].plan) :
            todo'[d] = SubSeq(line[d].plan, n + 1, Len(line[d].plan))
  <2>1. \A d \in Commands \ {c} :
          \E n \in 0 .. Len(line[d].plan) :
             todo'[d] = SubSeq(line[d].plan, n + 1, Len(line[d].plan))
    BY <1>11 DEF TypeOK
  <2>2. p + 1 \in 0 .. Len(plan) /\ p + 2 = p + 1 + 1
    BY <1>1, <1>3
  <2>3. \E n \in 0 .. Len(plan) : todo'[c] = SubSeq(plan, n + 1, Len(plan))
    BY <1>1, <1>5, <2>2
  <2> QED
    BY <2>1, <2>3 DEF plan
<1> QED
  BY <1>5, <1>7, <1>9, <1>10, <1>11, <1>12, <1>13 DEF p

-----------------------------------------------------------------------------

LEMMA InitInv == Init => IInv
<1> SUFFICES ASSUME Init PROVE IInv
  OBVIOUS
<1>1. \A c \in Commands : /\ line[c] \in CommandLines /\ line[c].plan \in Plans
                          /\ line[c].plan \in Seq(Steps) /\ Len(line[c].plan) \in Nat
                          /\ Len(line[c].plan) >= 1
                          /\ todo[c] = line[c].plan
                          /\ Position(c) = 0
  <2> TAKE c \in Commands
  <2>1. line[c] \in CommandLines /\ line[c].plan \in Plans
    BY DEF Init, CommandLines
  <2>2. /\ line[c].plan \in Seq(Steps) /\ Len(line[c].plan) \in Nat
        /\ Len(line[c].plan) >= 1
    BY <2>1, PlanShape, LenProperties
  <2>3. todo[c] = line[c].plan
    BY DEF Init
  <2> QED
    BY <2>1, <2>2, <2>3 DEF Position
<1>2. TypeOK
  <2>1. file \in [Paths -> [first : Artifacts \cup {None}, size : Nat]]
    BY SizeAssumption DEF Init, Nothing
  <2>2. todo \in [Commands -> Seq(Steps)]
    BY <1>1 DEF Init
  <2>3. pc \in [Commands -> {"source", "open", "fill", "load", "send", "ok", "failed"}]
    BY DEF Init, Entry
  <2>4. \A c \in Commands :
          \E n \in 0 .. Len(line[c].plan) : todo[c] = SubSeq(line[c].plan, n + 1, Len(line[c].plan))
    <3> TAKE c \in Commands
    <3>1. 0 \in 0 .. Len(line[c].plan) /\ 0 + 1 = 1
      BY <1>1
    <3>2. todo[c] = SubSeq(line[c].plan, 1, Len(line[c].plan))
      BY <1>1, SubSeqFull
    <3> QED
      BY <3>1, <3>2
  <2> QED
    BY <2>1, <2>2, <2>3, <2>4 DEF Init, TypeOK
<1>3. Len(deployed) <= MaxContracts
  BY BoundAssumption DEF Init
<1>4. ASSUME NEW c \in Commands PROVE CommandInv(c)
  <2>1. todo[c] # <<>>
    BY <1>1, EmptySeq
  <2>2. pc[c] = Entry(Head(todo[c])) /\ did[c] = {} /\ Position(c) = 0
    BY <1>1 DEF Init
  <2>3. Control(c) /\ Holding(c)
    BY <2>1, <2>2 DEF Control, Holding, Entry
  <2>4. OwnFile(c) /\ OwnContract(c)
    BY <2>2 DEF OwnFile, OwnContract, Entry
  <2>5. Account(c)
    BY <2>2 DEF Account
  <2> QED
    BY <2>3, <2>4, <2>5 DEF CommandInv
<1> QED
  BY <1>2, <1>3, <1>4 DEF IInv

\* A step of a command whose plan stays where it is.
LEMMA StaysOnPlan ==
    ASSUME IInv, todo' = todo, line' = line
    PROVE  \A d \in Commands :
             /\ Position(d)' = Position(d)
             /\ Position(d) \in Nat
             /\ Compiles(d)' <=> Compiles(d)
             /\ Smokes(d)' <=> Smokes(d)
             /\ Private(d)' <=> Private(d)
<1> TAKE d \in Commands
<1>1. Position(d) \in Nat
  BY Taken DEF IInv
<1>2. Position(d)' = Position(d)
  BY DEF Position
<1>3. /\ Compiles(d)' <=> Compiles(d)
      /\ Smokes(d)' <=> Smokes(d)
      /\ Private(d)' <=> Private(d)
  BY DEF Compiles, Smokes, Private
<1> QED
  BY <1>1, <1>2, <1>3

LEMMA StopInv ==
    ASSUME IInv, NEW c \in Commands, Stop(c)
    PROVE  IInv'
<1>1. TypeOK' /\ Len(deployed)' <= MaxContracts
  BY DEF Stop, IInv, TypeOK, memory, chain
<1>2. ASSUME NEW d \in Commands PROVE CommandInv(d)'
  BY <1>2, Untouched DEF Stop, IInv, TypeOK, memory, chain
<1> QED
  BY <1>1, <1>2 DEF IInv

LEMMA EditSourceInv ==
    ASSUME IInv, EditSource
    PROVE  IInv'
<1>1. TypeOK' /\ Len(deployed)' <= MaxContracts
  BY DEF EditSource, IInv, TypeOK, progress, memory, chain
<1>2. ASSUME NEW d \in Commands PROVE CommandInv(d)'
  BY <1>2, Untouched DEF EditSource, progress, memory, chain
<1> QED
  BY <1>1, <1>2 DEF IInv

LEMMA CompileInv ==
    ASSUME IInv, NEW c \in Commands, Compile(c)
    PROVE  IInv'
<1>1. TypeOK' /\ Len(deployed)' <= MaxContracts
  BY DEF Compile, At, IInv, TypeOK, chain
<1>2. ASSUME NEW d \in Commands \ {c} PROVE CommandInv(d)'
  BY <1>2, Untouched DEF Compile, IInv, TypeOK, chain
<1>3. CommandInv(c)'
  <2>1. /\ todo[c] # <<>> /\ Head(todo[c]) = "compile" /\ CommandInv(c)
        /\ compiled'[c] \in Artifacts /\ pc'[c] = "open"
    BY DEF Compile, At, IInv, CommandInv, Control, TypeOK
  <2>2. Position(c) = 0
    BY <2>1, Whereabouts DEF IInv
  <2>3. /\ Position(c)' = 0
        /\ Smokes(c)' <=> Smokes(c)
        /\ Private(c)' <=> Private(c)
    BY <2>2, StaysOnPlan DEF Compile
  <2>4. Control(c)' /\ Holding(c)' /\ OwnFile(c)'
    BY <2>1, <2>3 DEF Compile, Control, Holding, OwnFile
  <2>5. Account(c)'
    BY <2>1, <2>2, <2>3 DEF Compile, CommandInv, Account, chain
  <2>6. OwnContract(c)'
    BY <2>1, <2>2, <2>3 DEF Compile, CommandInv, OwnContract, chain
  <2> QED
    BY <2>4, <2>5, <2>6 DEF CommandInv
<1> QED
  BY <1>1, <1>2, <1>3 DEF IInv

\* Who writes a file compiles, so nobody else's own file is written.
LEMMA OthersFiles ==
    ASSUME IInv, NEW c \in Commands, NEW d \in Commands \ {c},
           todo[c] # <<>>, Head(todo[c]) = "compile",
           NEW f, file' = [file EXCEPT ![line[c].path] = f]
    PROVE  \/ file'[line[d].path] = file[line[d].path]
           \/ ~(Compiles(d) /\ Private(d))
<1>1. Compiles(c)
  BY Whereabouts DEF IInv
<1>2. line[d].path \in Paths /\ file \in [Paths -> [first : Artifacts \cup {None}, size : Nat]]
  BY Taken DEF IInv, CommandLines, TypeOK
<1> QED
  BY <1>1, <1>2 DEF Private

LEMMA TruncateInv ==
    ASSUME IInv, NEW c \in Commands, Truncate(c)
    PROVE  IInv'
<1>1. /\ todo[c] # <<>> /\ Head(todo[c]) = "compile" /\ CommandInv(c)
      /\ line[c].path \in Paths /\ pc[c] = "open"
  BY Taken DEF Truncate, At, IInv, CommandInv, Control, CommandLines
<1>2. file'[line[c].path] = Nothing /\ pc'[c] = "fill"
  BY <1>1 DEF Truncate, IInv, TypeOK
<1>3. TypeOK' /\ Len(deployed)' <= MaxContracts
  BY <1>1 DEF Truncate, IInv, TypeOK, memory, chain, Nothing
<1>4. ASSUME NEW d \in Commands \ {c} PROVE CommandInv(d)'
  <2>1. file' = [file EXCEPT ![line[c].path] = Nothing] /\ pc'[d] = pc[d]
    BY DEF Truncate, IInv, TypeOK
  <2>2. \/ file'[line[d].path] = file[line[d].path]
        \/ ~(Compiles(d) /\ Private(d))
    BY <1>1, <2>1, OthersFiles
  <2> QED
    BY <2>1, <2>2, Untouched DEF Truncate, memory, chain
<1>5. CommandInv(c)'
  <2>1. Position(c) = 0
    BY <1>1, Whereabouts DEF IInv
  <2>2. /\ Position(c)' = 0
        /\ Smokes(c)' <=> Smokes(c)
        /\ Private(c)' <=> Private(c)
    BY <2>1, StaysOnPlan DEF Truncate
  <2>3. Control(c)' /\ Holding(c)' /\ OwnFile(c)'
    BY <1>1, <1>2, <2>2 DEF Truncate, CommandInv, Control, Holding, OwnFile, memory
  <2>4. Account(c)' /\ OwnContract(c)'
    BY <1>1, <1>2, <2>1, <2>2 DEF Truncate, CommandInv, Account, OwnContract, memory, chain
  <2> QED
    BY <2>3, <2>4 DEF CommandInv
<1> QED
  BY <1>3, <1>4, <1>5 DEF IInv

LEMMA FillInterruptedInv ==
    ASSUME IInv, NEW c \in Commands, FillInterrupted(c)
    PROVE  IInv'
<1>1. /\ todo[c] # <<>> /\ Head(todo[c]) = "compile"
      /\ line[c].path \in Paths
  BY Taken DEF FillInterrupted, At, IInv, CommandInv, Control, CommandLines
<1> DEFINE f == [first |-> None, size |-> Larger(file[line[c].path].size, 1)]
<1>2. file' = [file EXCEPT ![line[c].path] = f]
  BY <1>1 DEF FillInterrupted, IInv, TypeOK
<1>3. f \in [first : Artifacts \cup {None}, size : Nat]
  BY <1>1 DEF IInv, TypeOK, Larger
<1> HIDE DEF f
<1>4. TypeOK' /\ Len(deployed)' <= MaxContracts
  BY <1>1, <1>2, <1>3 DEF FillInterrupted, IInv, TypeOK, memory, chain
<1>5. ASSUME NEW d \in Commands \ {c} PROVE CommandInv(d)'
  <2>1. pc'[d] = pc[d]
    BY DEF FillInterrupted, IInv, TypeOK
  <2>2. \/ file'[line[d].path] = file[line[d].path]
        \/ ~(Compiles(d) /\ Private(d))
    BY <1>1, <1>2, OthersFiles
  <2> QED
    BY <2>1, <2>2, Untouched DEF FillInterrupted, memory, chain
<1>6. CommandInv(c)'
  <2>1. Position(c) = 0
    BY <1>1, Whereabouts DEF IInv
  <2>2. pc'[c] = "failed"
    BY DEF FillInterrupted, IInv, TypeOK
  <2> QED
    BY <2>1, <2>2, Untouched DEF FillInterrupted, memory, chain
<1> QED
  BY <1>4, <1>5, <1>6 DEF IInv

LEMMA FillInv ==
    ASSUME IInv, NEW c \in Commands, Fill(c)
    PROVE  IInv'
<1>1. /\ todo[c] # <<>> /\ Head(todo[c]) = "compile" /\ CommandInv(c)
      /\ line[c].path \in Paths /\ pc[c] = "fill" /\ compiled[c] \in Artifacts
  BY Taken DEF Fill, At, IInv, CommandInv, Control, Holding, CommandLines
<1>2. Position(c) = 0 /\ Compiles(c)
  BY <1>1, Whereabouts DEF IInv
<1> DEFINE f == [first |-> compiled[c],
                 size |-> Larger(file[line[c].path].size, Size[compiled[c]])]
<1>3. file' = [file EXCEPT ![line[c].path] = f] /\ file'[line[c].path] = f
  BY <1>1 DEF Fill, IInv, TypeOK
<1>4. f \in [first : Artifacts \cup {None}, size : Nat]
  BY <1>1, SizeAssumption DEF IInv, TypeOK, Larger
<1>5. /\ todo' \in [Commands -> Seq(Steps)]
      /\ \A d \in Commands :
           \E n \in 0 .. Len(line[d].plan) :
              todo'[d] = SubSeq(line[d].plan, n + 1, Len(line[d].plan))
      /\ pc' \in [Commands -> {"source", "open", "fill", "load", "send", "ok", "failed"}]
      /\ pc'[c] \in {"load", "ok"}
      /\ \A d \in Commands \ {c} : todo'[d] = todo[d] /\ pc'[d] = pc[d]
      /\ Position(c)' = Position(c) + 1
      /\ Control(c)'
  BY <1>1, Advance DEF Fill, IInv
<1>6. Private(c) => f = [first |-> compiled[c], size |-> Size[compiled[c]]]
  BY <1>1, <1>2, SizeAssumption DEF CommandInv, OwnFile, Nothing, Larger
<1> HIDE DEF f
<1>7. TypeOK' /\ Len(deployed)' <= MaxContracts
  BY <1>1, <1>3, <1>4, <1>5 DEF Fill, IInv, TypeOK, memory, chain
<1>8. ASSUME NEW d \in Commands \ {c} PROVE CommandInv(d)'
  <2>1. \/ file'[line[d].path] = file[line[d].path]
        \/ ~(Compiles(d) /\ Private(d))
    BY <1>1, <1>3, OthersFiles
  <2> QED
    BY <1>5, <2>1, Untouched DEF Fill, memory, chain
<1>9. CommandInv(c)'
  <2>1. /\ Position(c)' = 1
        /\ Compiles(c)' <=> Compiles(c)
        /\ Smokes(c)' <=> Smokes(c)
        /\ Private(c)' <=> Private(c)
    BY <1>2, <1>5 DEF Fill, Compiles, Smokes, Private
  <2>2. Holding(c)'
    BY <1>5 DEF Holding
  <2>3. OwnFile(c)'
    BY <1>1, <1>3, <1>5, <1>6, <2>1 DEF Fill, OwnFile, memory
  <2>4. Account(c)'
    <3>1. line[c].plan[1] = "compile" /\ {d.step : d \in did[c]} = {}
      <4>1. line[c].plan \in Seq(Steps) /\ Len(line[c].plan) >= 1
        BY Taken, PlanShape DEF IInv
      <4>2. {d.step : d \in did[c]} = {line[c].plan[i] : i \in 1 .. 0} \ {"compile"}
        BY <1>1, <1>2 DEF CommandInv, Account
      <4>3. line[c].plan[1] = "compile"
        BY <1>2, <4>1 DEF Compiles
      <4>4. {line[c].plan[i] : i \in 1 .. 0} \ {"compile"} = {}
        OBVIOUS
      <4> QED
        BY <4>2, <4>3, <4>4
    <3>2. {line[c].plan[i] : i \in 1 .. 1} \ {"compile"} = {}
      BY <3>1
    <3> QED
      BY <2>1, <3>1, <3>2 DEF Fill, Account, chain
  <2>5. OwnContract(c)'
    BY <1>1, <1>2, <1>5, <2>1 DEF Fill, CommandInv, OwnContract, memory, chain
  <2> QED
    BY <1>5, <2>2, <2>3, <2>4, <2>5 DEF CommandInv
<1> QED
  BY <1>7, <1>8, <1>9 DEF IInv

LEMMA LoadArtifactInv ==
    ASSUME IInv, NEW c \in Commands, LoadArtifact(c)
    PROVE  IInv'
<1> DEFINE f == file[line[c].path]
<1>1. /\ todo[c] # <<>> /\ Head(todo[c]) # "compile" /\ CommandInv(c)
      /\ line[c].path \in Paths
  BY Taken DEF LoadArtifact, IInv, CommandInv, Control, CommandLines
<1>2. CASE Parses(f)
  <2>1. /\ loaded' = [loaded EXCEPT ![c] = f.first]
        /\ pc' = [pc EXCEPT ![c] = "send"]
        /\ UNCHANGED <<source, file, line, todo, compiled, address, did, deployed>>
    BY <1>2 DEF LoadArtifact, chain
  <2>2. f.first \in Artifacts
    BY <1>1, <1>2 DEF Parses, IInv, TypeOK
  <2>3. TypeOK' /\ Len(deployed)' <= MaxContracts
    BY <2>1, <2>2 DEF IInv, TypeOK
  <2>4. ASSUME NEW d \in Commands \ {c} PROVE CommandInv(d)'
    <3>1. pc'[d] = pc[d] /\ loaded'[d] = loaded[d]
      BY <2>1 DEF IInv, TypeOK
    <3> QED
      BY <2>1, <3>1, Untouched
  <2>5. CommandInv(c)'
    <3>1. pc'[c] = "send" /\ loaded'[c] = f.first
      BY <2>1 DEF IInv, TypeOK
    <3>2. /\ Position(c)' = Position(c)
          /\ Position(c) \in Nat
          /\ Compiles(c)' <=> Compiles(c)
          /\ Smokes(c)' <=> Smokes(c)
          /\ Private(c)' <=> Private(c)
      BY <2>1, StaysOnPlan
    <3>3. Control(c)' /\ Holding(c)' /\ OwnFile(c)' /\ Account(c)'
      BY <1>1, <2>1, <2>2, <3>1, <3>2
         DEF CommandInv, Control, Holding, OwnFile, Account
    <3>4. Smokes(c) /\ Private(c) => f.first = compiled[c]
      BY <1>1, Whereabouts DEF IInv, CommandInv, OwnFile, Smokes
    <3>5. OwnContract(c)'
      BY <1>1, <2>1, <3>1, <3>2, <3>4 DEF CommandInv, OwnContract
    <3> QED
      BY <3>3, <3>5 DEF CommandInv
  <2> QED
    BY <2>3, <2>4, <2>5 DEF IInv
<1>3. CASE ~Parses(f)
  <2>1. Stop(c)
    BY <1>3 DEF LoadArtifact, Stop, memory
  <2> QED
    BY <2>1, StopInv
<1> QED
  BY <1>2, <1>3

\* What is recorded is the step that is done.
LEMMA Accounted ==
    ASSUME IInv, NEW c \in Commands, todo[c] # <<>>, Head(todo[c]) # "compile",
           NEW new, new.step = Head(todo[c]), did'[c] = did[c] \cup {new},
           line' = line, Position(c)' = Position(c) + 1
    PROVE  Account(c)'
<1> DEFINE plan == line[c].plan
           p == Position(c)
<1>1. p \in Nat /\ Head(todo[c]) = plan[p + 1]
  BY AtPosition DEF IInv
<1>2. {d.step : d \in did[c]} = {plan[i] : i \in 1 .. p} \ {"compile"}
  BY DEF IInv, CommandInv, Account
<1>3. {d.step : d \in did'[c]} = {d.step : d \in did[c]} \cup {Head(todo[c])}
  OBVIOUS
<1>4. plan' = plan
  OBVIOUS
<1>5. Position(c)' = p + 1
  OBVIOUS
<1> HIDE DEF p
<1>6. 1 .. p + 1 = (1 .. p) \cup {p + 1}
  BY <1>1
<1>7. {plan[i] : i \in 1 .. p + 1} = {plan[i] : i \in 1 .. p} \cup {Head(todo[c])}
  BY <1>1, <1>6
<1>8. {d.step : d \in did'[c]} = {plan[i] : i \in 1 .. p + 1} \ {"compile"}
  BY <1>2, <1>3, <1>7
<1> QED
  BY <1>4, <1>5, <1>8 DEF Account

LEMMA DeployInv ==
    ASSUME IInv, NEW c \in Commands, Deploy(c)
    PROVE  IInv'
<1>1. /\ todo[c] # <<>> /\ Head(todo[c]) = "deploy" /\ CommandInv(c)
      /\ pc[c] = "send" /\ loaded[c] \in Artifacts
      /\ line' = line /\ file' = file /\ source' = source
      /\ compiled' = compiled /\ loaded' = loaded
      /\ deployed' = Append(deployed, loaded[c])
  BY DEF Deploy, At, IInv, CommandInv, Control, Holding
<1>2. /\ deployed \in Seq(Artifacts) /\ deployed' \in Seq(Artifacts)
      /\ Len(deployed) \in Nat /\ Len(deployed)' = Len(deployed) + 1
      /\ deployed'[Len(deployed) + 1] = loaded[c]
      /\ Len(deployed)' <= MaxContracts
  BY <1>1, BoundAssumption DEF Deploy, IInv, TypeOK
<1>3. CASE /\ pc' = [pc EXCEPT ![c] = "failed"]
           /\ UNCHANGED <<address, did, todo>>
  <2>1. TypeOK'
    BY <1>1, <1>2, <1>3 DEF IInv, TypeOK
  <2>2. ASSUME NEW d \in Commands PROVE CommandInv(d)'
    <3>1. pc'[d] = pc[d] \/ pc'[d] = "failed"
      BY <1>3 DEF IInv, TypeOK
    <3> QED
      BY <1>1, <1>3, <3>1, Untouched
  <2> QED
    BY <1>2, <2>1, <2>2 DEF IInv
<1>4. CASE /\ address' = [address EXCEPT ![c] = Len(deployed) + 1]
           /\ did' = [did EXCEPT ![c] = @ \cup {Done(c, "deploy", Len(deployed) + 1)}]
           /\ StepDone(c)
  <2> DEFINE new == Done(c, "deploy", Len(deployed) + 1)
  <2>1. /\ todo' \in [Commands -> Seq(Steps)]
        /\ \A d \in Commands :
             \E n \in 0 .. Len(line[d].plan) :
                todo'[d] = SubSeq(line[d].plan, n + 1, Len(line[d].plan))
        /\ pc' \in [Commands -> {"source", "open", "fill", "load", "send", "ok", "failed"}]
        /\ pc'[c] \in {"load", "ok"}
        /\ \A d \in Commands \ {c} : todo'[d] = todo[d] /\ pc'[d] = pc[d]
        /\ Position(c)' = Position(c) + 1
        /\ Position(c) \in Nat
        /\ Control(c)'
    BY <1>1, <1>4, Advance DEF IInv
  <2>2. Len(deployed) + 1 \in 1 .. MaxContracts
    BY <1>2, BoundAssumption
  <2>3. /\ new \in [step : Steps \ {"compile"}, address : (1 .. MaxContracts) \cup {None},
                    artifact : Artifacts]
        /\ new.step = "deploy" /\ new.address = Len(deployed) + 1 /\ new.artifact = loaded[c]
    BY <1>1, <2>2 DEF Done, Steps
  <2> HIDE DEF new
  <2>4. did' = [did EXCEPT ![c] = did[c] \cup {new}]
    BY <1>4 DEF new
  <2>5. did'[c] = did[c] \cup {new} /\ address'[c] = Len(deployed) + 1
    BY <1>4, <2>4 DEF IInv, TypeOK
  <2>6. TypeOK'
    <3>1. address' \in [Commands -> (1 .. MaxContracts) \cup {None}]
      BY <1>4, <2>2 DEF IInv, TypeOK
    <3>2. did' \in [Commands -> SUBSET [step : Steps \ {"compile"},
                                        address : (1 .. MaxContracts) \cup {None},
                                        artifact : Artifacts]]
      BY <2>3, <2>4 DEF IInv, TypeOK
    <3> QED
      BY <1>1, <1>2, <2>1, <3>1, <3>2 DEF IInv, TypeOK
  <2>7. ASSUME NEW d \in Commands \ {c} PROVE CommandInv(d)'
    <3>1. address'[d] = address[d] /\ did'[d] = did[d]
      BY <1>4 DEF IInv, TypeOK
    <3> QED
      BY <1>1, <2>1, <3>1, Untouched
  <2>8. CommandInv(c)'
    <3>1. /\ Compiles(c)' <=> Compiles(c)
          /\ Smokes(c)' <=> Smokes(c)
          /\ Private(c)' <=> Private(c)
      BY <1>1 DEF Compiles, Smokes, Private
    <3>2. Holding(c)'
      BY <2>1 DEF Holding
    <3>3. OwnFile(c)'
      <4>1. Compiles(c) => Position(c) >= 1
        BY <1>1, Whereabouts DEF IInv
      <4> QED
        BY <1>1, <2>1, <3>1, <4>1 DEF CommandInv, OwnFile
    <3>4. Account(c)'
      BY <1>1, <2>1, <2>3, <2>5, Accounted
    <3>5. OwnContract(c)'
      <4>1. Smokes(c) => Position(c) = 1
        BY <1>1, Whereabouts DEF IInv
      <4>2. Smokes(c) /\ Private(c) => did[c] = {} /\ loaded[c] = compiled[c]
        BY <1>1, <4>1 DEF CommandInv, OwnContract
      <4> QED
        BY <1>1, <1>2, <2>1, <2>3, <2>5, <3>1, <4>1, <4>2 DEF OwnContract
    <3> QED
      BY <2>1, <3>2, <3>3, <3>4, <3>5 DEF CommandInv
  <2> QED
    BY <1>2, <2>6, <2>7, <2>8 DEF IInv
<1> QED
  BY <1>3, <1>4 DEF Deploy

LEMMA InteractInv ==
    ASSUME IInv, NEW c \in Commands, Interact(c)
    PROVE  IInv'
<1>1. /\ todo[c] # <<>> /\ Head(todo[c]) \in {"write", "read"} /\ CommandInv(c)
      /\ pc[c] = "send" /\ loaded[c] \in Artifacts /\ StepDone(c)
      /\ line' = line /\ file' = file /\ source' = source
      /\ compiled' = compiled /\ loaded' = loaded /\ address' = address
      /\ deployed' = deployed
  BY DEF Interact, IInv, CommandInv, Control, Holding, memory
<1> DEFINE new == Done(c, Head(todo[c]), address[c])
<1>2. /\ todo' \in [Commands -> Seq(Steps)]
      /\ \A d \in Commands :
           \E n \in 0 .. Len(line[d].plan) :
              todo'[d] = SubSeq(line[d].plan, n + 1, Len(line[d].plan))
      /\ pc' \in [Commands -> {"source", "open", "fill", "load", "send", "ok", "failed"}]
      /\ pc'[c] \in {"load", "ok"}
      /\ \A d \in Commands \ {c} : todo'[d] = todo[d] /\ pc'[d] = pc[d]
      /\ Position(c)' = Position(c) + 1
      /\ Position(c) \in Nat
      /\ Control(c)'
  BY <1>1, Advance DEF IInv
<1>3. /\ new \in [step : Steps \ {"compile"}, address : (1 .. MaxContracts) \cup {None},
                  artifact : Artifacts]
      /\ new.step = Head(todo[c]) /\ new.address = address[c] /\ new.artifact = loaded[c]
  BY <1>1 DEF Done, Steps, IInv, TypeOK
<1>4. did' = [did EXCEPT ![c] = did[c] \cup {new}]
  BY DEF Interact
<1> HIDE DEF new
<1>5. did'[c] = did[c] \cup {new} /\ \A d \in Commands \ {c} : did'[d] = did[d]
  BY <1>4 DEF IInv, TypeOK
<1>6. TypeOK' /\ Len(deployed)' <= MaxContracts
  <2>1. did' \in [Commands -> SUBSET [step : Steps \ {"compile"},
                                      address : (1 .. MaxContracts) \cup {None},
                                      artifact : Artifacts]]
    BY <1>3, <1>4 DEF IInv, TypeOK
  <2> QED
    BY <1>1, <1>2, <2>1 DEF IInv, TypeOK
<1>7. ASSUME NEW d \in Commands \ {c} PROVE CommandInv(d)'
  BY <1>1, <1>2, <1>5, Untouched
<1>8. CommandInv(c)'
  <2>1. /\ Compiles(c)' <=> Compiles(c)
        /\ Smokes(c)' <=> Smokes(c)
        /\ Private(c)' <=> Private(c)
    BY <1>1 DEF Compiles, Smokes, Private
  <2>2. Holding(c)'
    BY <1>2 DEF Holding
  <2>3. OwnFile(c)'
    <3>1. Compiles(c) => Position(c) >= 1
      BY <1>1, Whereabouts DEF IInv
    <3> QED
      BY <1>1, <1>2, <2>1, <3>1 DEF CommandInv, OwnFile
  <2>4. Account(c)'
    BY <1>1, <1>2, <1>3, <1>5, Accounted
  <2>5. OwnContract(c)'
    <3>1. Smokes(c) => Position(c) >= 2
      BY <1>1, Whereabouts DEF IInv
    <3> QED
      BY <1>1, <1>2, <1>3, <1>5, <2>1, <3>1 DEF CommandInv, OwnContract
  <2> QED
    BY <1>2, <2>2, <2>3, <2>4, <2>5 DEF CommandInv
<1> QED
  BY <1>6, <1>7, <1>8 DEF IInv

-----------------------------------------------------------------------------

LEMMA StutterInv ==
    ASSUME IInv, UNCHANGED vars
    PROVE  IInv'
<1>1. TypeOK' /\ Len(deployed)' <= MaxContracts
  BY DEF vars, IInv, TypeOK, progress, memory, chain
<1>2. ASSUME NEW d \in Commands PROVE CommandInv(d)'
  BY <1>2, Untouched DEF vars, progress, memory, chain
<1> QED
  BY <1>1, <1>2 DEF IInv

\* IInv holds in every state of the contract commands.
THEOREM Invariance == Spec => []IInv
<1>1. Init => IInv
  BY InitInv
<1>2. IInv /\ [Next]_vars => IInv'
  <2> SUFFICES ASSUME IInv, [Next]_vars PROVE IInv'
    OBVIOUS
  <2>1. ASSUME NEW c \in Commands, Compile(c) PROVE IInv'
    BY <2>1, CompileInv
  <2>2. ASSUME NEW c \in Commands, Truncate(c) PROVE IInv'
    BY <2>2, TruncateInv
  <2>3. ASSUME NEW c \in Commands, Fill(c) PROVE IInv'
    BY <2>3, FillInv
  <2>4. ASSUME NEW c \in Commands, FillInterrupted(c) PROVE IInv'
    BY <2>4, FillInterruptedInv
  <2>5. ASSUME NEW c \in Commands, LoadArtifact(c) PROVE IInv'
    BY <2>5, LoadArtifactInv
  <2>6. ASSUME NEW c \in Commands, Deploy(c) PROVE IInv'
    BY <2>6, DeployInv
  <2>7. ASSUME NEW c \in Commands, Interact(c) PROVE IInv'
    BY <2>7, InteractInv
  <2>8. ASSUME NEW c \in Commands, Stop(c) PROVE IInv'
    BY <2>8, StopInv
  <2>9. CASE EditSource
    BY <2>9, EditSourceInv
  <2>10. CASE UNCHANGED vars
    BY <2>10, StutterInv
  <2> QED
    BY <2>1, <2>2, <2>3, <2>4, <2>5, <2>6, <2>7, <2>8, <2>9, <2>10 DEF Next
<1> QED
  BY <1>1, <1>2, PTL DEF Spec

\* The contract commands keep their types, and each goes through its plan in
\* order, for any number of commands.
THEOREM TypeCorrect == Spec => []TypeOK
<1>1. IInv => TypeOK
  BY DEF IInv
<1> QED
  BY <1>1, Invariance, PTL

\* smoke with a file of its own acts on the contract it deployed itself, from
\* what it compiled itself.
THEOREM SmokeSafe == Spec => []SmokeActsOnItsOwn
<1>1. IInv => SmokeActsOnItsOwn
  <2> SUFFICES ASSUME IInv, NEW c \in Commands, Smokes(c), Private(c), NEW d \in did[c]
               PROVE  /\ d.artifact = compiled[c]
                      /\ d.address = address[c]
                      /\ deployed[d.address] = compiled[c]
    BY DEF SmokeActsOnItsOwn
  <2>1. OwnContract(c) /\ Position(c) \in Nat
    BY Taken DEF IInv, CommandInv
  <2>2. Position(c) >= 2
    BY <2>1 DEF OwnContract
  <2> QED
    BY <2>1, <2>2 DEF OwnContract
<1> QED
  BY <1>1, Invariance, PTL

\* A command that exits 0 has done every step it was asked for, and what it
\* compiled is in its own file.
THEOREM OkIsDone == Spec => []OkMeansDone
<1>1. IInv => OkMeansDone
  <2> SUFFICES ASSUME IInv, NEW c \in Commands, pc[c] = "ok"
               PROVE  /\ {d.step : d \in did[c]} =
                           {line[c].plan[i] : i \in 1 .. Len(line[c].plan)} \ {"compile"}
                      /\ Compiles(c) /\ Private(c) =>
                           file[line[c].path] =
                             [first |-> compiled[c], size |-> Size[compiled[c]]]
    BY DEF OkMeansDone
  <2>1. todo[c] = <<>> /\ Account(c) /\ OwnFile(c)
    BY DEF IInv, CommandInv, Control
  <2>2. Len(line[c].plan) \in Nat /\ Len(line[c].plan) >= 1
    BY Taken, PlanShape, LenProperties DEF IInv
  <2>3. Position(c) = Len(line[c].plan)
    BY <2>1, <2>2, EmptySeq DEF Position
  <2> QED
    BY <2>1, <2>2, <2>3 DEF Account, OwnFile
<1> QED
  BY <1>1, Invariance, PTL

-----------------------------------------------------------------------------

\* What is published under a path.
Published == [p \in Paths |-> IF Parses(file[p]) THEN file[p].first ELSE None]

LEMMA PublishedType ==
    ASSUME file \in [Paths -> [first : Artifacts \cup {None}, size : Nat]]
    PROVE  Published \in [Paths -> Artifacts \cup {None}]
  BY DEF Published, Parses

\* Writing one file changes what is published under its path only.
LEMMA PublishedOne ==
    ASSUME file \in [Paths -> [first : Artifacts \cup {None}, size : Nat]],
           NEW p \in Paths, NEW f, file' = [file EXCEPT ![p] = f]
    PROVE  Published' = [Published EXCEPT ![p] = IF Parses(f) THEN f.first ELSE None]
  BY DEF Published, Parses

LEMMA StepRefines ==
    ASSUME IInv, [Next]_vars
    PROVE  [Store!StoreNext]_<<Published, loaded, deployed>>
<1>1. ASSUME NEW c \in Commands, Compile(c) \/ Stop(c) \/ Interact(c)
      PROVE  UNCHANGED <<Published, loaded, deployed>>
  BY <1>1 DEF Compile, Stop, Interact, Published, Parses, memory, chain
<1>2. ASSUME NEW c \in Commands, NEW f,
             f.first = None \/ f.first \in Artifacts,
             file' = [file EXCEPT ![line[c].path] = f], UNCHANGED <<loaded, deployed>>
      PROVE  Store!StoreNext
  <2> DEFINE p == line[c].path
  <2>1. p \in Paths
    BY Taken DEF IInv, CommandLines
  <2>2. Published' = [Published EXCEPT ![p] = IF Parses(f) THEN f.first ELSE None]
    BY <1>2, <2>1, PublishedOne DEF IInv, TypeOK
  <2> HIDE DEF p
  <2>3. CASE Parses(f)
    <3>1. f.first \in Artifacts /\ Published' = [Published EXCEPT ![p] = f.first]
      BY <1>2, <2>2, <2>3 DEF Parses
    <3>2. Store!Publish(p, f.first)
      BY <1>2, <3>1 DEF Store!Publish, Published
    <3> QED
      BY <2>1, <3>1, <3>2 DEF Store!StoreNext
  <2>4. CASE ~Parses(f)
    <3>1. \E q \in Paths : Store!Withdraw(q)
      BY <1>2, <2>1, <2>2, <2>4 DEF Store!Withdraw, Published
    <3> QED
      BY <3>1 DEF Store!StoreNext
  <2> QED
    BY <2>3, <2>4
<1>3. ASSUME NEW c \in Commands, Truncate(c) PROVE Store!StoreNext
  BY <1>2, <1>3 DEF Truncate, Nothing, memory, chain
<1>4. ASSUME NEW c \in Commands, Fill(c) PROVE Store!StoreNext
  <2>1. compiled[c] \in Artifacts
    BY <1>4 DEF Fill, At, IInv, CommandInv, Holding
  <2>2. file' = [file EXCEPT ![line[c].path] =
                   [first |-> compiled[c],
                    size |-> Larger(file[line[c].path].size, Size[compiled[c]])]]
    BY <1>4 DEF Fill, IInv, TypeOK
  <2> QED
    BY <1>2, <1>4, <2>1, <2>2 DEF Fill, memory, chain
<1>5. ASSUME NEW c \in Commands, FillInterrupted(c) PROVE Store!StoreNext
  <2>1. file' = [file EXCEPT ![line[c].path] =
                   [first |-> None, size |-> Larger(file[line[c].path].size, 1)]]
    BY <1>5 DEF FillInterrupted, IInv, TypeOK
  <2> QED
    BY <1>2, <1>5, <2>1 DEF FillInterrupted, memory, chain
<1>6. ASSUME NEW c \in Commands, LoadArtifact(c)
      PROVE  Store!StoreNext \/ UNCHANGED <<Published, loaded, deployed>>
  <2> DEFINE p == line[c].path
  <2>1. p \in Paths
    BY Taken DEF IInv, CommandLines
  <2>2. Published' = Published /\ deployed' = deployed
    BY <1>6 DEF LoadArtifact, Published, Parses, chain
  <2>3. CASE Parses(file[p])
    <3>1. Published[p] = file[p].first /\ file[p].first # None
      BY <2>1, <2>3 DEF Published, Parses
    <3>2. loaded' = [loaded EXCEPT ![c] = Published[p]]
      BY <1>6, <2>3, <3>1 DEF LoadArtifact
    <3>3. Store!Load(c, p)
      BY <2>2, <3>1, <3>2 DEF Store!Load, Published
    <3> QED
      BY <2>1, <3>3 DEF Store!StoreNext
  <2>4. CASE ~Parses(file[p])
    BY <1>6, <2>2, <2>4 DEF LoadArtifact
  <2> QED
    BY <2>3, <2>4
<1>7. ASSUME NEW c \in Commands, Deploy(c) PROVE Store!StoreNext
  <2>1. loaded[c] # None
    BY <1>7, NoneAssumption DEF Deploy, At, IInv, CommandInv, Holding
  <2>2. Published' = Published
    BY <1>7 DEF Deploy, Published, Parses
  <2>3. Store!Deploy(c)
    BY <1>7, <2>1, <2>2 DEF Deploy, Store!Deploy, Published
  <2> QED
    BY <2>3 DEF Store!StoreNext
<1>8. CASE EditSource \/ UNCHANGED vars
  BY <1>8 DEF EditSource, vars, Published, Parses, progress, memory, chain
<1> QED
  BY <1>1, <1>3, <1>4, <1>5, <1>6, <1>7, <1>8 DEF Next

\* The contract commands implement ArtifactStore, whatever they run beside and
\* wherever they stop: a command acts on whole published artifacts only.
THEOREM Refinement == Spec => ImplementsStore
<1>1. Init => Store!StoreInit
  <2> SUFFICES ASSUME Init PROVE Store!StoreInit
    OBVIOUS
  <2>1. Published \in [Paths -> Artifacts \cup {None}]
    BY InitInv, PublishedType DEF IInv, TypeOK
  <2> QED
    BY <2>1 DEF Init, Store!StoreInit, Published
<1>2. IInv /\ [Next]_vars => [Store!StoreNext]_Store!storeVars
  BY StepRefines DEF Store!storeVars, Published
<1> QED
  BY <1>1, <1>2, Invariance, PTL DEF Spec, ImplementsStore, Store!StoreSpec

=============================================================================
