---------------------------- MODULE PqabiLayout ----------------------------
(***************************************************************************)
(* Byte ranges of one source, and where the AST of the original has what   *)
(* compilePqabi (src/src/pqabi-compiler.ts) edits.                         *)
(***************************************************************************)
EXTENDS Integers, Sequences

\* The AST, as far as edits depend on it: names of such functions, declared or
\* referenced; expressions to be replaced as a whole, with the ranges of the
\* operands they keep; the words address and pure; whether a typed call of a
\* pure function occurs.
Ranges(n) == {r \in [start : 0 .. n, length : 1 .. n] : r.start + r.length <= n}

Within(r, s) ==
    r.start >= s.start /\ r.start + r.length <= s.start + s.length

Apart(r, s) == r.start + r.length <= s.start \/ s.start + s.length <= r.start

\* A piece of text: what it is, and which one of its kind.
Kinds == {"source", "alias", "helper", "blank", "uint256", "view", "declarations"}

Cells == Kinds \X Nat

\* What the AST guarantees: names are apart, replaced expressions do not contain
\* each other, and what is renamed inside one is in an operand.  That no operand
\* holds the word address is assumed, and not forced by the AST.
Layout(l) ==
    /\ l.size \in Nat
    /\ \A n \in l.names :
         /\ n \in [start : Nat, length : Nat, alias : Seq(Cells)]
         /\ [start |-> n.start, length |-> n.length] \in Ranges(l.size)
         /\ Len(n.alias) >= n.length
         /\ \A m \in l.names : m # n => Apart(n, m)
    /\ \A e \in l.expressions :
         /\ e \in [start : Nat, length : Nat, operands : Seq(Ranges(l.size))]
         /\ [start |-> e.start, length |-> e.length] \in Ranges(l.size)
         /\ \A i \in DOMAIN e.operands : Within(e.operands[i], e)
         /\ \A i, j \in DOMAIN e.operands :
              i < j => e.operands[i].start + e.operands[i].length <= e.operands[j].start
         /\ \A f \in l.expressions : e # f => Apart(e, f)
         /\ \A n \in l.names :
              \/ Apart(n, e)
              \/ \E i \in DOMAIN e.operands : Within(n, e.operands[i])
    /\ l.addresses \subseteq 0 .. l.size - 1
    /\ l.pures \subseteq 0 .. l.size - 1
    /\ l.addresses \cap l.pures = {}
    /\ \A w \in l.addresses \cup l.pures : \A n \in l.names :
         Apart([start |-> w, length |-> 1], n)
    /\ \A w \in l.pures : \A e \in l.expressions :
         Apart([start |-> w, length |-> 1], e)
    /\ \A w \in l.addresses : \A e \in l.expressions : \A i \in DOMAIN e.operands :
         Apart([start |-> w, length |-> 1], e.operands[i])
    /\ l.pureCall \in BOOLEAN

=============================================================================
