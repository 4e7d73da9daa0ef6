----------------------------- MODULE PqabiEdits -----------------------------
(***************************************************************************)
(* How compilePqabi (src/src/pqabi-compiler.ts) rewrites one Solidity      *)
(* source by byte ranges taken from the AST of the original: overloads get *)
(* aliases, native and typed calls become calls of helpers, address types  *)
(* become uint256 and pure becomes view, each in a pass of its own over    *)
(* the content the pass before has left, but with the offsets of the       *)
(* original.  That is right only because every pass but the last keeps all *)
(* widths; aliases that are longer than the name wait for the last pass.   *)
(* Afterwards a range of the original is translated into one of the result *)
(* to pair declarations.  Several files are several layouts: no edit and   *)
(* no translation crosses a file.  Sources with constructs the target does *)
(* not support are refused before any edit, and are no layouts.            *)
(*                                                                         *)
(* Text is a sequence of cells, <<kind, number>>; an offset counts the     *)
(* cells before it.  A word the passes replace (address, pure) is a cell.  *)
(***************************************************************************)
EXTENDS PqabiLayout, SequencesExt

CONSTANTS
    Layouts             \* where a source has what

ASSUME LayoutAssumption == \A l \in Layouts : Layout(l)

VARIABLES
    layout,             \* the source
    content,            \* its text, as rewritten so far
    longerNames,        \* edits that wait for the last pass
    lowering            \* the pass to come, or how it ended

editVars == <<layout, content, longerNames, lowering>>

Original(l) == [i \in 1 .. l.size |-> <<"source", i - 1>>]
HelperName == <<"helper", 0>>
Blank == <<"blank", 0>>
Uint256 == <<"uint256", 0>>
View == <<"view", 0>>
AppendedDeclarations == <<"declarations", 0>>

-----------------------------------------------------------------------------

\* Buffer.concat([content.subarray(0, start), text, content.subarray(...)])
Replace(text, edit) ==
    SubSeq(text, 1, edit.start) \o edit.text
        \o SubSeq(text, edit.start + edit.length + 1, Len(text))

\* Deliberate fault: edits in the order of the source.
FirstEditFirst(text, edits) ==
    LET upTo[p \in 0 .. Len(text)] ==
            IF p = 0 THEN text
            ELSE IF \E e \in edits : e.start = p - 1
                 THEN Replace(upTo[p - 1], CHOOSE e \in edits : e.start = p - 1)
                 ELSE upTo[p - 1]
    IN  upTo[Len(text)]

\* Edits are applied from the last to the first, so that one that changes the
\* width moves none that is still to come.
ApplyEdits(text, edits) ==
    LET from[p \in 0 .. Len(text)] ==
            IF p = Len(text) THEN text
            ELSE IF \E e \in edits : e.start = p
                 THEN Replace(from[p + 1], CHOOSE e \in edits : e.start = p)
                 ELSE from[p + 1]
    IN  from[0]

NameEdit(n) == [start |-> n.start, length |-> n.length, text |-> n.alias]

Growth(edit) == Len(edit.text) - edit.length

SameWidth(edit) == Growth(edit) = 0

\* Deliberate fault: the text of an operand as it stands.
ReadVerbatim(text, edits, r) == SubSeq(text, r.start + 1, r.start + r.length)

\* read: the text of an operand with the aliases that wait put in.
Read(text, edits, r) ==
    ApplyEdits(SubSeq(text, r.start + 1, r.start + r.length),
                {[e EXCEPT !.start = @ - r.start] : e \in {f \in edits : Within(f, r)}})

\* name(receiver, argument) before it is filled up with blanks.
CallText(text, edits, e) ==
    <<HelperName>> \o FlattenSeq([i \in DOMAIN e.operands |->
                                Read(text, edits, e.operands[i])])

\* Deliberate fault: the call is not filled up to the width it replaces.
Unpadded(text, width) == text

\* text + " ".repeat(length - Buffer.byteLength(text))
Padded(text, width) == text \o [i \in 1 .. width - Len(text) |-> Blank]

\* An address type inside a replaced expression has been handled with it.
AddressEdits ==
    {[start |-> w, length |-> 1, text |-> <<Uint256>>] :
        w \in {v \in layout.addresses : \A e \in layout.expressions :
                 Apart([start |-> v, length |-> 1], e)}}

ExpressionEdits ==
    {[start |-> e.start, length |-> e.length,
      text |-> Padded(CallText(content, longerNames, e), e.length)] :
        e \in layout.expressions}

\* Deliberate fault: an alias rendered with its expression is applied again.
EveryName(edits, replacements) == edits

\* "Whole-expression edits already render any renamed references they contain."
Remaining(edits, replacements) ==
    {e \in edits : ~ \E r \in replacements : Within(e, r)}

EditsInit ==
    /\ layout \in Layouts
    /\ content = Original(layout)
    /\ longerNames = {}
    /\ lowering = "alias"

\* nativeOverloadAliases: aliases as wide as the name are written in place.
AliasNames ==
    /\ lowering = "alias"
    /\ LET edits == {NameEdit(n) : n \in layout.names}
       IN  /\ content' = ApplyEdits(content, {e \in edits : SameWidth(e)})
           /\ longerNames' = {e \in edits : ~ SameWidth(e)}
    /\ lowering' = "replace"
    /\ UNCHANGED layout

\* A call that is wider than what it replaces is refused.
RefuseWideCall ==
    /\ lowering = "replace"
    /\ \E e \in layout.expressions :
         Len(CallText(content, longerNames, e)) > e.length
    /\ lowering' = "refused"
    /\ UNCHANGED <<layout, content, longerNames>>

ReplaceExpressions ==
    /\ lowering = "replace"
    /\ \A e \in layout.expressions :
         Len(CallText(content, longerNames, e)) <= e.length
    /\ LET replacements == ExpressionEdits \cup AddressEdits
       IN  /\ content' = ApplyEdits(content, replacements) \o <<AppendedDeclarations>>
           /\ longerNames' = Remaining(longerNames, replacements)
    /\ lowering' = "pure"
    /\ UNCHANGED layout

\* Only a typed call of a pure function makes pure callers impossible.
PureToView ==
    /\ lowering = "pure"
    /\ content' = ApplyEdits(content,
                    {[start |-> w, length |-> 1, text |-> <<View>>] :
                        w \in {v \in layout.pures : layout.pureCall}})
    /\ lowering' = "lengthen"
    /\ UNCHANGED <<layout, longerNames>>

LengthenNames ==
    /\ lowering = "lengthen"
    /\ content' = ApplyEdits(content, longerNames)
    /\ lowering' = "lowered"
    /\ UNCHANGED <<layout, longerNames>>

EditsNext ==
    \/ AliasNames \/ RefuseWideCall \/ ReplaceExpressions \/ PureToView
    \/ LengthenNames

EditsSpec == EditsInit /\ [][EditsNext]_editVars

\* Deliberate fault: an edit that begins before the offset has moved it.
ShiftByStart(offset) ==
    LET upTo[p \in -1 .. layout.size] ==
            IF p = -1 THEN 0
            ELSE upTo[p - 1] + IF \E e \in longerNames : e.start = p
                               THEN Growth(CHOOSE e \in longerNames : e.start = p) ELSE 0
    IN  upTo[offset]

\* Every edit that ends before the offset, or at it, has moved it.
Shift(offset) ==
    LET upTo[p \in 0 .. layout.size] ==
            IF p = 0 THEN 0
            ELSE upTo[p - 1] + IF \E e \in longerNames : e.start + e.length = p
                               THEN Growth(CHOOSE e \in longerNames : e.start + e.length = p) ELSE 0
    IN  upTo[offset]

\* sourceLocation: where a range of the original is in the lowered source.
SourceLocation(r) ==
    LET start == r.start + Shift(r.start)
    IN  [start |-> start,
         length |-> r.start + r.length + Shift(r.start + r.length) - start]

-----------------------------------------------------------------------------
(* What the result should be, without any offset into a changed text *)

RenamedCell(i) ==
    IF \E n \in layout.names : n.start = i
    THEN (CHOOSE n \in layout.names : n.start = i).alias
    ELSE IF \E n \in layout.names : Within([start |-> i, length |-> 1], n)
    THEN <<>>
    ELSE <<<<"source", i>>>>

RenamedText(r) == FlattenSeq([k \in 1 .. r.length |-> RenamedCell(r.start + k - 1)])

RenderedCall(e) ==
    Padded(<<HelperName>> \o FlattenSeq([i \in DOMAIN e.operands |-> RenamedText(e.operands[i])]),
           e.length)

RenderedCell(i) ==
    IF \E e \in layout.expressions : e.start = i
    THEN RenderedCall(CHOOSE e \in layout.expressions : e.start = i)
    ELSE IF \E e \in layout.expressions : Within([start |-> i, length |-> 1], e)
    THEN <<>>
    ELSE IF i \in layout.addresses THEN <<Uint256>>
    ELSE IF i \in layout.pures /\ layout.pureCall THEN <<View>>
    ELSE RenamedCell(i)

Rendered(r) == FlattenSeq([k \in 1 .. r.length |-> RenderedCell(r.start + k - 1)])

Whole == [start |-> 0, length |-> layout.size]

\* Every variable keeps its type; until the last pass the text is as wide as
\* the original, which the offsets of the passes rely on.
EditsTypeOK ==
    /\ layout \in Layouts
    /\ lowering \in {"alias", "replace", "refused", "pure", "lengthen", "lowered"}
    /\ content \in Seq(Cells)
    /\ lowering \in {"alias", "replace", "refused"} => Len(content) = layout.size
    /\ lowering \in {"pure", "lengthen"} => Len(content) = layout.size + 1
    /\ longerNames \subseteq {NameEdit(n) : n \in layout.names}

\* The lowered source is the original with each construct replaced where it
\* stood, no text lost, repeated or cut by the edits of another pass
\* (compilePqabi: "Source edits use compiler AST byte ranges").
LoweredAsIntended ==
    lowering = "lowered" => content = Rendered(Whole) \o <<AppendedDeclarations>>

\* The translated range of a declaration holds just that declaration, whatever
\* became longer before it or inside it ("Pair declarations by translated byte
\* ranges, including longer overload names").
DeclarationsPaired ==
    lowering = "lowered" =>
        \A r \in Ranges(layout.size) :
            (\A s \in layout.names \cup layout.expressions : Apart(r, s) \/ Within(s, r))
            => LET at == SourceLocation(r)
               IN  SubSeq(content, at.start + 1, at.start + at.length) = Rendered(r)

=============================================================================
