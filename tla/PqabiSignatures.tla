--------------------------- MODULE PqabiSignatures ---------------------------
(***************************************************************************)
(* The scan restoreTopicsAndErrors (src/src/pqabi-compiler.ts) makes over  *)
(* the generated code, line by line: event topics and error selectors of   *)
(* the lowered signatures become those of the original ones, but only      *)
(* where an event is emitted or an error raised.  A user constant of the   *)
(* same value stays.  Which source range a line belongs to is carried over *)
(* from the last marker; in the helpers solc makes for require with an     *)
(* error there are no markers, and the scan counts braces to know where    *)
(* such a helper ends.                                                     *)
(*                                                                         *)
(* solc is external and writes the lines, in any order within these rules: *)
(* user constants stand under a marker of their own; an emission stands    *)
(* under the marker of its call, or in the helper of its error; a marked   *)
(* call is emitted; all emissions at one place have one shape, which the   *)
(* scan may not know (Irregular).  Its constants are those of the lowered  *)
(* signatures, of which several may be equal.  It runs in the same call as *)
(* PqabiDispatch, after the dispatcher was restored, on other literals.    *)
(***************************************************************************)
EXTENDS Integers

CONSTANTS
    Places,             \* source ranges that markers name
    Declarations,       \* events and errors, by the id of the lowered AST
    Errors,             \* those that are errors
    DeclarationAt,      \* of the call at a place; anonymous events have none
    Constants,          \* topics and selectors
    Irregular,          \* keys whose emissions have another shape
    NoOne               \* no declaration, no marker, no constant

Calls == DOMAIN DeclarationAt

ASSUME SignatureAssumption ==
    /\ Errors \subseteq Declarations
    /\ Calls \subseteq Places
    /\ DeclarationAt \in [Calls -> Declarations]
    /\ NoOne \notin Places \cup Declarations \cup Constants \cup {"nothing"}
    /\ Errors \cap {"nothing", "outside", "plain"} = {}

VARIABLES
    before, after,      \* constant of each lowered and original declaration
    \* solc
    inside,             \* "outside", "plain" function, or helper of an error
    nest,               \* open braces
    marked,             \* the place of the last marker
    due, written,       \* keys that were marked, and that were emitted
    \* the scan
    location,           \* last marker seen
    requireError,       \* helper it believes to be in
    helperDepth,        \* open braces in there
    encountered, changed, \* keys: a call, or "require:" and an error
    \* history, and how the scan ended
    left, spoiled,      \* an emission kept or got another constant; a user's did
    verdict

declared == <<before, after>>
code == <<inside, nest, marked, due, written>>
scan == <<location, requireError, helperDepth, encountered, changed>>
signatureVars == <<declared, code, scan, left, spoiled, verdict>>

SignatureInit ==
    /\ before \in [Declarations -> Constants]
    /\ after \in [Declarations -> Constants]
    /\ inside = "outside" /\ nest = 0 /\ marked = NoOne
    /\ due = {} /\ written = {}
    /\ location = NoOne /\ requireError = NoOne /\ helperDepth = 0
    /\ encountered = {} /\ changed = {}
    /\ left = FALSE /\ spoiled = FALSE
    /\ verdict = "scanning"

\* A line of no effect: starts no function, no braces, no marker, no constant.
Line == [starts |-> "nothing", braces |-> 0, comment |-> FALSE,
         marker |-> NoOne, shape |-> NoOne, value |-> NoOne]

Shape(d) == IF d \in Errors THEN "mstore" ELSE "let"

\* Deliberate fault: the end of a helper goes unnoticed.
HelperNeverEnds(line) ==
    [in |-> IF line.starts \in Errors THEN line.starts ELSE requireError, depth |-> 0]

\* Which helper the line is in, from functionStart and the braces.
Helper(line) ==
    LET here == IF line.starts = "nothing" THEN requireError ELSE line.starts
        depth == IF line.starts = "nothing" THEN helperDepth ELSE 0
        counted == IF line.comment THEN depth ELSE depth + line.braces
    IN  IF here = NoOne THEN [in |-> NoOne, depth |-> depth]
        ELSE [in |-> IF counted = 0 /\ ~ line.comment THEN NoOne ELSE here,
              depth |-> counted]

\* What the scan does with one line: the declaration whose lowered constant it
\* looks for there, and whether the line is rewritten.
Scanned(line) ==
    LET helper == Helper(line).in
        place == IF line.marker = NoOne THEN location ELSE line.marker
        key == IF helper # NoOne THEN helper ELSE place
        declaration == IF helper # NoOne THEN helper
                       ELSE IF place \in Calls THEN DeclarationAt[place] ELSE NoOne
        looks == declaration # NoOne /\ ~ line.comment
    IN  [place |-> place, key |-> key, declaration |-> declaration, looks |-> looks,
         rewrites |-> /\ looks
                      /\ line.shape = Shape(declaration)
                      /\ line.value = before[declaration]]

Scan(line) ==
    LET s == Scanned(line)
    IN  /\ verdict = "scanning"
        /\ location' = s.place
        /\ requireError' = Helper(line).in
        /\ helperDepth' = Helper(line).depth
        /\ encountered' = IF s.looks THEN encountered \cup {s.key} ELSE encountered
        /\ changed' = IF s.rewrites THEN changed \cup {s.key} ELSE changed

-----------------------------------------------------------------------------

Unjudged == UNCHANGED <<declared, left, spoiled, verdict>>

StartFunction(helper) ==
    /\ inside = "outside"
    /\ inside' = IF helper = NoOne THEN "plain" ELSE helper
    /\ nest' = 1
    /\ due' = IF helper = NoOne THEN due ELSE due \cup {helper}
    /\ Scan([Line EXCEPT !.starts = helper, !.braces = 1])
    /\ UNCHANGED <<marked, written>> /\ Unjudged

Brace(by) ==
    /\ inside # "outside"
    /\ nest + by \in 0 .. 2
    /\ nest' = nest + by
    /\ inside' = IF nest' = 0 THEN "outside" ELSE inside
    /\ Scan([Line EXCEPT !.braces = by])
    /\ UNCHANGED <<marked, due, written>> /\ Unjudged

\* A marker quotes the source, braces and all.
Marker(place, braces) ==
    /\ inside \in {"outside", "plain"}
    /\ marked' = place
    /\ due' = IF place \in Calls /\ inside = "plain" THEN due \cup {place} ELSE due
    /\ place \in Calls => inside = "plain"
    /\ Scan([Line EXCEPT !.marker = place, !.comment = TRUE, !.braces = braces])
    /\ UNCHANGED <<inside, nest, written>> /\ Unjudged

Comment(braces) ==
    /\ inside # "outside"
    /\ Scan([Line EXCEPT !.comment = TRUE, !.braces = braces])
    /\ UNCHANGED code /\ Unjudged

\* The constant of an emit, a revert, or a require with an error.
Emission ==
    LET key == IF inside \in Errors THEN inside ELSE marked
        d == IF inside \in Errors THEN inside ELSE DeclarationAt[marked]
        line == [Line EXCEPT !.value = before[d],
                             !.shape = IF key \in Irregular THEN "other" ELSE Shape(d)]
    IN  /\ inside \in Errors \/ (inside = "plain" /\ marked \in Calls)
        /\ written' = written \cup {key}
        /\ Scan(line)
        /\ left' = (left \/ after[d] #
                      (IF Scanned(line).rewrites THEN after[Scanned(line).declaration]
                                                 ELSE before[d]))
        /\ UNCHANGED <<declared, inside, nest, marked, due, spoiled, verdict>>

UserConstant(value, shape) ==
    LET line == [Line EXCEPT !.value = value, !.shape = shape]
    IN  /\ inside = "plain" /\ marked \notin Calls \cup {NoOne}
        /\ Scan(line)
        /\ spoiled' = (spoiled \/ Scanned(line).rewrites)
        /\ UNCHANGED <<declared, code, left, verdict>>

\* Deliberate fault: one restored signature is enough.
AnyRestored ==
    /\ verdict = "scanning" /\ inside = "outside" /\ due \subseteq written
    /\ verdict' = IF encountered # {} /\ changed = {} THEN "refused" ELSE "restored"
    /\ UNCHANGED <<declared, code, scan, left, spoiled>>

\* The last line is out; every key that was met must have been restored.
ScanEnds ==
    /\ verdict = "scanning" /\ inside = "outside" /\ due \subseteq written
    /\ verdict' = IF encountered \subseteq changed THEN "restored" ELSE "refused"
    /\ UNCHANGED <<declared, code, scan, left, spoiled>>

SignatureNext ==
    \/ \E h \in Errors \cup {NoOne} : StartFunction(h)
    \/ \E by \in {-1, 1} : Brace(by)
    \/ \E p \in Places, b \in {-1, 0, 1} : Marker(p, b)
    \/ \E b \in {-1, 0, 1} : Comment(b)
    \/ Emission
    \/ \E v \in Constants, s \in {"let", "mstore"} : UserConstant(v, s)
    \/ ScanEnds

SignatureSpec == SignatureInit /\ [][SignatureNext]_signatureVars

-----------------------------------------------------------------------------

\* Whatever order functions, helpers and markers come in, the constant of a user
\* is never rewritten, be it equal to a lowered topic or selector ("would also
\* change unrelated user constants", comment of restoreTopicsAndErrors).
UserConstantsKept == ~ spoiled

\* A scan that succeeds has given every emission the constant of its own original
\* declaration, also where lowering made several signatures equal; and it fails
\* only over an emission of a shape it does not know.
EmissionsRestored ==
    /\ verdict = "restored" => ~ left
    /\ verdict = "refused" => written \cap Irregular # {}

=============================================================================
