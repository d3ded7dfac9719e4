--------------------------- MODULE LiteralCycles ---------------------------
(***************************************************************************)
(* How the analyzer expands anonymous structs (analyzer/anonymous.go):     *)
(* resolveStruct, which extractLiteral re-enters through the literal's     *)
(* fields, with the call stack made explicit.  An anonymous struct may     *)
(* embed the struct it is written in, so literals lie on cycles; the       *)
(* literals found on one are remembered in classes until the outermost     *)
(* literal closes, so that each is not unfolded along every path.          *)
(*                                                                         *)
(* literalCycles is a union-find forest; here it is the map from a literal *)
(* to the root of its tree.  What a site, a frame and a document are is    *)
(* said in LiteralExpansion, which this module implements.                 *)
(***************************************************************************)
EXTENDS Naturals, Sequences

CONSTANTS
    Projects,                             \* the projects there may be
    MaxDepth, MaxExtractions, MaxFields,  \* see LiteralExpansion
    MaxRuns                               \* bound: analyses with one analyzer

VARIABLES
    project,          \* the literals there are
    openLiterals,     \* the literals being expanded, outermost first
    cycleRoot,        \* literalCycleRoot of each literal
    literalExtracts,  \* literals expanded, as counted for the limit
    literalRoot,      \* the literal the limit's warning would name
    literalWarned,    \* <<>>, or the literal the limit's warning named
    doc, documented,  \* what the fields document
    run, begun        \* analyses so far; fields documented before the last

vars == <<project, openLiterals, cycleRoot, literalExtracts, literalRoot,
          literalWarned, doc, documented, run, begun>>

Expansion == INSTANCE LiteralExpansion WITH open <- openLiterals

ASSUME ProjectsAssumption == \A p \in Projects : Expansion!WellFormed(p)
ASSUME LimitsAssumption ==
    MaxDepth \in Nat /\ MaxExtractions \in Nat \ {0} /\ MaxFields \in Nat /\ MaxRuns \in Nat \ {0}

OutermostOnly == openLiterals = <<>>
Identity == [l \in Expansion!Lits |-> l]

-----------------------------------------------------------------------------
(* Cycles. *)

\* closesLiteralCycle: the open literals in the class of l.
Closed(l) == {i \in DOMAIN openLiterals : cycleRoot[openLiterals[i].lit] = cycleRoot[l]}

\* For the mutation runs: the class takes the literals from the innermost of
\* its own on, or those opened before it as well.
JoinedNothing(l, i) == {openLiterals[i].lit}
JoinedAll(l, i) == {openLiterals[k].lit : k \in DOMAIN openLiterals}

\* The literals that the i-th open one closes a cycle around.
Joined(l, i) == {openLiterals[k].lit : k \in {k \in DOMAIN openLiterals : k > i}}

\* joinLiteralCycle: the classes of keys become one with that of l.
Join(l, keys) ==
    LET joining == {cycleRoot[k] : k \in keys}
    IN  cycleRoot' = [m \in DOMAIN cycleRoot |->
                        IF cycleRoot[m] \in joining THEN cycleRoot[l] ELSE cycleRoot[m]]

-----------------------------------------------------------------------------
(* resolveStruct, in the order of its tests. *)

unchangedCycles == UNCHANGED <<cycleRoot, literalExtracts, literalRoot>>

Lose(s) ==
    /\ Expansion!Lose(s)
    /\ unchangedCycles /\ UNCHANGED literalWarned

LeaveBare(s) ==
    /\ Expansion!LeaveBare(s)
    /\ unchangedCycles /\ UNCHANGED literalWarned

MarshalerLeaf(s) ==
    /\ Expansion!Leaf(s)
    /\ unchangedCycles /\ UNCHANGED literalWarned

CloseCycle(s) ==
    /\ Expansion!Struct(s) /\ Closed(s.lit) # {}
    /\ \E i \in Closed(s.lit) :
         /\ \A k \in Closed(s.lit) : i <= k
         /\ Join(s.lit, Joined(s.lit, i))
    /\ Expansion!Deliver(s, "recursive")
    /\ UNCHANGED <<literalExtracts, literalRoot, literalWarned>>

CutAtDepth(s) ==
    /\ Expansion!Struct(s) /\ Closed(s.lit) = {}
    /\ Expansion!Base + s.up + 1 > MaxDepth
    /\ Expansion!Deliver(s, "depth")
    /\ unchangedCycles /\ UNCHANGED literalWarned

\* For the mutation runs: one literal more is expanded.
LimitPast == ~OutermostOnly /\ literalExtracts > MaxExtractions

LimitReached == ~OutermostOnly /\ literalExtracts >= MaxExtractions

\* warnLiteralLimit.
CutAtLimit(s) ==
    /\ Expansion!Struct(s) /\ Closed(s.lit) = {}
    /\ Expansion!Base + s.up + 1 <= MaxDepth /\ LimitReached
    /\ Expansion!Deliver(s, "limit")
    /\ literalWarned' = IF literalWarned = <<>> THEN <<literalRoot>> ELSE literalWarned
    /\ unchangedCycles

Count(s) ==
    /\ literalExtracts' = IF OutermostOnly THEN 1 ELSE literalExtracts + 1
    /\ literalRoot' = IF OutermostOnly THEN s.lit ELSE literalRoot

\* extractLiteral, up to the first of the literal's fields.
ExtractLiteral(s) ==
    /\ Expansion!Struct(s) /\ Closed(s.lit) = {}
    /\ Expansion!Base + s.up + 1 <= MaxDepth /\ ~LimitReached
    /\ Count(s)
    /\ Expansion!Enter(s)
    /\ UNCHANGED <<cycleRoot, literalWarned>>

\* For the mutation runs: the classes outlive the outermost literal.
ForgetNothing == UNCHANGED cycleRoot

Forget == cycleRoot' = IF Len(openLiterals) = 1 THEN Identity ELSE cycleRoot

\* closeLiteral.
CloseLiteral ==
    /\ openLiterals # <<>> /\ Expansion!Sites = {}
    /\ Expansion!Finish
    /\ Forget
    /\ UNCHANGED <<literalExtracts, literalRoot, literalWarned>>

\* For the mutation runs: the latch outlives the analysis.
ResetAllButLatch ==
    /\ openLiterals' = <<>> /\ cycleRoot' = Identity
    /\ literalExtracts' = 0 /\ literalRoot' = 0 /\ UNCHANGED literalWarned

\* AnalyzeProject's resets.
Reset ==
    /\ openLiterals' = <<>> /\ cycleRoot' = Identity
    /\ literalExtracts' = 0 /\ literalRoot' = 0 /\ literalWarned' = <<>>

\* AnalyzeProject is called again on the same analyzer.
AnalyzeAgain ==
    /\ OutermostOnly /\ run < MaxRuns
    /\ Reset
    /\ run' = run + 1 /\ begun' = Len(documented)
    /\ UNCHANGED <<project, doc, documented>>

Done ==
    /\ OutermostOnly /\ Expansion!Sites = {} /\ run = MaxRuns
    /\ UNCHANGED vars

Init ==
    /\ project \in Projects
    /\ openLiterals = <<>> /\ doc = <<>> /\ documented = <<>>
    /\ cycleRoot = Identity
    /\ literalExtracts = 0 /\ literalRoot = 0 /\ literalWarned = <<>>
    /\ run = 1 /\ begun = 0

Resolve(s) ==
    \/ Lose(s) \/ LeaveBare(s) \/ MarshalerLeaf(s) \/ CloseCycle(s)
    \/ CutAtDepth(s) \/ CutAtLimit(s) \/ ExtractLiteral(s)

Next ==
    \/ /\ \/ CloseLiteral
          \/ \E s \in Expansion!Sites : Resolve(s)
       /\ UNCHANGED <<project, run, begun>>
    \/ AnalyzeAgain
    \/ Done

Spec == Init /\ [][Next]_vars

-----------------------------------------------------------------------------
Outcome == {"struct", "recursive", "depth", "limit", "marshaler", "bare", "absent"}
Document == Seq([lit : Expansion!Lits, how : Outcome])
Frame == [lit : Expansion!Lits, depth : 0..MaxDepth, next : Nat, site : Expansion!Site,
          at : Nat]

\* Types of the expansion; a frame's next field is at most one past the last,
\* and its own place in the document holds it (extractLiteral).
TypeOK ==
    /\ openLiterals \in Seq(Frame)
    /\ cycleRoot \in [Expansion!Lits -> Expansion!Lits]
    /\ literalExtracts \in 0..MaxExtractions
    /\ literalRoot \in Expansion!Lits \cup {0}
    /\ literalWarned \in {<<>>} \cup {<<l>> : l \in Expansion!Lits}
    /\ doc \in Document
    /\ documented \in Seq([root : Expansion!Site, doc : Document])
    /\ run \in 1..MaxRuns /\ begun \in Nat
    /\ \A i \in DOMAIN openLiterals :
         /\ openLiterals[i].next \in 1..(Len(Expansion!Kids(openLiterals[i].lit)) + 1)
         /\ openLiterals[i].at \in DOMAIN doc

\* The literals of a class lie on one cycle, with the classes merged so far
\* (closesLiteralCycle: that open one and every one opened after it are on a
\* cycle with key).  Otherwise a literal would be cut that no cycle holds.
ClassesAreCycles ==
    \A l \in Expansion!Lits : Expansion!OnOneCycle(l, cycleRoot[l])

Whole(d) == \A j \in DOMAIN d : d[j].how \notin {"limit", "depth", "absent"}

\* While a literal is open, each literal of its cycle is expanded at most once
\* below it, itself included, whatever the order the fields lead from one to
\* another (closesLiteralCycle: k fields document k^2 anonymous structs, not
\* k!).  A literal a limit cut short may not have been followed to the cycle.
ExpandedOnce ==
    Whole(doc) =>
      \A i \in DOMAIN openLiterals :
        \A j, k \in openLiterals[i].at..Len(doc) :
          (/\ j # k /\ doc[j].how = "struct" /\ doc[k].how = "struct"
           /\ doc[j].lit = doc[k].lit)
            => ~Expansion!OnOneCycle(openLiterals[i].lit, doc[j].lit)

\* What a field documents does not depend on the fields, or the analyses,
\* before it: not on the classes they found nor on how much they expanded
\* (closeLiteral: what one field documents never depends on which fields were
\* resolved before it).
FieldsIndependent ==
    \A i, j \in DOMAIN documented :
      documented[i].root = documented[j].root => documented[i].doc = documented[j].doc

Limited(d) == \E j \in DOMAIN d : d[j].how = "limit"

\* The limit is reported once in an analysis, and the report names the
\* outermost literal of the first field that passed it (literalLimitWarning).
FirstReported ==
    LET past == {j \in (begun + 1)..Len(documented) : Limited(documented[j].doc)}
    IN  literalWarned =
          IF past # {}
          THEN LET first == CHOOSE j \in past : \A k \in past : j <= k
               IN  <<documented[first].root.lit>>
          ELSE IF Limited(doc) THEN <<openLiterals[1].lit>> ELSE <<>>

\* The detailed expansion is one of those LiteralExpansion allows: a literal
\* is cut as recursive only if it lies on a cycle with one that is open, an
\* open one is never expanded again, and no field expands more than
\* maxLiteralExtractions, whatever the counters held before it.
ImplementsExpansion == Expansion!Spec
=============================================================================
