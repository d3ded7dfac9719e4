-------------------------- MODULE LiteralExpansion --------------------------
(***************************************************************************)
(* What resolving a field's anonymous structs promises, however the        *)
(* analyzer keeps track of cycles (the comments of analyzer/anonymous.go): *)
(* a struct literal is documented inline, field by field, unless it shares *)
(* a cycle with one that is being documented around it, or a limit is      *)
(* reached.  Which literals of a cycle are expanded is left open here;     *)
(* LiteralCycles is what the code does.                                    *)
(***************************************************************************)
EXTENDS Naturals, Sequences, FiniteSets

CONSTANTS
    MaxDepth,        \* maxTypeRegistrationDepth
    MaxExtractions,  \* maxLiteralExtractions
    MaxFields        \* bound: fields and payloads resolved

\* Where the resolution of a field meets a literal.  up: how many embedded
\* structs the field was promoted through; for a field of a registered struct,
\* the depth it is registered at.  inline: a body field, not a parameter.
Site == [lit : Nat, up : Nat, inline : BOOLEAN]

\* A literal.  kids: what resolving its fields meets, in order.  marshaler: it
\* embeds a Marshaler type.
Literal == [marshaler : BOOLEAN, kids : Seq(Site)]

\* The literals of a project, and where its fields and payloads meet them.
WellFormed(p) ==
    /\ p.lits \in Seq(Literal) /\ p.roots \subseteq Site
    /\ \A s \in p.roots : s.lit \in DOMAIN p.lits /\ s.up <= MaxDepth
    /\ \A l \in DOMAIN p.lits : \A i \in DOMAIN p.lits[l].kids :
         p.lits[l].kids[i].lit \in DOMAIN p.lits

VARIABLES
    project,    \* the literals there are
    open,       \* those being expanded, outermost first
    doc,        \* what the current field documents, in the order it is written
    documented  \* what the fields before it document

vars == <<project, open, doc, documented>>

-----------------------------------------------------------------------------
Lits == DOMAIN project.lits
Kids(l) == project.lits[l].kids

\* The literals documented in place of l's fields; a Marshaler's are not.
KidLits(l) ==
    {Kids(l)[i].lit : i \in {i \in DOMAIN Kids(l) :
                               ~project.lits[l].marshaler /\ Kids(l)[i].inline}}

\* b is among the literals met below a: it is in every set that holds those
\* met in a's fields and those met in the fields of its members.
Reaches(a, b) ==
    \A S \in SUBSET Lits :
      (KidLits(a) \subseteq S /\ \A l \in S : KidLits(l) \subseteq S) => b \in S

OnOneCycle(a, b) == a = b \/ (Reaches(a, b) /\ Reaches(b, a))

Top == open[Len(open)]
Base == IF open = <<>> THEN 0 ELSE Top.depth

\* The site the resolution has come to: a field's own, or that of the next
\* field of the innermost literal.
Sites ==
    IF open = <<>> THEN (IF Len(documented) < MaxFields THEN project.roots ELSE {})
    ELSE IF Top.next <= Len(Kids(Top.lit)) THEN {Kids(Top.lit)[Top.next]} ELSE {}

\* The frames once the innermost literal's next field is resolved.
Advanced == [open EXCEPT ![Len(open)].next = @ + 1]

Expansions == Cardinality({j \in DOMAIN doc : doc[j].how = "struct"})

\* The site is documented without its fields: how says as what.
Deliver(s, how) ==
    IF open = <<>>
    THEN /\ documented' = Append(documented, [root |-> s, doc |-> <<[lit |-> s.lit, how |-> how]>>])
         /\ UNCHANGED <<open, doc>>
    ELSE /\ open' = Advanced
         /\ doc' = Append(doc, [lit |-> s.lit, how |-> how])
         /\ UNCHANGED documented

\* The innermost literal's fields are all documented; the outermost one's
\* end the field.
Finish ==
    IF Len(open) = 1
    THEN /\ open' = <<>> /\ doc' = <<>>
         /\ documented' = Append(documented, [root |-> open[1].site, doc |-> doc])
    ELSE /\ open' = SubSeq(open, 1, Len(open) - 1)
         /\ UNCHANGED <<doc, documented>>

\* The fields of s's literal are documented in its place.
Enter(s) ==
    /\ open' = Append(IF open = <<>> THEN <<>> ELSE Advanced,
                      [lit |-> s.lit, depth |-> Base + s.up + 1, next |-> 1, site |-> s,
                       at |-> Len(doc) + 1])
    /\ doc' = Append(doc, [lit |-> s.lit, how |-> "struct"])
    /\ UNCHANGED documented

-----------------------------------------------------------------------------
\* Embedded structs nested past the depth limit have no fields: the one that
\* holds the literal is among them.
Lose(s) == Base + s.up > MaxDepth /\ Deliver(s, "absent")

\* A parameter is bound by kind: its literal is left as it is.
LeaveBare(s) == Base + s.up <= MaxDepth /\ ~s.inline /\ Deliver(s, "bare")

Documented(s) == Base + s.up <= MaxDepth /\ s.inline

Leaf(s) == Documented(s) /\ project.lits[s.lit].marshaler /\ Deliver(s, "marshaler")

Struct(s) == Documented(s) /\ ~project.lits[s.lit].marshaler

\* Only a literal on a cycle with an open one is cut as recursive.
Cut(s) ==
    /\ Struct(s) /\ \E i \in DOMAIN open : OnOneCycle(open[i].lit, s.lit)
    /\ Deliver(s, "recursive")

CutAtDepth(s) == Struct(s) /\ Base + s.up = MaxDepth /\ Deliver(s, "depth")

CutAtLimit(s) == Struct(s) /\ Expansions >= MaxExtractions /\ Deliver(s, "limit")

\* A literal that is open is never expanded again.
Expand(s) ==
    /\ Struct(s) /\ \A i \in DOMAIN open : open[i].lit # s.lit
    /\ Base + s.up < MaxDepth /\ Expansions < MaxExtractions
    /\ Enter(s)

Close == open # <<>> /\ Sites = {} /\ Finish

Init == WellFormed(project) /\ open = <<>> /\ doc = <<>> /\ documented = <<>>

Next ==
    /\ \/ Close
       \/ \E s \in Sites : Lose(s) \/ LeaveBare(s) \/ Leaf(s) \/ Cut(s)
                             \/ CutAtDepth(s) \/ CutAtLimit(s) \/ Expand(s)
    /\ UNCHANGED project

Spec == Init /\ [][Next]_vars
=============================================================================
