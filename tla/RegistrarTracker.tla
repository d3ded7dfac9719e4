-------------------------- MODULE RegistrarTracker --------------------------
(***************************************************************************)
(* The walk of one function body that decides which group path prefix each *)
(* route registration of it carries: registrarTracker and bindingView of   *)
(* internal/analyzer/registrar.go, over the lexical scopes of scope.go and *)
(* driven by routeWalker.walkBody of analyzer.go.                          *)
(*                                                                         *)
(* The body is given as its syntax tree in source order: prog[n] is the    *)
(* n-th node the walk reaches, node 1 is the body itself, and the subtree  *)
(* of n is n..prog[n].last.  Source positions follow from that numbering.  *)
(***************************************************************************)
EXTENDS Naturals, Sequences

CONSTANTS
    Name,      \* the identifiers of the program
    Segment,   \* the string values a Group argument may have
    Programs,  \* the function bodies the walk may be given
    Seed       \* registrar parameter -> the prefix its caller handed over

VARIABLES
    prog,      \* the body being walked
    cursor,    \* the node the walk stands at
    pc,        \* the part of the walk's step at that node that comes next
    frames,    \* registrarTracker.top and its parents, outermost first
    pending,   \* registrarTracker.pending
    captured,  \* registrarTracker.captured
    outcome    \* what the registrations visited so far became

vars == <<prog, cursor, pc, frames, pending, captured, outcome>>

-----------------------------------------------------------------------------
(* Prefixes and declarations. *)

Cause == {"argument", "pathDependent", "untraced"}

Prefix == [path : Seq(Segment), resolved : BOOLEAN, cause : Cause]

Root == [path |-> <<>>, resolved |-> TRUE, cause |-> "argument"]
PathDependent ==
    [path |-> <<>>, resolved |-> FALSE, cause |-> "pathDependent"]
Untraced == [path |-> <<>>, resolved |-> FALSE, cause |-> "untraced"]

Key == [name : Name, from : Nat]

\* A frame's map from declarations to prefixes, as a set of entries.
Entry == [key : Key, value : Prefix]

Frame == [node : Nat, values : SUBSET Entry,
          branchWrites : SUBSET Key, fallthroughWrites : SUBSET Key]

\* depth and node say which frame of the stack the write belongs to.
PendingWrite == [at : Nat, depth : Nat, node : Nat, key : Key, value : Prefix]

\* What became of the registration at a node: a route, or an unresolved one.
Outcome == [node : Nat, route : BOOLEAN, path : Seq(Segment)]

-----------------------------------------------------------------------------
(* Syntax trees. *)

Rhs == [op : {"group"}, of : Name, arg : SUBSET Segment]
         \cup [op : {"ident"}, of : Name] \cup [op : {"opaque"}]

Write == [lhs : Name, rhs : Rhs]

\* Nodes that open a lexical scope, and the statements around them.
HeaderKinds == {"if", "switch"}
RepeatableKinds == {"for", "range", "func"}
ClauseKinds == {"case", "comm"}
ScopeKinds == {"block"} \cup HeaderKinds \cup RepeatableKinds \cup ClauseKinds
FrameKinds == ScopeKinds \cup {"select"}
Kinds == FrameKinds \cup {"assign", "post", "get", "add"}

Node == [kind : Kinds, parent : Nat, last : Nat, decls : SUBSET Name,
         writes : Seq(Write), reg : Name, pathOK : BOOLEAN,
         fallsThrough : BOOLEAN]

\* Source order: a subtree is an interval, intervals nest, and the parent is
\* the innermost one around a node.
WellFormed(p) ==
    /\ p \in Seq(Node)
    /\ Len(p) > 0
    /\ p[1].kind = "block" /\ p[1].parent = 0 /\ p[1].last = Len(p)
    /\ \A n \in DOMAIN p :
         /\ n <= p[n].last /\ p[n].last <= Len(p)
         /\ \A m \in DOMAIN p : (n < m /\ m <= p[n].last) => p[m].last <= p[n].last
    /\ \A n \in DOMAIN p \ {1} :
         /\ p[n].parent \in 1..(n - 1) /\ n <= p[p[n].parent].last
         /\ \A a \in 1..(n - 1) : n <= p[a].last => a <= p[n].parent
    \* for, range and func nodes own one body block
    /\ \A n \in DOMAIN p : p[n].kind \in RepeatableKinds =>
         \E b \in DOMAIN p : p[b].parent = n /\ p[b].kind = "block"
    \* a registration is a call: a statement around it makes its writes
    /\ \A n \in DOMAIN p : p[n].kind \in {"get", "add"} => p[n].writes = <<>>
    \* a statement writes each of its targets once
    /\ \A n \in DOMAIN p : \A i, j \in DOMAIN p[n].writes :
         p[n].writes[i].lhs = p[n].writes[j].lhs => i = j

ASSUME ProgramsAssumption == \A p \in Programs : WellFormed(p)
ASSUME SeedAssumption ==
    DOMAIN Seed \subseteq Name /\ \A s \in DOMAIN Seed : Seed[s] \in Prefix
ASSUME SeedCauseAssumption ==
    \A s \in DOMAIN Seed : Seed[s].resolved => Seed[s].cause = "argument"

KindOf(n) == IF n = 0 THEN "signature" ELSE prog[n].kind
Pos(n) == 2 * n
End(n) == 2 * prog[n].last + 1
Body(n) == CHOOSE b \in DOMAIN prog : prog[b].parent = n /\ prog[b].kind = "block"
Child(n) == {c \in DOMAIN prog : prog[c].parent = n}
Enclosing(n) == {0} \cup {a \in DOMAIN prog : a <= n /\ n <= prog[a].last}

-----------------------------------------------------------------------------
(* Lexical scopes: scopeBindings, functionBlocks and constScopes. *)

\* The names a function body leaves to its signature.
SignatureNames(n) ==
    IF n = 1 THEN DOMAIN Seed
    ELSE IF KindOf(prog[n].parent) = "func" THEN prog[prog[n].parent].decls ELSE {}

\* The names statement c declares anew in the list it belongs to: a later :=
\* of a name the list or the signature declares assigns that variable.
NewNames(c) ==
    IF prog[c].kind # "assign" THEN {}
    ELSE {v \in prog[c].decls :
            /\ v \notin SignatureNames(prog[c].parent)
            /\ \A e \in Child(prog[c].parent) :
                 (e < c /\ prog[e].kind = "assign") => v \notin prog[e].decls}

\* A name enters scope at the end of its declaration.
ListKeys(n) ==
    UNION {{[name |-> v, from |-> End(c)] : v \in NewNames(c)} : c \in Child(n)}

ScopeOf(n) ==
    IF n = 0 THEN {[name |-> x, from |-> Pos(1)] : x \in DOMAIN Seed}
    ELSE IF prog[n].kind \in {"func", "range"}
         THEN {[name |-> x, from |-> Pos(Body(n))] : x \in prog[n].decls}
    ELSE IF prog[n].kind \in ScopeKinds THEN ListKeys(n)
    ELSE {}

\* constScopes.resolve: the scopes around n that bind name x at position at.
Binding(x, at, n) ==
    {a \in Enclosing(n) : \E k \in ScopeOf(a) : k.name = x /\ k.from <= at}

Greatest(S) == CHOOSE a \in S : \A b \in S : b <= a
KeyIn(a, x) == CHOOSE k \in ScopeOf(a) : k.name = x
PackageKey(x) == [name |-> x, from |-> 0]

\* The declaration a name at position at refers to: the innermost one.
KeyAt(x, at, n) ==
    IF Binding(x, at, n) = {} THEN PackageKey(x)
    ELSE KeyIn(Greatest(Binding(x, at, n)), x)

\* constScopes.hidden: the scopes whose declaration of x the innermost hides.
Hidden(x, at, n) == Binding(x, at, n) \ {Greatest(Binding(x, at, n))}

-----------------------------------------------------------------------------
(* Writes: bindingWrites and the writePositions pre-pass. *)

\* A statement's writes take effect at its end, a range clause's at its body.
EffectAt(n) == IF prog[n].kind = "range" THEN Pos(Body(n)) ELSE End(n)

\* The variables of `for x := range` are no writes to the walk.
Writes(n) ==
    IF prog[n].kind = "range" /\ prog[n].decls # {} THEN <<>> ELSE prog[n].writes

WritePositions(key) ==
    {EffectAt(n) : n \in {n \in DOMAIN prog : \E i \in DOMAIN Writes(n) :
                            KeyAt(Writes(n)[i].lhs, EffectAt(n), n) = key}}

\* Where the repeated part of a loop or closure begins.
RunStart(n) == IF prog[n].kind = "for" THEN Pos(Body(n)) ELSE Pos(n)

Repeatable(n) == KindOf(n) \in RepeatableKinds

\* For the mutation runs: a closure is taken to run where it stands, like a loop.
ReassignedBeforeEnd(f, key) ==
    /\ Repeatable(f)
    /\ key.from < RunStart(f)
    /\ \E at \in WritePositions(key) : at >= Pos(f) /\ at > key.from /\ at < End(f)

\* key outlives a run of loop or closure f and can be written during one.
ReassignedWhileRunning(f, key) ==
    /\ Repeatable(f)
    /\ key.from < RunStart(f)
    /\ \E at \in WritePositions(key) :
         /\ at >= Pos(f) /\ at > key.from
         /\ prog[f].kind = "func" \/ at < End(f)

-----------------------------------------------------------------------------
(* Reading: registrarTracker.lookup, bindingView and groupBinding.         *)
(* Each yields the set holding the one binding in effect, or the empty set *)
(* for a variable that is no known registrar.                              *)

Depth == Len(frames)

KeysOf(V) == {e.key : e \in V}
ValueOf(V, key) == {e.value : e \in {e \in V : e.key = key}}
Holders(key) == {i \in 1..Depth : key \in KeysOf(frames[i].values)}

LookUp(key) ==
    IF Holders(key) = {} THEN {}
    ELSE LET holder == Greatest(Holders(key))
         IN  IF \/ key \in captured
                \/ \E i \in holder..Depth : ReassignedWhileRunning(frames[i].node, key)
             THEN {PathDependent}
             ELSE ValueOf(frames[holder].values, key)

\* A hidden group registrar is untraced; the hidden root keeps its prefix.
Shadowed(x, n) ==
    LET known == {a \in Hidden(x, Pos(n), n) : LookUp(KeyIn(a, x)) # {}}
        outer == IF known # {} THEN LookUp(KeyIn(Greatest(known), x))
                 ELSE LookUp(PackageKey(x))
    IN  IF Binding(x, Pos(n), n) = {} THEN {}
        ELSE {IF o.resolved /\ o.path = <<>> THEN o ELSE Untraced : o \in outer}

Registrar(x, n) ==
    LET own == LookUp(KeyAt(x, Pos(n), n))
    IN  IF own # {} THEN own ELSE Shadowed(x, n)

\* A registrar the walk knows nothing of contributes an empty prefix.
PrefixOf(x, n) ==
    IF Registrar(x, n) = {} THEN Root ELSE CHOOSE p \in Registrar(x, n) : TRUE

\* For the mutation runs: a resolvable argument resolves the group, whatever it hangs on.
ForgetfulGroupBinding(rhs, n) ==
    [path |-> PrefixOf(rhs.of, n).path \o
                (IF rhs.arg = {} THEN <<>> ELSE <<CHOOSE v \in rhs.arg : TRUE>>),
     resolved |-> rhs.arg # {}, cause |-> PrefixOf(rhs.of, n).cause]

\* arg holds the argument's value, or nothing when it cannot be resolved.
GroupBinding(rhs, n) ==
    LET inherited == PrefixOf(rhs.of, n)
        value == IF rhs.arg = {} THEN <<>> ELSE <<CHOOSE v \in rhs.arg : TRUE>>
    IN  [path     |-> inherited.path \o value,
         resolved |-> inherited.resolved /\ rhs.arg # {},
         cause    |-> inherited.cause]

\* writtenValue: the traced value of a right-hand side, if it has one.
Written(rhs, n) ==
    CASE rhs.op = "group"  -> {GroupBinding(rhs, n)}
      [] rhs.op = "ident"  -> Registrar(rhs.of, n)
      [] rhs.op = "opaque" -> {}

-----------------------------------------------------------------------------
(* Frames. *)

\* The function-level frame owns every name no block declares.
DeclaresAt(i, key) == i = 1 \/ key \in ScopeOf(frames[i].node)

\* The entries V with those of W written over them.
Over(V, W) == {e \in V : e.key \notin KeysOf(W)} \cup W

AllPathDependent(K) == [key : K, value : {PathDependent}]

IsBareBlock(i) ==
    /\ KindOf(frames[i].node) = "block"
    /\ KindOf(frames[i - 1].node) \in {"block"} \cup ClauseKinds

IsBranch(i) ==
    \/ KindOf(frames[i].node) \in ClauseKinds
    \/ KindOf(frames[i - 1].node) = "if"

\* For the mutation runs: a write in an if or switch header belongs to that header.
TargetTop(key) == Depth

\* The frame a write by node n belongs to: an if or switch header runs
\* whenever its statement does, so its writes are the enclosing scope's.
TargetFrame(key) ==
    IF KindOf(frames[Depth].node) \in HeaderKinds /\ ~DeclaresAt(Depth, key)
    THEN Depth - 1 ELSE Depth

\* Another run of a loop or closure may see a write made in frame i: the
\* walk outwards from i meets a loop or closure before key's own scope, or
\* that scope is a for statement whose init is not this write.
CarriedAcrossRuns(i, key, pos) ==
    LET home == Greatest({j \in 1..i : DeclaresAt(j, key)})
    IN  \/ \E j \in (home + 1)..i : Repeatable(frames[j].node)
        \/ KindOf(frames[home].node) = "for" /\ pos >= key.from

-----------------------------------------------------------------------------
(* The walk.  advance is DueWrites, Leave as often as it applies, then     *)
(* Enter or Stay; the visit of the node follows.                           *)

Init ==
    /\ prog \in Programs
    /\ cursor = 1 /\ pc = "advance"
    /\ frames = << [node |-> 0,
                    values |-> {[key |-> [name |-> x, from |-> Pos(1)],
                                 value |-> Seed[x]] : x \in DOMAIN Seed},
                    branchWrites |-> {}, fallthroughWrites |-> {}] >>
    /\ pending = {} /\ captured = {} /\ outcome = {}

\* For the mutation runs: a write is applied one node late.
DueLate(w) == w.at < Pos(cursor) - 1

\* The statement of w finished before the cursor.
Due(w) == w.at <= Pos(cursor)

\* applyDue: every write that is due reaches its frame.
DueWrites ==
    /\ pc = "advance"
    /\ LET due(i) == {w \in pending : w.depth = i /\ Due(w)}
           written(i) == {[key |-> w.key, value |-> w.value] : w \in due(i)}
       IN  frames' = [i \in 1..Depth |->
             [frames[i] EXCEPT !.values = Over(frames[i].values, written(i))]]
    /\ pending' = {w \in pending : ~Due(w)}
    /\ pc' = "leave"
    /\ UNCHANGED <<prog, cursor, captured, outcome>>

\* For the mutation runs: a scope is left one node too late.
TopEndedLate == Depth > 1 /\ End(frames[Depth].node) < Pos(cursor) - 1

TopEnded == Depth > 1 /\ End(frames[Depth].node) <= Pos(cursor)

\* leave: a bare block always ran, so its writes carry over as they stand;
\* what any other scope reassigned is path-dependent from here on, or once
\* the whole statement is left when the scope is one branch of it.
Leave ==
    /\ pc = "leave" /\ TopEnded
    /\ LET left  == frames[Depth]
           above == frames[Depth - 1]
           outer == {k \in KeysOf(left.values) \cup left.branchWrites :
                       ~DeclaresAt(Depth, k)}
           fell == KindOf(left.node) = "case" /\ prog[left.node].fallsThrough
           carried == {e \in left.values : e.key \in outer}
           lost == IF IsBranch(Depth) THEN {} ELSE AllPathDependent(outer)
           parent ==
             IF IsBareBlock(Depth)
             THEN [above EXCEPT !.values = Over(above.values, carried)]
             ELSE [node |-> above.node,
                   values |-> Over(above.values, lost),
                   branchWrites |-> above.branchWrites \cup
                     (IF IsBranch(Depth) THEN outer ELSE {}),
                   fallthroughWrites |-> above.fallthroughWrites \cup
                     (IF fell THEN outer ELSE {})]
       IN  /\ frames' = Append(SubSeq(frames, 1, Depth - 2), parent)
           /\ captured' = captured \cup
                (IF KindOf(left.node) = "func" THEN outer ELSE {})
    /\ UNCHANGED <<prog, cursor, pc, pending, outcome>>

\* The clause after one that fell through starts with what that one
\* reassigned path-dependent.
Enter ==
    /\ pc = "leave" /\ ~TopEnded
    /\ prog[cursor].kind \in FrameKinds
    /\ frames' = Append([frames EXCEPT ![Depth].fallthroughWrites = {}],
                        [node |-> cursor,
                         values |-> AllPathDependent(frames[Depth].fallthroughWrites),
                         branchWrites |-> {}, fallthroughWrites |-> {}])
    /\ pc' = "visit"
    /\ UNCHANGED <<prog, cursor, pending, captured, outcome>>

Stay ==
    /\ pc = "leave" /\ ~TopEnded
    /\ prog[cursor].kind \notin FrameKinds
    /\ pc' = "visit"
    /\ UNCHANGED <<prog, cursor, frames, pending, captured, outcome>>

\* For the mutation runs: the walk does not notice the end of the body.
ProceedOn ==
    /\ pc = "visit"
    /\ pc' = "advance" /\ cursor' = cursor + 1
    /\ UNCHANGED <<prog, frames, captured>>

Proceed ==
    /\ pc = "visit"
    /\ pc' = IF cursor = Len(prog) THEN "done" ELSE "advance"
    /\ cursor' = IF cursor = Len(prog) THEN cursor ELSE cursor + 1
    /\ UNCHANGED <<prog, frames, captured>>

Registers == {"get", "add"}

\* recordBindings: every value is read before any target is written.  A
\* value that cannot be traced matters only to a variable that already is a
\* known registrar.
RecordBindings ==
    /\ prog[cursor].kind \notin Registers
    /\ LET w == Writes(cursor)
           at == EffectAt(cursor)
           key(i) == KeyAt(w[i].lhs, at, cursor)
           value(i) == Written(w[i].rhs, cursor)
           assign(i) ==
             LET f == TargetFrame(key(i))
             IN  [at |-> at, depth |-> f, node |-> frames[f].node, key |-> key(i),
                  value |-> IF CarriedAcrossRuns(f, key(i), Pos(cursor))
                            THEN PathDependent
                            ELSE IF value(i) = {} THEN Untraced
                            ELSE CHOOSE v \in value(i) : TRUE]
       IN  pending' = pending \cup
             {assign(i) : i \in {i \in DOMAIN w :
                                   value(i) # {} \/ LookUp(key(i)) # {}}}
    /\ UNCHANGED outcome
    /\ Proceed

\* A registration whose path or prefix is not known is no route: it is
\* counted and warned about as an unresolved one.
Decide(p) ==
    LET ok == prog[cursor].pathOK /\ p.resolved
    IN  outcome' = outcome \cup
          {[node |-> cursor, route |-> ok, path |-> IF ok THEN p.path ELSE <<>>]}

\* routeFromCall: server.GET(hr, reg, path, ...).
RouteFromCall ==
    /\ prog[cursor].kind = "get"
    /\ Decide(PrefixOf(prog[cursor].reg, cursor))
    /\ UNCHANGED pending
    /\ Proceed

\* routeFromAddCall: reg.Add(method, path, ...) is a registration only when
\* reg is a known registrar.
RouteFromAddCall ==
    /\ prog[cursor].kind = "add"
    /\ IF Registrar(prog[cursor].reg, cursor) = {} THEN UNCHANGED outcome
       ELSE Decide(PrefixOf(prog[cursor].reg, cursor))
    /\ UNCHANGED pending
    /\ Proceed

\* The body is walked: the tracker is dropped.
Walked == pc = "done" /\ UNCHANGED vars

Next ==
    \/ DueWrites \/ Leave \/ Enter \/ Stay
    \/ RecordBindings \/ RouteFromCall \/ RouteFromAddCall
    \/ Walked

Spec == Init /\ [][Next]_vars
-----------------------------------------------------------------------------
(* Properties. *)

\* The tracker's state has its types: the cursor stays in the body, some frame
\* is open, and every prefix is a path or a failure.
TypeOK ==
    /\ prog \in Seq(Node)
    /\ cursor \in DOMAIN prog
    /\ pc \in {"advance", "leave", "visit", "done"}
    /\ frames \in Seq(Frame) /\ frames # << >>
    /\ pending \subseteq PendingWrite
    /\ captured \subseteq Key
    /\ outcome \subseteq Outcome

\* At every visit the frames are the scopes the walk has open there (and the
\* select statements): no scope is left early, entered twice or kept too long
\* (registrarFrame: frames mirror the scopes the scoped walk pushes).
FramesMirrorScopes ==
    pc = "visit" =>
        {frames[i].node : i \in 1..Depth} =
            {a \in Enclosing(cursor) : a = 0 \/ KindOf(a) \in FrameKinds}

\* The frame a waiting write belongs to is still on the stack when the write
\* is applied (applyDue: a write's frame is still open then).
PendingFrameOpen ==
    \A w \in pending : w.depth \in 1..Depth /\ frames[w.depth].node = w.node

Bound == (UNION {{e.value : e \in frames[i].values} : i \in 1..Depth})
            \cup {w.value : w \in pending}

\* No binding the walk holds is both resolved and marked with a cause of
\* failure, so a group derived from a failed registrar inherits the failure
\* (registrarPrefix.cause: the zero value on every resolved prefix).
ResolvedHasNoCause == \A p \in Bound : p.resolved => p.cause = "argument"

-----------------------------------------------------------------------------
(* Exactness. *)

Home(k) == CHOOSE a \in 0..Len(prog) : k \in ScopeOf(a)
Within(k, n) == {a \in Enclosing(n) : a > Home(k) /\ KindOf(a) \in FrameKinds}
WritesOf(k) ==
    {w \in UNION {{n} \X DOMAIN prog[n].writes : n \in DOMAIN prog} :
        KeyAt(prog[w[1]].writes[w[2]].lhs, EffectAt(w[1]), w[1]) = k}

AlwaysRuns(k, n) ==
    \A a \in Within(k, n) :
      \/ prog[a].kind \in HeaderKinds /\ prog[n].parent = a
      \/ prog[a].kind = "block" /\ KindOf(prog[a].parent) \in {"block"} \cup ClauseKinds

\* The expression opens a resolvable group on k itself or on a parameter that
\* is never written, or is such a parameter.
Followed(rhs, n, k) ==
    /\ rhs.op # "opaque"
    /\ LET of == KeyAt(rhs.of, Pos(n), n)
       IN  of = k \/ (of \in ScopeOf(0) /\ WritesOf(of) = {} /\ Seed[of.name].resolved)
    /\ rhs.op = "group" => rhs.arg # {}

\* A registrar that is declared with a value, and written only by straight-line
\* code of the block that declares it (bare blocks and if or switch headers
\* included) from values the walk can follow.  The numbering gives one key to
\* two declarations of a name that end together; k is not such a key.
Straight(k) ==
    /\ \E a \in 1..Len(prog) : \A b \in 0..Len(prog) : k \in ScopeOf(b) <=> b = a
    /\ KindOf(Home(k)) \notin RepeatableKinds
    /\ \E w \in WritesOf(k) : EffectAt(w[1]) = k.from
    /\ \A w \in WritesOf(k) :
         AlwaysRuns(k, w[1]) /\ Followed(prog[w[1]].writes[w[2]].rhs, w[1], k)

\* Such a registrar keeps all its registrations outside loops and closures: none
\* of them is dropped as unresolved (registrarTracker: a write is resolved
\* exactly as straight-line code).
PinnedWhenStraight ==
    pc = "done" => \A o \in outcome :
      LET k == KeyAt(prog[o.node].reg, Pos(o.node), o.node)
      IN  (/\ prog[o.node].pathOK /\ Straight(k)
           /\ \A a \in Within(k, o.node) : ~Repeatable(a))
          => o.route
=============================================================================
