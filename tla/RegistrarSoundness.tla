------------------------- MODULE RegistrarSoundness -------------------------
(***************************************************************************)
(* What the prefixes RegistrarTracker decides are worth: once the walk of  *)
(* a body is over, this module runs that same body the way Go would, with  *)
(* branches and loop counts chosen freely and every closure callable       *)
(* whenever control is between two statements, and compares the prefix a   *)
(* registrar really holds at a registration with the one the walk decided. *)
(*                                                                         *)
(* The execution is the environment the analysis is about, not code of the *)
(* repository; it is Go's semantics of the statements the walk looks at.   *)
(***************************************************************************)
EXTENDS RegistrarTracker, FiniteSets

CONSTANTS
    Foreign,   \* prefixes a call result assigned to a registrar may carry
    MaxCalls,  \* bound: closure calls of one execution
    MaxLaps    \* bound: loop iterations of one execution

VARIABLES
    ctl,       \* where control is: into, out of, or performing a node
    env,       \* declaration -> the number of its variable's cell
    cells,     \* <<declaration, cell>> -> {} for nil, {v} for the value v
    closures,  \* function literals evaluated so far, with what they capture
    callers,   \* the calls in progress: where to return to
    calls,     \* closure calls so far
    laps       \* loop iterations so far

execVars == <<ctl, env, cells, closures, callers, calls, laps>>

At(dir, n) == [dir |-> dir, node |-> n]
In(n) == At("in", n)
Out(n) == At("out", n)
Finished == ctl = Out(1)

Inner(n, kinds) == {c \in Child(n) : prog[c].kind \in kinds}
First(n) == IF Child(n) = {} THEN Out(n) ELSE In(n + 1)
Following(n) ==
    IF prog[n].last < prog[prog[n].parent].last THEN In(prog[n].last + 1)
    ELSE Out(prog[n].parent)

\* An if takes one of its branches, or none when it has no else.
Branches(n) ==
    LET bodies == Inner(n, {"block", "if"})
    IN  {In(b) : b \in bodies} \cup
        (IF \E b, c \in bodies : b # c THEN {} ELSE {Out(n)})

\* Some clause of a switch runs, or none; a select waits for one.
Clauses(n) ==
    {In(c) : c \in Inner(n, ClauseKinds)} \cup
    (IF KindOf(prog[n].parent) = "switch" THEN {Out(n)} ELSE {})

NextLap(n) == At("lap", n)

-----------------------------------------------------------------------------
(* Variables. *)

\* f with the values of the partial function new written over it.
With(f, new) ==
    [k \in DOMAIN f \cup DOMAIN new |-> IF k \in DOMAIN new THEN new[k] ELSE f[k]]

Holds(x, n) ==
    LET k == KeyAt(x, Pos(n), n) IN cells[<<k, env[k]>>]

\* A registrar's value: its real prefix, and whether it was followed to Group
\* calls on the root registrar.
Value(p, f) == [path |-> p, followed |-> f]

\* A variable whose first value cannot be followed (a closure parameter, a
\* range variable, a call result) is one the walk treats as prefix-less, its
\* documented policy; here such a variable really is.
Assumed == {Value(<<>>, FALSE)}

Follows(val) == \E q \in val : q.followed

\* What an expression may give a variable that holds old; Group on a nil registrar panics.
Values(rhs, n, old) ==
    CASE rhs.op = "group" ->
           {{Value(p.path \o <<s>>, p.followed)} :
              p \in Holds(rhs.of, n), s \in IF rhs.arg = {} THEN Segment ELSE rhs.arg}
      [] rhs.op = "ident" -> {Holds(rhs.of, n)}
      [] rhs.op = "opaque" ->
           IF Follows(old) THEN {{Value(p, TRUE)} : p \in Foreign} ELSE {Assumed}

Target(n, x) == KeyAt(x, EffectAt(n), n)

\* The variables a statement creates, beside those it assigns.
Created(n) ==
    {k \in {Target(n, x) : x \in prog[n].decls} : k.from = EffectAt(n)}

CellOf(k) == Cardinality({c \in DOMAIN cells : c[1] = k}) + 1

\* Gives each variable of K a cell of its own, holding what value yields.
Create(K, e, value(_)) ==
    /\ env' = With(e, [k \in K |-> CellOf(k)])
    /\ cells' = With(cells, [c \in {<<k, CellOf(k)>> : k \in K} |-> value(c[1])])

-----------------------------------------------------------------------------
(* Control. *)

Go(c) == ctl' = c /\ UNCHANGED <<env, cells, closures, callers, calls, laps>>

EnterNode ==
    /\ ctl.dir = "in"
    /\ LET n == ctl.node
           header == Inner(n, {"assign"})
       IN  CASE prog[n].kind = "block" /\ KindOf(prog[n].parent) \in {"switch", "select"} ->
                  \E c \in Clauses(n) : Go(c)
             [] prog[n].kind = "if" /\ header = {} -> \E b \in Branches(n) : Go(b)
             [] prog[n].kind = "for" /\ header = {} -> Go(NextLap(n))
             [] prog[n].kind = "range" -> Go(NextLap(n))
             [] prog[n].kind \in {"assign", "post"} /\ Child(n) = {} -> Go(At("do", n))
             [] prog[n].kind \in Registers -> Go(Out(n))
             [] prog[n].kind = "func" ->
                  /\ closures' = closures \cup {[node |-> n, env |-> env]}
                  /\ ctl' = Out(n)
                  /\ UNCHANGED <<env, cells, callers, calls, laps>>
             [] OTHER -> Go(First(n))

\* The statement's values are ready: create and assign its variables.
Perform ==
    /\ ctl.dir = "do"
    /\ LET n == ctl.node
           w == prog[n].writes
           target(i) == Target(n, w[i].lhs)
           old(i) == IF target(i) \in Created(n) THEN {}
                     ELSE cells[<<target(i), env[target(i)]>>]
           possible(i) == Values(w[i].rhs, n, old(i))
       IN  \E v \in [DOMAIN w -> UNION {possible(i) : i \in DOMAIN w}] :
             /\ \A i \in DOMAIN w : v[i] \in possible(i)
             /\ LET value(k) == UNION {v[i] : i \in {i \in DOMAIN w : target(i) = k}}
                    kept == {target(i) : i \in DOMAIN w} \ Created(n)
                    created == [c \in {<<k, CellOf(k)>> : k \in Created(n)} |-> value(c[1])]
                    assigned == [c \in {<<k, env[k]>> : k \in kept} |-> value(c[1])]
                IN  /\ cells' = With(With(cells, assigned), created)
                    /\ env' = With(env, [k \in Created(n) |-> CellOf(k)])
             /\ ctl' = IF prog[n].kind = "range" THEN In(Body(n)) ELSE Out(n)
    /\ UNCHANGED <<closures, callers, calls, laps>>

\* A loop ends, or runs its body once more.
Lap ==
    /\ ctl.dir = "lap"
    /\ \/ Go(Out(ctl.node))
       \/ /\ laps < MaxLaps
          /\ laps' = laps + 1
          /\ ctl' = IF prog[ctl.node].kind = "range" THEN At("do", ctl.node)
                    ELSE In(Body(ctl.node))
          /\ UNCHANGED <<env, cells, closures, callers, calls>>

LeaveNode ==
    /\ ctl.dir = "out" /\ ctl.node # 1
    /\ LET n == ctl.node
           p == prog[n].parent
       IN  CASE prog[p].kind = "if" ->
                  IF prog[n].kind = "assign" THEN \E b \in Branches(p) : Go(b)
                  ELSE Go(Out(p))
             [] prog[p].kind = "for" /\ n # Body(p) -> Go(NextLap(p))
             \* each lap of a for statement has its own copy of its variables
             [] prog[p].kind = "for" /\ n = Body(p) ->
                  /\ Create(ScopeOf(p), env, LAMBDA k : cells[<<k, env[k]>>])
                  /\ ctl' = IF Inner(p, {"post"}) = {} THEN NextLap(p)
                            ELSE In(CHOOSE q \in Inner(p, {"post"}) : TRUE)
                  /\ UNCHANGED <<closures, callers, calls, laps>>
             [] prog[p].kind = "range" -> Go(NextLap(p))
             [] prog[n].kind \in ClauseKinds ->
                  IF prog[n].fallsThrough THEN Go(In(prog[n].last + 1)) ELSE Go(Out(p))
             [] prog[p].kind = "func" ->
                  /\ ctl' = callers[Len(callers)].ctl
                  /\ env' = callers[Len(callers)].env
                  /\ callers' = SubSeq(callers, 1, Len(callers) - 1)
                  /\ UNCHANGED <<cells, closures, calls, laps>>
             [] prog[p].kind = "assign" /\ prog[n].last = prog[p].last -> Go(At("do", p))
             [] OTHER -> Go(Following(n))

\* Places where a closure may be called: between two statements, by the
\* expression it is an argument of, and after the body has returned.
CallPoint ==
    \/ Finished
    \/ ctl.dir = "in" /\ prog[ctl.node].kind \in Registers
    \/ ctl.dir = "out" /\ prog[ctl.node].kind = "func"

Call ==
    /\ CallPoint /\ calls < MaxCalls
    /\ \E c \in closures :
         /\ Create(ScopeOf(c.node), c.env, LAMBDA k : Assumed)
         /\ ctl' = In(Body(c.node))
    /\ callers' = Append(callers, [ctl |-> ctl, env |-> env])
    /\ calls' = calls + 1
    /\ UNCHANGED <<closures, laps>>

-----------------------------------------------------------------------------

\* Variables that exist before the body runs: parameters and package variables.
Given == {[name |-> x, from |-> Pos(1)] : x \in DOMAIN Seed}
            \cup {PackageKey(x) : x \in Name}

SoundInit ==
    /\ Init
    /\ ctl = In(1) /\ closures = {} /\ callers = << >> /\ calls = 0 /\ laps = 0
    /\ env = [k \in Given |-> 1]
    /\ cells = [c \in Given \X {1} |-> IF c[1].from = 0 THEN Assumed
                                       ELSE {Value(Seed[c[1].name].path, TRUE)}]

Walk == Next /\ UNCHANGED execVars
Run ==
    /\ pc = "done"
    /\ EnterNode \/ Perform \/ Lap \/ LeaveNode \/ Call
    /\ UNCHANGED vars

SoundNext == Walk \/ Run

SoundSpec == SoundInit /\ [][SoundNext]_<<vars, execVars>>

-----------------------------------------------------------------------------

\* A route the walk emits carries the prefix its registrar holds in every
\* execution that reaches the registration (registrarTracker: a prefix that
\* depends on the path taken is never pinned).
RoutesHoldTheirPrefix ==
    (pc = "done" /\ ctl.dir = "in" /\ prog[ctl.node].kind \in Registers) =>
        \A o \in outcome : (o.node = ctl.node /\ o.route) =>
            \A q \in Holds(prog[ctl.node].reg, ctl.node) : q.path = o.path
=============================================================================
