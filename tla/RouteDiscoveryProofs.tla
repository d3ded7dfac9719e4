------------------------ MODULE RouteDiscoveryProofs ------------------------
(***************************************************************************)
(* Proofs about RouteDiscovery, for every set of projects: the guard of    *)
(* the recursion is exactly the walks in progress, and a route keeps the   *)
(* prefix of its registrar through every chain of helpers, provided the    *)
(* helpers are handed variables.                                           *)
(*                                                                         *)
(* Every frame was opened by Append and closed by taking off the last one, *)
(* so the keys are those of the frames (RecursionGuarded) and the prefix a *)
(* frame starts from is the one its caller's registrar had (FramesHold).   *)
(* What discovery reports at its end follows from the order it works in:   *)
(* files come in order, and a package is indexed before it is walked.      *)
(* No registration is lost because whatever is cut is in progress, or was  *)
(* walked to its end with all that it calls (Covered).                     *)
(*                                                                         *)
(* What it recognises is what the program registers (RInv): the walks lie  *)
(* in what RegisterRoutes reaches, and all that the walked and the walking *)
(* have passed is recognised, walked, walking, or an entry of its own.     *)
(***************************************************************************)
EXTENDS RouteDiscovery, SequenceTheorems, NaturalsInduction, WellFoundedInduction, TLAPS

IInv == project \in Projects /\ TypeOK /\ RecursionGuarded

-----------------------------------------------------------------------------
(* Projects and frames. *)

\* The declarations of a project are typed, and their files are its files.
LEMMA ProjectShape ==
    ASSUME project \in Projects
    PROVE  /\ project.files \in Seq(File) /\ project.groups \in Seq(Group)
           /\ Fns \subseteq Nat \ {0} /\ Files \subseteq Nat \ {0}
           /\ DOMAIN project.groups \subseteq Nat
           /\ \A f \in Fns : FnAt(f) \in Fn /\ FnAt(f).file \in Files
           /\ \A f \in Fns : \A i \in DOMAIN FnAt(f).body :
                FnAt(f).body[i].op = "call" => FnAt(f).body[i].from \in {0} \cup Files
  <1>1. WellFormed(project)  BY ProjectsAssumption
  <1>2. /\ project.files \in Seq(File) /\ project.groups \in Seq(Group)
        /\ project.fns \in Seq(Fn)
        BY <1>1 DEF WellFormed
  <1>3. \A f \in Fns : FnAt(f) \in Fn  BY <1>2 DEF Fns, FnAt
  <1>4. \A f \in Fns : FnAt(f).file \in Files
        BY <1>1 DEF WellFormed, Fns, FnAt, Files
  <1>5. \A f \in Fns : \A i \in DOMAIN FnAt(f).body :
          FnAt(f).body[i].op = "call" => FnAt(f).body[i].from \in {0} \cup Files
        BY <1>1 DEF WellFormed, Fns, FnAt, Files
  <1> QED BY <1>2, <1>3, <1>4, <1>5 DEF Fns, Files

\* The innermost walk is a frame, and so is what it moves on to.
LEMMA TopShape ==
    ASSUME project \in Projects, TypeOK, stack # <<>>
    PROVE  /\ Len(stack) \in Nat \ {0} /\ Top \in Frame
           /\ Advanced \in Seq(Frame) /\ Len(Advanced) = Len(stack)
           /\ \A i \in 1..Len(stack) :
                /\ Advanced[i].fn = stack[i].fn
                /\ Advanced[i].seed = stack[i].seed /\ Advanced[i].real = stack[i].real
           /\ Body \in Seq(Registration \cup Call)
           /\ Site \in Sites
  <1>1. stack \in Seq(Frame)  BY DEF TypeOK
  <1>2. Len(stack) \in Nat \ {0} /\ DOMAIN stack = 1..Len(stack)  BY <1>1
  <1>3. Top \in Frame  BY <1>1, <1>2 DEF Top
  <1>4. [Top EXCEPT !.next = @ + 1] \in Frame  BY <1>3 DEF Frame
  <1>5. Advanced = [stack EXCEPT ![Len(stack)] = [Top EXCEPT !.next = @ + 1]]
        BY <1>1, <1>2 DEF Advanced, Top
  <1>6. Advanced \in Seq(Frame) /\ Len(Advanced) = Len(stack)
        BY <1>1, <1>2, <1>4, <1>5
  <1>7. ASSUME NEW i \in 1..Len(stack)
        PROVE  /\ Advanced[i].fn = stack[i].fn
               /\ Advanced[i].seed = stack[i].seed /\ Advanced[i].real = stack[i].real
    <2>1. stack[i] \in Frame  BY <1>1, <1>2
    <2> QED BY <1>2, <1>3, <1>5, <2>1 DEF Frame, Top
  <1>8. Body \in Seq(Registration \cup Call)
        BY <1>3, ProjectShape DEF Body, Frame, Fn
  <1>9. Site \in Sites  BY <1>3 DEF Site, Sites, Frame
  <1> QED BY <1>2, <1>3, <1>6, <1>7, <1>8, <1>9

\* Declarations are functions of the project.
LEMMA DeclaredShape ==
    ASSUME NEW i, NEW owner, NEW name
    PROVE  Declared(i, owner, name) \subseteq Fns
           /\ \A f \in Declared(i, owner, name) : FnAt(f).file \in Files
  BY DEF Declared, PackageFiles

\* Prefixes and paths are typed.
LEMMA PrefixShape ==
    ASSUME NEW reg \in Reg, NEW seed \in [path : Seq(Segment), resolved : BOOLEAN],
           NEW real \in Seq(Segment)
    PROVE  /\ PrefixOf(reg, seed) \in [path : Seq(Segment), resolved : BOOLEAN]
           /\ Holds(reg, real) \in Seq(Segment)
  <1>1. reg.path \in Seq(Segment) /\ seed.path \in Seq(Segment)
        /\ reg.ok \in BOOLEAN /\ seed.resolved \in BOOLEAN  BY DEF Reg
  <1>2. seed.path \o reg.path \in Seq(Segment) /\ real \o reg.path \in Seq(Segment)
        BY <1>1
  <1>3. <<>> \in Seq(Segment)  OBVIOUS
  <1> QED BY <1>1, <1>2, <1>3 DEF PrefixOf, Holds, Root

LEMMA SeedShape ==
    ASSUME NEW args \in SUBSET Reg,
           NEW seed \in [path : Seq(Segment), resolved : BOOLEAN], NEW real \in Seq(Segment)
    PROVE  /\ Seeded(args, seed) \in [path : Seq(Segment), resolved : BOOLEAN]
           /\ HeldBy(args, real) \in Seq(Segment)
  <1>1. <<>> \in Seq(Segment) /\ Root \in [path : Seq(Segment), resolved : BOOLEAN]
        BY DEF Root
  <1>2. Seeded(args, seed) \in [path : Seq(Segment), resolved : BOOLEAN]
    <2>1. CASE \E reg \in args : reg.via = "variable"
      <3>1. (CHOOSE reg \in args : reg.via = "variable") \in args  BY <2>1
      <3> QED BY <2>1, <3>1, PrefixShape DEF Seeded
    <2> QED BY <1>1, <2>1 DEF Seeded
  <1>3. HeldBy(args, real) \in Seq(Segment)
    <2>1. CASE args # {}
      <3>1. (CHOOSE reg \in args : TRUE) \in args  BY <2>1
      <3> QED BY <2>1, <3>1, PrefixShape DEF HeldBy
    <2> QED BY <1>1, <2>1 DEF HeldBy
  <1> QED BY <1>2, <1>3

\* Reading files adds groups and keeps those there are.
LEMMA IndexShape ==
    ASSUME TypeOK, NEW F
    PROVE  /\ DOMAIN Index(F) \subseteq DOMAIN project.groups
           /\ \A g \in DOMAIN Index(F) : Index(F)[g] \in BOOLEAN
  BY DEF TypeOK, Index, GroupsOf

-----------------------------------------------------------------------------
(* Every step keeps the invariant. *)

\* A step that changes the directives only as reading files does, and nothing
\* the recursion depends on.
LEMMA SameProject ==
    ASSUME project' = project
    PROVE  /\ Files' = Files /\ Fns' = Fns /\ Frame' = Frame /\ Sites' = Sites
           /\ Routes' = Routes
           /\ \A f : Key(f)' = Key(f)
           /\ \A i : (Dir(i) = Dir(i)') /\ (FileAt(i) = FileAt(i)')
  BY DEF Files, Fns, Frame, Sites, Routes, Key, FnAt, Dir, FileAt

LEMMA VisitKeeps ==
    ASSUME IInv, Visit
    PROVE  IInv'
  <1>1. project' = project
        BY DEF Visit, SkipFile, ReadFile, OpenModule, WalkCopy, CloseModule, Report
  <1>2. /\ Files' = Files /\ Fns' = Fns /\ Frame' = Frame /\ Sites' = Sites
        /\ Routes' = Routes /\ project' \in Projects
        /\ \A f : Key(f)' = Key(f)
        /\ \A i : (Dir(i) = Dir(i)') /\ (FileAt(i) = FileAt(i)')
        BY <1>1, SameProject DEF IInv
  <1> USE <1>1, <1>2
  <1>3. CASE SkipFile
    <2>1. PICK i \in Files : /\ Next1(i) /\ walked' = Pass(i)
                             /\ warnings' = warnings \cup {Warning("skipped", i)}
          BY <1>3 DEF SkipFile
    <2>2. i \in Nat  BY ProjectShape DEF IInv
    <2>3. walked' = walked \cup {i} /\ FileAt(i).visited
          BY <2>1 DEF Pass, Next1, Unwalked
    <2>4. Warning("skipped", i) \in [kind : Kinds, at : Nat]
          BY <2>2 DEF Warning, Kinds
    <2>5. TypeOK'  BY <1>3, <2>1, <2>3, <2>4 DEF IInv, TypeOK, SkipFile, walk
    <2>6. RecursionGuarded'  BY <1>3 DEF IInv, RecursionGuarded, SkipFile, walk
    <2> QED BY <2>5, <2>6 DEF IInv
  <1>4. CASE ReadFile
    <2>1. PICK i \in Files :
            /\ Next1(i) /\ walked' = walked \cup {i} /\ directives' = Index(Reads(i))
            /\ nearMiss' =
                 IF FileAt(i).nearMiss /\ Dir(i) \notin DOMAIN nearMiss
                 THEN [d \in DOMAIN nearMiss \cup {Dir(i)} |->
                         IF d = Dir(i) THEN i ELSE nearMiss[d]]
                 ELSE nearMiss
          BY <1>4 DEF ReadFile
    <2>2. FileAt(i).visited  BY <2>1 DEF Next1, Unwalked
    <2>3. /\ DOMAIN directives' \subseteq DOMAIN project.groups
          /\ \A g \in DOMAIN directives' : directives'[g] \in BOOLEAN
          BY <2>1, IndexShape DEF IInv
    <2>4. \A d \in DOMAIN nearMiss' : nearMiss'[d] \in walked' /\ Dir(nearMiss'[d]) = d
          BY <2>1 DEF IInv, TypeOK
    <2>5. TypeOK'
          BY <1>4, <2>1, <2>2, <2>3, <2>4 DEF IInv, TypeOK, ReadFile, walk
    <2>6. RecursionGuarded'  BY <1>4 DEF IInv, RecursionGuarded, ReadFile, walk
    <2> QED BY <2>5, <2>6 DEF IInv
  <1>5. CASE OpenModule
    <2>1. PICK i \in Files :
            /\ Next1(i) /\ walked' = walked \cup {i} /\ directives' = Index(Reads(i))
            /\ extracting' = i /\ copies' \subseteq Fns
          BY <1>5 DEF OpenModule
    <2>2. FileAt(i).visited  BY <2>1 DEF Next1, Unwalked
    <2>3. /\ DOMAIN directives' \subseteq DOMAIN project.groups
          /\ \A g \in DOMAIN directives' : directives'[g] \in BOOLEAN
          BY <2>1, IndexShape DEF IInv
    <2>4. i # 0 /\ i \in walked'  BY <2>1, ProjectShape DEF IInv
    <2>5. TypeOK'
          BY <1>5, <2>1, <2>2, <2>3, <2>4 DEF IInv, TypeOK, OpenModule, walk
    <2>6. RecursionGuarded'  BY <1>5 DEF IInv, RecursionGuarded, OpenModule, walk
    <2> QED BY <2>5, <2>6 DEF IInv
  <1>6. CASE WalkCopy
    <2>1. PICK f \in copies :
            /\ copies' = copies \ {f}
            /\ stack' = << [fn |-> f, next |-> 1, seed |-> Root, real |-> <<>>,
                            file |-> FnAt(f).file] >>
            /\ open' = {Key(f)}
          BY <1>6 DEF WalkCopy
    <2>2. f \in Fns /\ FnAt(f).file \in Files
          BY ProjectShape DEF IInv, TypeOK
    <2>3. Root \in [path : Seq(Segment), resolved : BOOLEAN] /\ <<>> \in Seq(Segment)
          BY DEF Root
    <2>4. [fn |-> f, next |-> 1, seed |-> Root, real |-> <<>>, file |-> FnAt(f).file] \in Frame
          BY <2>2, <2>3 DEF Frame
    <2>5. stack' \in Seq(Frame)  BY <2>1, <2>4
    <2>6. Len(stack') = 1 /\ DOMAIN stack' = {1} /\ stack'[1].fn = f
          BY <2>1
    <2>7. TypeOK'  BY <1>6, <2>1, <2>5 DEF IInv, TypeOK, WalkCopy
    <2>8. RecursionGuarded'  BY <2>1, <2>6 DEF RecursionGuarded
    <2> QED BY <2>7, <2>8 DEF IInv
  <1>7. CASE CloseModule
    <2>1. /\ modules \in Seq([file : Files, routes : Routes]) /\ found \in Routes
          /\ extracting \in walked /\ extracting \in Files
          BY <1>7 DEF IInv, TypeOK, CloseModule
    <2>2. modules' \in Seq([file : Files, routes : Routes])
      <3>1. [file |-> extracting, routes |-> found] \in [file : Files, routes : Routes]
            BY <2>1
      <3>2. Append(modules, [file |-> extracting, routes |-> found])
              \in Seq([file : Files, routes : Routes])
            BY <2>1, <3>1, AppendProperties
      <3> QED BY <1>7, <2>1, <3>2 DEF CloseModule
    <2>3. found' \in Routes  BY <1>7 DEF CloseModule, Routes
    <2>4. moduleDirs' \subseteq {Dir(i) : i \in walked}
          BY <1>7, <2>1 DEF IInv, TypeOK, CloseModule
    <2>5. TypeOK'
          BY <1>7, <2>2, <2>3, <2>4 DEF IInv, TypeOK, CloseModule
    <2>6. RecursionGuarded'  BY <1>7 DEF IInv, RecursionGuarded, CloseModule
    <2> QED BY <2>5, <2>6 DEF IInv
  <1>8. CASE Report
    <2>1. /\ \A d \in Missed : Warning("nearMiss", nearMiss[d]) \in [kind : Kinds, at : Nat]
          /\ \A g \in Detached : Warning("detached", g) \in [kind : Kinds, at : Nat]
          BY ProjectShape DEF IInv, TypeOK, Missed, Detached, Warning, Kinds
    <2>2. TypeOK'  BY <1>8, <2>1 DEF IInv, TypeOK, Report, walk
    <2>3. RecursionGuarded'  BY <1>8 DEF IInv, RecursionGuarded, Report, walk
    <2> QED BY <2>2, <2>3 DEF IInv
  <1> QED BY <1>3, <1>4, <1>5, <1>6, <1>7, <1>8 DEF Visit

\* Moving on in a body leaves the walks in progress what they were.
LEMMA AdvancingKeeps ==
    ASSUME IInv, stack # <<>>, project' = project, stack' = Advanced, open' = open
    PROVE  stack' \in Seq(Frame) /\ RecursionGuarded'
  <1>1. stack \in Seq(Frame) /\ DOMAIN stack = 1..Len(stack)  BY DEF IInv, TypeOK
  <1>2. /\ stack' \in Seq(Frame) /\ Len(stack') = Len(stack)
        /\ \A i \in 1..Len(stack) : stack'[i].fn = stack[i].fn
        BY TopShape DEF IInv
  <1>3. DOMAIN stack' = DOMAIN stack  BY <1>1, <1>2
  <1>4. \A f : Key(f)' = Key(f)  BY SameProject
  <1>5. {Key(stack[i].fn) : i \in DOMAIN stack}' = {Key(stack[i].fn) : i \in DOMAIN stack}
        BY <1>1, <1>2, <1>3, <1>4
  <1>6. \A i, j \in DOMAIN stack' :
          Key(stack[i].fn)' = Key(stack[j].fn)' => i = j
        BY <1>1, <1>2, <1>3, <1>4 DEF IInv, RecursionGuarded
  <1> QED BY <1>2, <1>5, <1>6 DEF IInv, RecursionGuarded

\* What a call resolves to is typed, and the package it read is indexed.
LEMMA CallShape ==
    ASSUME IInv, Calling
    PROVE  /\ stack # <<>> /\ Item \in Call
           /\ Followable \subseteq Fns /\ StartFile \in Files
           /\ DOMAIN Resolved \subseteq DOMAIN project.groups
           /\ \A g \in DOMAIN Resolved : Resolved[g] \in BOOLEAN
  <1>1. stack # <<>> /\ Top.next <= Len(Body) /\ Item.op = "call"
        BY DEF Calling, Visiting
  <1>2. Body \in Seq(Registration \cup Call) /\ Top \in Frame  BY <1>1, TopShape DEF IInv
  <1>3. Top.next \in DOMAIN Body /\ Top.fn \in Fns /\ Top.file \in Files
        BY <1>1, <1>2 DEF Frame
  <1>4. Item \in Registration \cup Call  BY <1>2, <1>3 DEF Item
  <1>5. Item \in Call  BY <1>1, <1>4 DEF Registration, Call
  <1>6. Item.from \in {0} \cup Files
        BY <1>1, <1>3, ProjectShape DEF IInv, Item, Body
  <1>7. StartFile \in Files  BY <1>3, <1>6 DEF StartFile, StartOf
  <1>8. Followable \subseteq Fns  BY DeclaredShape DEF Followable, Targets
  <1>9. /\ DOMAIN Resolved \subseteq DOMAIN project.groups
        /\ \A g \in DOMAIN Resolved : Resolved[g] \in BOOLEAN
        BY IndexShape DEF IInv, TypeOK, Resolved
  <1> QED BY <1>1, <1>5, <1>7, <1>8, <1>9

LEMMA StepKeeps ==
    ASSUME IInv, Step
    PROVE  IInv'
  <1>1. /\ project' = project /\ walked' = walked /\ nearMiss' = nearMiss
        /\ moduleDirs' = moduleDirs /\ extracting' = extracting /\ copies' = copies
        /\ modules' = modules /\ done' = done /\ stack # <<>>
        BY CallShape DEF Step, Register, PassCall, CutCycle, RefuseCall, FollowCall,
                         Return, Visiting, Calling
  <1>2. /\ Files' = Files /\ Fns' = Fns /\ Frame' = Frame /\ Sites' = Sites
        /\ Routes' = Routes /\ project' \in Projects
        /\ \A f : Key(f)' = Key(f)
        /\ \A i : (Dir(i) = Dir(i)') /\ (FileAt(i) = FileAt(i)')
        BY <1>1, SameProject DEF IInv
  <1> USE <1>1, <1>2
  <1>3. CASE Register
    <2>1. stack' \in Seq(Frame) /\ RecursionGuarded'
          BY <1>3, AdvancingKeeps DEF Register
    <2>2. Site \in Sites /\ Top \in Frame /\ Body \in Seq(Registration \cup Call)
          BY TopShape DEF IInv
    <2>3. Item \in Registration
      <3>1. Top.next \in DOMAIN Body  BY <1>3, <2>2 DEF Register, Visiting, Frame
      <3> QED BY <1>3, <2>2, <3>1 DEF Register, Item, Registration, Call
    <2>4. /\ PrefixOf(Item.reg, Top.seed) \in [path : Seq(Segment), resolved : BOOLEAN]
          /\ Holds(Item.reg, Top.real) \in Seq(Segment)
          BY <2>2, <2>3, PrefixShape DEF Registration, Frame
    <2>5. [site |-> Site, path |-> PrefixOf(Item.reg, Top.seed).path,
           real |-> Holds(Item.reg, Top.real)]
            \in [site : Sites, path : Seq(Segment), real : Seq(Segment)]
          BY <2>2, <2>4
    <2>6. found' \in Routes
      <3>1. found \in Routes  BY DEF IInv, TypeOK
      <3>2. Append(found, [site |-> Site, path |-> PrefixOf(Item.reg, Top.seed).path,
                           real |-> Holds(Item.reg, Top.real)]) \in Routes
            BY <2>5, <3>1, AppendProperties DEF Routes
      <3> QED BY <1>3, <3>1, <3>2 DEF Register
    <2>7. unresolved' \subseteq Sites /\ recognised' \subseteq Sites
          BY <1>3, <2>2 DEF Register, IInv, TypeOK
    <2>8. /\ DOMAIN directives' = DOMAIN directives
          /\ \A g \in DOMAIN directives' : directives'[g] \in BOOLEAN
          BY <1>3 DEF Register, Attach, IInv, TypeOK
    <2>9. TypeOK'
          BY <1>3, <2>1, <2>6, <2>7, <2>8 DEF IInv, TypeOK, Register
    <2> QED BY <2>1, <2>9 DEF IInv
  <1>4. CASE PassCall \/ CutCycle
    <2>1. stack' \in Seq(Frame) /\ RecursionGuarded'
          BY <1>4, AdvancingKeeps DEF PassCall, CutCycle
    <2>2. /\ DOMAIN directives' \subseteq DOMAIN project.groups
          /\ \A g \in DOMAIN directives' : directives'[g] \in BOOLEAN
          BY <1>4, CallShape DEF PassCall, CutCycle, IInv, TypeOK
    <2>3. TypeOK'
          BY <1>4, <2>1, <2>2 DEF IInv, TypeOK, PassCall, CutCycle
    <2> QED BY <2>1, <2>3 DEF IInv
  <1>5. CASE RefuseCall
    <2>1. stack' \in Seq(Frame) /\ RecursionGuarded'
          BY <1>5, AdvancingKeeps DEF RefuseCall
    <2>2. /\ DOMAIN directives' \subseteq DOMAIN project.groups
          /\ \A g \in DOMAIN directives' : directives'[g] \in BOOLEAN
          BY <1>5, CallShape DEF RefuseCall
    <2>3. Warning("refused", Site) \in [kind : {"refused"}, at : Sites]
          BY TopShape DEF IInv, Warning
    <2>4. warnings' \subseteq [kind : Kinds, at : Nat] \cup [kind : {"refused"}, at : Sites]
          BY <1>5, <2>3 DEF RefuseCall, IInv, TypeOK
    <2>5. TypeOK'
          BY <1>5, <2>1, <2>2, <2>4 DEF IInv, TypeOK, RefuseCall
    <2> QED BY <2>1, <2>5 DEF IInv
  <1>6. CASE FollowCall
    <2>1. PICK f \in Followable :
            /\ Key(f) \notin open
            /\ stack' = Append(Advanced,
                 [fn |-> f, next |-> 1, seed |-> Seeded(Item.args, Top.seed),
                  real |-> HeldBy(Item.args, Top.real),
                  file |-> IF Item.owner = 0 THEN FnAt(f).file ELSE StartFile])
            /\ open' = open \cup {Key(f)}
          BY <1>6 DEF FollowCall, Cuts
    <2> DEFINE callee == [fn |-> f, next |-> 1, seed |-> Seeded(Item.args, Top.seed),
                          real |-> HeldBy(Item.args, Top.real),
                          file |-> IF Item.owner = 0 THEN FnAt(f).file ELSE StartFile]
    <2>2. /\ Item \in Call /\ f \in Fns /\ StartFile \in Files /\ FnAt(f).file \in Files
          /\ DOMAIN directives' \subseteq DOMAIN project.groups
          /\ \A g \in DOMAIN directives' : directives'[g] \in BOOLEAN
          BY <1>6, CallShape, ProjectShape DEF FollowCall, IInv
    <2>3. /\ Advanced \in Seq(Frame) /\ Top \in Frame /\ Len(Advanced) = Len(stack)
          /\ Len(stack) \in Nat
          /\ \A i \in 1..Len(stack) : Advanced[i].fn = stack[i].fn
          BY TopShape DEF IInv
    <2>4. callee \in Frame
      <3>1. /\ Seeded(Item.args, Top.seed) \in [path : Seq(Segment), resolved : BOOLEAN]
            /\ HeldBy(Item.args, Top.real) \in Seq(Segment)
            BY <2>2, <2>3, SeedShape DEF Call, Frame
      <3> QED BY <2>2, <3>1 DEF Frame
    <2>5. /\ stack' \in Seq(Frame) /\ Len(stack') = Len(stack) + 1
          /\ stack'[Len(stack) + 1].fn = f
          /\ \A i \in 1..Len(stack) : stack'[i].fn = stack[i].fn
      <3> HIDE DEF callee
      <3>1. stack' = Append(Advanced, callee)  BY <2>1 DEF callee
      <3>2. callee.fn = f  BY DEF callee
      <3> QED BY <2>3, <2>4, <3>1, <3>2, AppendProperties
    <2>6. stack \in Seq(Frame) /\ DOMAIN stack = 1..Len(stack)
          /\ DOMAIN stack' = 1..(Len(stack) + 1)
          BY <2>5 DEF IInv, TypeOK
    <2>7. RecursionGuarded'
      <3>1. {Key(stack[i].fn) : i \in DOMAIN stack}'
              = {Key(stack[i].fn) : i \in DOMAIN stack} \cup {Key(f)}
            BY <2>3, <2>5, <2>6
      <3>2. open = {Key(stack[i].fn) : i \in DOMAIN stack}  BY DEF IInv, RecursionGuarded
      <3>3. \A i, j \in DOMAIN stack' : Key(stack[i].fn)' = Key(stack[j].fn)' => i = j
        <4> SUFFICES ASSUME NEW i \in DOMAIN stack', NEW j \in DOMAIN stack',
                            Key(stack[i].fn)' = Key(stack[j].fn)'
                     PROVE  i = j
            OBVIOUS
        <4>1. CASE i \in DOMAIN stack /\ j \in DOMAIN stack
              BY <2>5, <2>6, <4>1 DEF IInv, RecursionGuarded
        <4>2. CASE i \in DOMAIN stack /\ j \notin DOMAIN stack
          <5>1. j = Len(stack) + 1  BY <2>3, <2>6, <4>2
          <5>2. Key(stack[i].fn) = Key(f)  BY <2>5, <2>6, <4>2, <5>1
          <5> QED BY <2>1, <3>2, <4>2, <5>2
        <4>3. CASE i \notin DOMAIN stack /\ j \in DOMAIN stack
          <5>1. i = Len(stack) + 1  BY <2>3, <2>6, <4>3
          <5>2. Key(stack[j].fn) = Key(f)  BY <2>5, <2>6, <4>3, <5>1
          <5> QED BY <2>1, <3>2, <4>3, <5>2
        <4>4. CASE i \notin DOMAIN stack /\ j \notin DOMAIN stack
              BY <2>3, <2>6, <4>4
        <4> QED BY <4>1, <4>2, <4>3, <4>4
      <3> QED BY <2>1, <3>1, <3>2, <3>3 DEF RecursionGuarded
    <2>8. TypeOK'  BY <1>6, <2>2, <2>5 DEF IInv, TypeOK, FollowCall
    <2> QED BY <2>7, <2>8 DEF IInv
  <1>7. CASE Return
    <2>1. /\ stack' = SubSeq(stack, 1, Len(stack) - 1) /\ open' = open \ {Key(Top.fn)}
          BY <1>7 DEF Return
    <2>2. /\ stack \in Seq(Frame) /\ Len(stack) \in Nat \ {0}
          /\ DOMAIN stack = 1..Len(stack)
          BY TopShape DEF IInv, TypeOK
    <2>3. /\ stack' \in Seq(Frame) /\ Len(stack') = Len(stack) - 1
          /\ \A i \in 1..(Len(stack) - 1) : stack'[i] = stack[i]
          BY <2>1, <2>2
    <2>4. DOMAIN stack' = 1..(Len(stack) - 1)  BY <2>2, <2>3
    <2>5. RecursionGuarded'
      <3>1. {Key(stack[i].fn) : i \in DOMAIN stack}'
              = {Key(stack[i].fn) : i \in 1..(Len(stack) - 1)}
            BY <2>3, <2>4
      <3>2. \A i \in 1..(Len(stack) - 1) : Key(stack[i].fn) # Key(Top.fn)
            BY <2>2 DEF IInv, RecursionGuarded, Top
      <3>3. open = {Key(stack[i].fn) : i \in 1..(Len(stack) - 1)} \cup {Key(Top.fn)}
            BY <2>2 DEF IInv, RecursionGuarded, Top
      <3>4. \A i, j \in DOMAIN stack' : Key(stack[i].fn)' = Key(stack[j].fn)' => i = j
            BY <2>2, <2>3, <2>4 DEF IInv, RecursionGuarded
      <3> QED BY <2>1, <3>1, <3>2, <3>3, <3>4 DEF RecursionGuarded
    <2>6. TypeOK'  BY <1>7, <2>3 DEF IInv, TypeOK, Return
    <2> QED BY <2>5, <2>6 DEF IInv
  <1> QED BY <1>3, <1>4, <1>5, <1>6, <1>7 DEF Step

-----------------------------------------------------------------------------
(* The theorems. *)

LEMMA InitKeeps ==
    ASSUME Init
    PROVE  IInv
  <1>1. <<>> \in Seq(Frame) /\ <<>> \in Routes
        /\ <<>> \in Seq([file : Files, routes : Routes])
        BY DEF Routes
  <1>2. DOMAIN directives = {} /\ DOMAIN nearMiss = {} /\ DOMAIN stack = {}
        BY DEF Init
  <1>3. TypeOK  BY <1>1, <1>2 DEF Init, TypeOK
  <1>4. RecursionGuarded  BY <1>2 DEF Init, RecursionGuarded
  <1> QED BY <1>3, <1>4 DEF Init, IInv

LEMMA NextKeeps ==
    ASSUME IInv, [Next]_vars
    PROVE  IInv'
  <1>1. CASE Visit  BY <1>1, VisitKeeps
  <1>2. CASE Step  BY <1>2, StepKeeps
  <1>3. CASE UNCHANGED vars
    <2>1. project' = project  BY <1>3 DEF vars
    <2> QED BY <1>3, <2>1, SameProject DEF vars, walk, IInv, TypeOK, RecursionGuarded
  <1> QED BY <1>1, <1>2, <1>3 DEF Next, Finished

\* The inductive invariant of discovery.
THEOREM DiscoveryInvariant == Spec => []IInv
  <1>1. Init => IInv  BY InitKeeps
  <1>2. IInv /\ [Next]_vars => IInv'  BY NextKeeps
  <1> QED BY <1>1, <1>2, PTL DEF Spec

\* The state of discovery is always well typed, in every project.
THEOREM TypeCorrect == Spec => []TypeOK
  <1>1. IInv => TypeOK  BY DEF IInv
  <1> QED BY <1>1, DiscoveryInvariant, PTL

\* The guard of the recursion is always the walks in progress, in every project:
\* so no chain of helpers and delegates is longer than there are methods.
THEOREM RecursionAlwaysGuarded == Spec => []RecursionGuarded
  <1>1. IInv => RecursionGuarded  BY DEF IInv
  <1> QED BY <1>1, DiscoveryInvariant, PTL

-----------------------------------------------------------------------------
(* Prefixes. *)

\* The registrars of a body's i-th item.
RegistrarsOf(item) == IF item.op = "route" THEN {item.reg} ELSE item.args

\* No registration and no call is handed a Group call as it is written.
NoGroupCalls(p) ==
    \A f \in DOMAIN p.fns : \A i \in DOMAIN p.fns[f].body :
        \A reg \in RegistrarsOf(p.fns[f].body[i]) : reg.via # "call"

\* The prefix a walk starts from is the one its registrar has, if it resolves.
FramesHold ==
    \A k \in DOMAIN stack : stack[k].seed.resolved => stack[k].seed.path = stack[k].real

PInv == IInv /\ FramesHold /\ RoutesKeepPrefix

\* A registrar resolves to the path it has, if its body's seed does.
LEMMA PrefixIsHeld ==
    ASSUME NEW reg \in Reg, reg.via # "call",
           NEW seed \in [path : Seq(Segment), resolved : BOOLEAN], NEW real \in Seq(Segment),
           seed.resolved => seed.path = real,
           PrefixOf(reg, seed).resolved
    PROVE  PrefixOf(reg, seed).path = Holds(reg, real)
  <1>1. reg.via \in {"variable", "unknown"}  BY DEF Reg
  <1>2. CASE reg.via = "variable"  BY <1>2 DEF PrefixOf, Holds
  <1>3. CASE reg.via = "unknown"  BY <1>3 DEF PrefixOf, Holds, Root
  <1> QED BY <1>1, <1>2, <1>3

\* So does what a helper is handed.
LEMMA SeedIsHeld ==
    ASSUME NEW args \in SUBSET Reg, \A x, y \in args : x = y,
           \A reg \in args : reg.via # "call",
           NEW seed \in [path : Seq(Segment), resolved : BOOLEAN], NEW real \in Seq(Segment),
           seed.resolved => seed.path = real,
           Seeded(args, seed).resolved
    PROVE  Seeded(args, seed).path = HeldBy(args, real)
  <1>1. CASE args = {}  BY <1>1 DEF Seeded, HeldBy, Root
  <1>2. CASE args # {}
    <2>1. PICK reg \in args : TRUE  BY <1>2
    <2>2. (CHOOSE x \in args : TRUE) = reg  BY <2>1
    <2>3. CASE reg.via = "variable"
      <3>1. (CHOOSE x \in args : x.via = "variable") = reg  BY <2>1, <2>3
      <3>2. \E x \in args : x.via = "variable"  BY <2>1, <2>3
      <3>3. Seeded(args, seed) = PrefixOf(reg, seed)  BY <3>1, <3>2 DEF Seeded
      <3> QED BY <1>2, <2>2, <3>3, PrefixIsHeld DEF HeldBy
    <2>4. CASE reg.via # "variable"
      <3>1. ~\E x \in args : x.via = "variable"  BY <2>1, <2>4
      <3>2. reg.via = "unknown"  BY <2>4 DEF Reg
      <3> QED BY <1>2, <2>2, <3>1, <3>2 DEF Seeded, HeldBy, Holds, Root
    <2> QED BY <2>3, <2>4
  <1> QED BY <1>1, <1>2

\* A route is emitted under the path its registrar has, through every chain of
\* helpers and delegates, in every project that hands on variables.
THEOREM PrefixesKept ==
    ASSUME \A p \in Projects : NoGroupCalls(p)
    PROVE  Spec => []RoutesKeepPrefix
  <1>1. Init => PInv
    <2>1. Init => IInv
      <3> SUFFICES ASSUME Init PROVE IInv
          OBVIOUS
      <3> QED BY InitKeeps
    <2>2. Init => FramesHold /\ RoutesKeepPrefix
          BY DEF Init, FramesHold, RoutesKeepPrefix
    <2> QED BY <2>1, <2>2 DEF PInv
  <1>2. PInv /\ [Next]_vars => PInv'
    <2> SUFFICES ASSUME PInv, [Next]_vars PROVE PInv'
        OBVIOUS
    <2>0. IInv /\ IInv'  BY NextKeeps DEF PInv
    <2>1. stack \in Seq(Frame) /\ DOMAIN stack = 1..Len(stack) /\ Len(stack) \in Nat
          BY <2>0 DEF IInv, TypeOK
    <2>2. CASE Visit
      <3>1. CASE WalkCopy
        <4>1. PICK f : stack' = << [fn |-> f, next |-> 1, seed |-> Root, real |-> <<>>,
                                    file |-> FnAt(f).file] >>
              BY <3>1 DEF WalkCopy
        <4>2. FramesHold'  BY <4>1 DEF FramesHold, Root
        <4> QED BY <2>0, <3>1, <4>2 DEF PInv, RoutesKeepPrefix, WalkCopy
      <3>2. CASE CloseModule
            BY <2>0, <3>2 DEF PInv, FramesHold, RoutesKeepPrefix, CloseModule
      <3>3. CASE SkipFile \/ ReadFile \/ OpenModule \/ Report
            BY <2>0, <3>3 DEF PInv, FramesHold, RoutesKeepPrefix, SkipFile, ReadFile,
                              OpenModule, Report, walk
      <3> QED BY <2>2, <3>1, <3>2, <3>3 DEF Visit
    <2>3. CASE Step
      <3>1. stack # <<>>
            BY <2>0, <2>3, CallShape DEF Step, Register, PassCall, CutCycle, RefuseCall,
                                        FollowCall, Return, Visiting, Calling
      <3>2. /\ Top \in Frame /\ Len(Advanced) = Len(stack) /\ Advanced \in Seq(Frame)
            /\ \A i \in 1..Len(stack) : /\ Advanced[i].seed = stack[i].seed
                                        /\ Advanced[i].real = stack[i].real
            /\ Top.seed.resolved => Top.seed.path = Top.real
            /\ Len(stack) \in Nat \ {0}
        <4>1. Len(stack) \in DOMAIN stack  BY <2>0, <2>1, <3>1, TopShape DEF IInv
        <4> QED BY <2>0, <3>1, <4>1, TopShape DEF IInv, PInv, FramesHold, Top
      <3>3. stack' = Advanced => FramesHold'
            BY <2>1, <3>2 DEF PInv, FramesHold
      <3>4. ASSUME Visiting
            PROVE  /\ \A reg \in RegistrarsOf(Item) : reg.via # "call"
                   /\ Item.op = "call" => \A x, y \in Item.args : x = y
        <4>1. Top.fn \in Fns /\ Top.next \in DOMAIN FnAt(Top.fn).body
              BY <2>0, <3>1, <3>2, <3>4, TopShape DEF Visiting, Frame, IInv, Body
        <4>2. NoGroupCalls(project) /\ WellFormed(project)
              BY <2>0, ProjectsAssumption DEF IInv
        <4> QED BY <4>1, <4>2 DEF NoGroupCalls, WellFormed, Item, Body, Fns, FnAt
      <3>5. CASE Register
        <4>1. Item \in Registration
          <5>1. Body \in Seq(Registration \cup Call) /\ Top.next \in DOMAIN Body
                BY <2>0, <3>1, <3>2, <3>5, TopShape DEF Register, Visiting, Frame, IInv
          <5> QED BY <3>5, <5>1 DEF Register, Item, Registration, Call
        <4>2. PrefixOf(Item.reg, Top.seed).resolved
                => PrefixOf(Item.reg, Top.seed).path = Holds(Item.reg, Top.real)
              BY <3>2, <3>4, <3>5, <4>1, PrefixIsHeld
                 DEF Register, Registration, RegistrarsOf, Frame
        <4>3. RoutesKeepPrefix'
          <5>1. CASE found' = found  BY <5>1 DEF PInv, RoutesKeepPrefix
          <5>2. CASE found' # found
            <6> DEFINE route == [site |-> Site, path |-> PrefixOf(Item.reg, Top.seed).path,
                                 real |-> Holds(Item.reg, Top.real)]
            <6>1. found' = Append(found, route) /\ route.path = route.real
                  BY <3>5, <4>2, <5>2 DEF Register
            <6> HIDE DEF route
            <6>2. found \in Routes /\ Len(found) \in Nat /\ DOMAIN found = 1..Len(found)
                  BY <2>0 DEF IInv, TypeOK, Routes
            <6>3. /\ DOMAIN found' = 1..(Len(found) + 1)
                  /\ found'[Len(found) + 1] = route
                  /\ \A k \in 1..Len(found) : found'[k] = found[k]
                  BY <6>1, <6>2 DEF Routes
            <6> QED BY <6>1, <6>2, <6>3 DEF PInv, RoutesKeepPrefix
          <5> QED BY <5>1, <5>2
        <4> QED BY <2>0, <3>3, <3>5, <4>3 DEF PInv, Register
      <3>6. CASE PassCall \/ CutCycle \/ RefuseCall
            BY <2>0, <3>3, <3>6 DEF PInv, RoutesKeepPrefix, PassCall, CutCycle, RefuseCall
      <3>7. CASE FollowCall
        <4> DEFINE callee(f) ==
              [fn |-> f, next |-> 1, seed |-> Seeded(Item.args, Top.seed),
               real |-> HeldBy(Item.args, Top.real),
               file |-> IF Item.owner = 0 THEN FnAt(f).file ELSE StartFile]
        <4>1. PICK f : stack' = Append(Advanced, callee(f))  BY <3>7 DEF FollowCall
        <4>2. Item \in Call  BY <2>0, <3>7, CallShape DEF FollowCall
        <4>3. callee(f).seed.resolved => callee(f).seed.path = callee(f).real
          <5>1. Visiting /\ Item.op = "call"  BY <3>7 DEF FollowCall, Calling
          <5>2. /\ Item.args \in SUBSET Reg /\ \A x, y \in Item.args : x = y
                /\ \A reg \in Item.args : reg.via # "call"
                BY <3>4, <4>2, <5>1 DEF Call, RegistrarsOf
          <5>3. Top.seed \in [path : Seq(Segment), resolved : BOOLEAN]
                /\ Top.real \in Seq(Segment)
                BY <3>2 DEF Frame
          <5>4. Seeded(Item.args, Top.seed).resolved
                  => Seeded(Item.args, Top.seed).path = HeldBy(Item.args, Top.real)
                BY <3>2, <5>2, <5>3, SeedIsHeld
          <5> QED BY <5>4
        <4> HIDE DEF callee
        <4>4. /\ DOMAIN stack' = 1..(Len(stack) + 1)
              /\ stack'[Len(stack) + 1] = callee(f)
              /\ \A k \in 1..Len(stack) : stack'[k] = Advanced[k]
              BY <2>1, <3>2, <4>1
        <4>5. FramesHold'  BY <2>1, <3>2, <4>3, <4>4 DEF PInv, FramesHold
        <4> QED BY <2>0, <3>7, <4>5 DEF PInv, RoutesKeepPrefix, FollowCall
      <3>8. CASE Return
        <4>1. /\ DOMAIN stack' = 1..(Len(stack) - 1)
              /\ \A k \in 1..(Len(stack) - 1) : stack'[k] = stack[k]
              BY <2>1, <3>2, <3>8 DEF Return
        <4>2. FramesHold'  BY <2>1, <4>1 DEF PInv, FramesHold
        <4> QED BY <2>0, <3>8, <4>2 DEF PInv, RoutesKeepPrefix, Return
      <3> QED BY <2>3, <3>5, <3>6, <3>7, <3>8 DEF Step
    <2>4. CASE UNCHANGED vars
          BY <2>0, <2>4 DEF vars, walk, PInv, FramesHold, RoutesKeepPrefix
    <2> QED BY <2>2, <2>3, <2>4 DEF Next, Finished
  <1>3. PInv => RoutesKeepPrefix  BY DEF PInv
  <1> QED BY <1>1, <1>2, <1>3, PTL DEF Spec

-----------------------------------------------------------------------------
(* Near misses. *)

Misses(i) == FileAt(i).parses /\ FileAt(i).module = 0 /\ FileAt(i).nearMiss
HasModule(i) == FileAt(i).parses /\ FileAt(i).module # 0

\* The files come in order.
WalkedInOrder == \A i \in walked : \A j \in Unwalked : i < j

\* What is kept of a directory is its first near miss so far.
FirstMisses ==
    /\ \A d \in DOMAIN nearMiss : Misses(nearMiss[d])
    /\ \A i \in walked : Misses(i) => Dir(i) \in DOMAIN nearMiss /\ nearMiss[Dir(i)] <= i

\* The directories with a module are those of the files walked, but for the
\* module being extracted.
ModulesSeen ==
    /\ extracting # 0 => HasModule(extracting)
    /\ \A i \in walked : HasModule(i) =>
         Dir(i) \in moduleDirs \/ (extracting # 0 /\ Dir(i) = Dir(extracting))
    /\ \A d \in moduleDirs : \E i \in walked : HasModule(i) /\ Dir(i) = d

ReportedAt == {w.at : w \in {w \in warnings : w.kind = "nearMiss"}}

\* Near misses are reported once all is over.
ReportedLast ==
    /\ ~done => ReportedAt = {}
    /\ done => /\ extracting = 0 /\ Unwalked = {}
               /\ ReportedAt = {nearMiss[d] : d \in Missed}

NInv == IInv /\ WalkedInOrder /\ FirstMisses /\ ModulesSeen /\ ReportedLast

\* Nothing of this depends on how a body is walked.
LEMMA BodiesTellNothing ==
    ASSUME NInv, IInv', ReportedAt' = ReportedAt,
           UNCHANGED <<project, walked, nearMiss, moduleDirs, extracting, done>>
    PROVE  NInv'
  <1>1. /\ Files' = Files /\ \A i : FileAt(i)' = FileAt(i) /\ Dir(i)' = Dir(i)
        /\ Unwalked' = Unwalked /\ Missed' = Missed
        BY DEF Files, FileAt, Dir, Unwalked, Missed
  <1> QED BY <1>1 DEF NInv, WalkedInOrder, FirstMisses, ModulesSeen, ReportedLast, Misses, HasModule

\* Discovery keeps all of it, file by file.
LEMMA NearMissesKeep ==
    ASSUME NInv, [Next]_vars
    PROVE  NInv'
  <1>0. IInv /\ IInv'  BY NextKeeps DEF NInv
  <1>1. /\ project' = project
        /\ Files' = Files /\ \A i : FileAt(i)' = FileAt(i) /\ Dir(i)' = Dir(i)
        /\ Files \subseteq Nat \ {0} /\ walked \subseteq Files /\ walked' \subseteq Files
    <2>1. project' = project
          BY DEF Next, Visit, Step, Finished, vars, SkipFile, ReadFile, OpenModule, WalkCopy,
                 CloseModule, Report, Register, PassCall, CutCycle, RefuseCall, FollowCall, Return
    <2>2. Files' = Files /\ \A i : FileAt(i)' = FileAt(i) /\ Dir(i)' = Dir(i)
          BY <2>1 DEF Files, FileAt, Dir
    <2> QED BY <1>0, <2>1, <2>2, ProjectShape DEF IInv, TypeOK
  <1> USE <1>1
  <1>2. ASSUME NEW i \in Files, Next1(i), walked' = walked \cup {i}
        PROVE  /\ WalkedInOrder' /\ ~done /\ extracting = 0 /\ i \notin walked
               /\ \A j \in walked : j < i
    <2>1. i \in Unwalked /\ (\A j \in Unwalked : i <= j) /\ ~done /\ extracting = 0
          BY <1>2 DEF Next1, Idle
    <2>2. Unwalked' = Unwalked \ {i}  BY <1>2 DEF Unwalked
    <2>3. \A j \in walked : j < i  BY <2>1 DEF NInv, WalkedInOrder
    <2>4. \A j \in Unwalked' : i < j
      <3>1. Unwalked \subseteq Nat  BY DEF Unwalked
      <3> QED BY <2>1, <2>2, <3>1
    <2> QED BY <1>2, <2>1, <2>2, <2>3, <2>4 DEF NInv, WalkedInOrder, Unwalked
  <1>3. CASE SkipFile
    <2>1. PICK i \in Files : /\ Next1(i) /\ walked' = walked \cup {i} /\ ~FileAt(i).parses
                             /\ warnings' = warnings \cup {Warning("skipped", i)}
          BY <1>3 DEF SkipFile, Pass
    <2>2. ReportedAt' = ReportedAt /\ UNCHANGED <<nearMiss, moduleDirs, extracting, done>>
          BY <1>3, <2>1 DEF SkipFile, ReportedAt, Warning
    <2>3. WalkedInOrder' /\ ~done  BY <1>2, <2>1
    <2>4. FirstMisses' /\ ModulesSeen'
          BY <2>1, <2>2 DEF NInv, FirstMisses, ModulesSeen, Misses, HasModule
    <2>5. ReportedLast'  BY <2>2, <2>3 DEF NInv, ReportedLast
    <2> QED BY <1>0, <2>3, <2>4, <2>5 DEF NInv
  <1>4. CASE ReadFile
    <2>1. PICK i \in Files :
            /\ Next1(i) /\ walked' = walked \cup {i}
            /\ FileAt(i).parses /\ FileAt(i).module = 0
            /\ nearMiss' =
                 IF FileAt(i).nearMiss /\ Dir(i) \notin DOMAIN nearMiss
                 THEN [d \in DOMAIN nearMiss \cup {Dir(i)} |->
                         IF d = Dir(i) THEN i ELSE nearMiss[d]]
                 ELSE nearMiss
          BY <1>4 DEF ReadFile
    <2>2. ReportedAt' = ReportedAt /\ UNCHANGED <<moduleDirs, extracting, done>>
          BY <1>4 DEF ReadFile, ReportedAt
    <2>3. /\ WalkedInOrder' /\ ~done /\ i \notin walked
          /\ \A j \in walked : j < i
          BY <1>2, <2>1
    <2>4. ModulesSeen'  BY <2>1, <2>2 DEF NInv, ModulesSeen, HasModule
    <2>5. ReportedLast'  BY <2>2, <2>3 DEF NInv, ReportedLast
    <2>6. FirstMisses'
      <3>1. CASE FileAt(i).nearMiss /\ Dir(i) \notin DOMAIN nearMiss
        <4>1. /\ DOMAIN nearMiss' = DOMAIN nearMiss \cup {Dir(i)} /\ nearMiss'[Dir(i)] = i
              /\ \A d \in DOMAIN nearMiss : nearMiss'[d] = nearMiss[d]
              BY <2>1, <3>1
        <4>2. \A d \in DOMAIN nearMiss' : Misses(nearMiss'[d])
              BY <2>1, <3>1, <4>1 DEF NInv, FirstMisses, Misses
        <4>3. ASSUME NEW j \in walked', Misses(j)
              PROVE  Dir(j) \in DOMAIN nearMiss' /\ nearMiss'[Dir(j)] <= j
          <5>1. CASE j \in walked  BY <4>1, <4>3, <5>1 DEF NInv, FirstMisses
          <5>2. CASE j = i
            <6>1. i <= i  OBVIOUS
            <6> QED BY <4>1, <5>2, <6>1
          <5> QED BY <2>1, <5>1, <5>2
        <4> QED BY <4>2, <4>3 DEF FirstMisses, Misses
      <3>2. CASE ~(FileAt(i).nearMiss /\ Dir(i) \notin DOMAIN nearMiss)
        <4>1. nearMiss' = nearMiss  BY <2>1, <3>2
        <4>2. \A d \in DOMAIN nearMiss : nearMiss[d] \in walked  BY <1>0 DEF IInv, TypeOK
        <4>3. Misses(i) => Dir(i) \in DOMAIN nearMiss /\ nearMiss[Dir(i)] <= i
          <5> SUFFICES ASSUME Misses(i)
                       PROVE  Dir(i) \in DOMAIN nearMiss /\ nearMiss[Dir(i)] <= i
              OBVIOUS
          <5>1. Dir(i) \in DOMAIN nearMiss  BY <3>2 DEF Misses
          <5>2. nearMiss[Dir(i)] < i /\ nearMiss[Dir(i)] \in Nat  BY <2>3, <4>2, <5>1
          <5> QED BY <5>1, <5>2
        <4> QED BY <2>1, <4>1, <4>3 DEF NInv, FirstMisses, Misses
      <3> QED BY <3>1, <3>2
    <2> QED BY <1>0, <2>3, <2>4, <2>5, <2>6 DEF NInv
  <1>5. CASE OpenModule
    <2>1. PICK i \in Files : /\ Next1(i) /\ walked' = walked \cup {i} /\ extracting' = i
                             /\ FileAt(i).parses /\ FileAt(i).module # 0
          BY <1>5 DEF OpenModule
    <2>2. ReportedAt' = ReportedAt /\ UNCHANGED <<nearMiss, moduleDirs, done>>
          BY <1>5 DEF OpenModule, ReportedAt
    <2>3. WalkedInOrder' /\ ~done /\ extracting = 0  BY <1>2, <2>1
    <2>4. FirstMisses'  BY <2>1, <2>2 DEF NInv, FirstMisses, Misses
    <2>5. ModulesSeen'  BY <2>1, <2>2, <2>3 DEF NInv, ModulesSeen, HasModule
    <2>6. ReportedLast'  BY <2>2, <2>3 DEF NInv, ReportedLast
    <2> QED BY <1>0, <2>3, <2>4, <2>5, <2>6 DEF NInv
  <1>6. CASE CloseModule
    <2>1. /\ extracting # 0 /\ moduleDirs' = moduleDirs \cup {Dir(extracting)}
          /\ extracting' = 0 /\ UNCHANGED <<walked, nearMiss, warnings, done>>
          BY <1>6 DEF CloseModule
    <2>2. extracting \in walked /\ ~done  BY <1>0, <2>1 DEF IInv, TypeOK, NInv, ReportedLast
    <2>3. ModulesSeen'  BY <2>1, <2>2 DEF NInv, ModulesSeen, HasModule
    <2>4. WalkedInOrder' /\ FirstMisses'
          BY <2>1 DEF NInv, WalkedInOrder, Unwalked, FirstMisses, Misses
    <2>5. ReportedLast'  BY <2>1, <2>2 DEF NInv, ReportedLast, ReportedAt
    <2> QED BY <1>0, <2>3, <2>4, <2>5 DEF NInv
  <1>7. CASE Report
    <2>1. /\ Idle /\ Unwalked = {} /\ done' = TRUE
          /\ warnings' = warnings \cup {Warning("nearMiss", nearMiss[d]) : d \in Missed}
                                  \cup {Warning("detached", g) : g \in Detached}
          /\ UNCHANGED <<walked, nearMiss, moduleDirs, extracting>>
          BY <1>7 DEF Report
    <2>2. Unwalked' = Unwalked /\ Missed' = Missed  BY <2>1 DEF Unwalked, Missed
    <2>3. ReportedAt = {}  BY <2>1 DEF Idle, NInv, ReportedLast
    <2>4. ReportedAt' = {nearMiss[d] : d \in Missed}
      <3>1. \A w \in warnings : w.kind # "nearMiss"  BY <2>3 DEF ReportedAt
      <3>2. ASSUME NEW d \in Missed PROVE nearMiss[d] \in ReportedAt'
        <4>1. Warning("nearMiss", nearMiss[d]) \in warnings'  BY <2>1
        <4> QED BY <4>1 DEF ReportedAt, Warning
      <3>3. ASSUME NEW w \in warnings', w.kind = "nearMiss"
            PROVE  \E d \in Missed : w.at = nearMiss[d]
        <4>1. w \notin {Warning("detached", g) : g \in Detached}  BY <3>3 DEF Warning
        <4>2. PICK d \in Missed : w = Warning("nearMiss", nearMiss[d])
              BY <2>1, <3>1, <3>3, <4>1
        <4> QED BY <4>2 DEF Warning
      <3>4. ReportedAt' \subseteq {nearMiss[d] : d \in Missed}  BY <3>3 DEF ReportedAt
      <3> QED BY <3>2, <3>4
    <2>5. ReportedLast'  BY <2>1, <2>2, <2>4 DEF ReportedLast, Idle
    <2>6. WalkedInOrder' /\ FirstMisses' /\ ModulesSeen'
          BY <2>1, <2>2 DEF NInv, WalkedInOrder, FirstMisses, ModulesSeen, Misses, HasModule
    <2> QED BY <1>0, <2>5, <2>6 DEF NInv
  <1>8. CASE RefuseCall
    <2>1. ReportedAt' = ReportedAt  BY <1>8 DEF RefuseCall, ReportedAt, Warning
    <2> QED BY <1>0, <1>8, <2>1, BodiesTellNothing DEF RefuseCall
  <1>9. CASE WalkCopy \/ Register \/ PassCall \/ CutCycle \/ FollowCall \/ Return
    <2>1. UNCHANGED <<project, walked, nearMiss, moduleDirs, extracting, warnings, done>>
          BY <1>9 DEF WalkCopy, Register, PassCall, CutCycle, FollowCall, Return
    <2>2. ReportedAt' = ReportedAt  BY <2>1 DEF ReportedAt
    <2> QED BY <1>0, <2>1, <2>2, BodiesTellNothing
  <1>10. CASE UNCHANGED vars
    <2>1. ReportedAt' = ReportedAt  BY <1>10 DEF vars, ReportedAt
    <2> QED BY <1>0, <1>10, <2>1, BodiesTellNothing DEF vars
  <1> QED BY <1>3, <1>4, <1>5, <1>6, <1>7, <1>8, <1>9, <1>10
          DEF Next, Visit, Step, Finished

\* A near miss is reported once for each directory without a module, at the
\* first file that has one, and for no other, in every project: whichever of
\* the two discovery comes to first.
THEOREM NearMissesAreHonest == Spec => []NearMissesHonest
  <1>1. Init => NInv
    <2> SUFFICES ASSUME Init PROVE NInv  OBVIOUS
    <2>1. walked = {} /\ DOMAIN nearMiss = {} /\ moduleDirs = {} /\ extracting = 0
          /\ ~done /\ warnings = {}
          BY DEF Init
    <2> QED BY <2>1, InitKeeps
            DEF NInv, WalkedInOrder, FirstMisses, ModulesSeen, ReportedLast, ReportedAt
  <1>2. NInv /\ [Next]_vars => NInv'  BY NearMissesKeep
  <1>3. NInv => NearMissesHonest
    <2> SUFFICES ASSUME NInv, done PROVE NearMissesHonest
        BY DEF NearMissesHonest
    <2> DEFINE missed == {i \in ReadFiles : FileAt(i).nearMiss /\ FileAt(i).module = 0}
               first == {i \in missed :
                           \A j \in ReadFiles : Dir(j) = Dir(i) =>
                               /\ FileAt(j).module = 0
                               /\ FileAt(j).nearMiss => i <= j}
    <2>1. /\ extracting = 0 /\ Unwalked = {}
          /\ ReportedAt = {nearMiss[d] : d \in Missed}
          BY DEF NInv, ReportedLast
    <2>2. /\ walked \subseteq Files /\ Files \subseteq Nat \ {0}
          /\ \A d \in DOMAIN nearMiss : nearMiss[d] \in walked /\ Dir(nearMiss[d]) = d
          BY ProjectShape DEF NInv, IInv, TypeOK
    <2>3. ReadFiles = {i \in walked : FileAt(i).parses}
          BY <2>1, <2>2 DEF ReadFiles, Unwalked, NInv, IInv, TypeOK
    <2>4. \A i \in walked : HasModule(i) => Dir(i) \in moduleDirs
          BY <2>1 DEF NInv, ModulesSeen
    <2>5. \A d \in moduleDirs : \E i \in walked : HasModule(i) /\ Dir(i) = d
          BY DEF NInv, ModulesSeen
    <2>6. ASSUME NEW d \in Missed PROVE nearMiss[d] \in first
      <3> DEFINE i == nearMiss[d]
      <3>1. i \in walked /\ Dir(i) = d /\ Misses(i) /\ d \notin moduleDirs
            BY <2>2 DEF Missed, NInv, FirstMisses
      <3>2. i \in missed  BY <2>3, <3>1 DEF Misses
      <3>3. ASSUME NEW j \in ReadFiles, Dir(j) = Dir(i)
            PROVE  FileAt(j).module = 0 /\ (FileAt(j).nearMiss => i <= j)
        <4>1. j \in walked /\ FileAt(j).parses  BY <2>3
        <4>2. FileAt(j).module = 0  BY <2>4, <3>1, <3>3, <4>1 DEF HasModule
        <4>3. FileAt(j).nearMiss => i <= j
              BY <3>1, <3>3, <4>1, <4>2 DEF NInv, FirstMisses, Misses
        <4> QED BY <4>2, <4>3
      <3> QED BY <3>2, <3>3
    <2>7. ASSUME NEW i \in first PROVE \E d \in Missed : i = nearMiss[d]
      <3>1. i \in walked /\ Misses(i)  BY <2>3 DEF Misses
      <3>2. Dir(i) \in DOMAIN nearMiss /\ nearMiss[Dir(i)] <= i
            BY <3>1 DEF NInv, FirstMisses
      <3>3. /\ nearMiss[Dir(i)] \in ReadFiles /\ Dir(nearMiss[Dir(i)]) = Dir(i)
            /\ Misses(nearMiss[Dir(i)])
            BY <2>2, <2>3, <3>2 DEF NInv, FirstMisses, Misses
      <3>4. i <= nearMiss[Dir(i)]  BY <3>3 DEF Misses
      <3>5. i = nearMiss[Dir(i)]
        <4>1. i \in Nat /\ nearMiss[Dir(i)] \in Nat  BY <2>2, <3>1, <3>2
        <4> QED BY <3>2, <3>4, <4>1
      <3>6. Dir(i) \notin moduleDirs
        <4> SUFFICES ASSUME Dir(i) \in moduleDirs PROVE FALSE
            OBVIOUS
        <4>1. PICK j \in walked : HasModule(j) /\ Dir(j) = Dir(i)  BY <2>5
        <4> QED BY <2>3, <4>1 DEF HasModule
      <3> QED BY <3>2, <3>5, <3>6 DEF Missed
    <2>8. ReportedAt = first
      <3> HIDE DEF first
      <3> QED BY <2>1, <2>6, <2>7
    <2> QED BY <2>8 DEF NearMissesHonest, ReportedAt
  <1> QED BY <1>1, <1>2, <1>3, PTL DEF Spec

-----------------------------------------------------------------------------
(* Directives. *)

Above(site) == FnAt(site.fn).body[site.item].above
Aboves == {Above(s) : s \in recognised}

\* A group is attached exactly when a registration visited stands right below
\* it, and it was indexed before that registration was visited.
AttachedExactly ==
    /\ \A g \in DOMAIN directives :
         directives[g] = (~project.groups[g].trailing /\ g \in Aboves)
    /\ Aboves \subseteq {0} \cup DOMAIN directives
    /\ \A g \in DOMAIN directives : FileAt(project.groups[g].file).parses

\* The packages being walked are indexed, and the files walked.
PackagesIndexed ==
    /\ \A i \in walked : FileAt(i).parses => GroupsOf({i}) \subseteq DOMAIN directives
    /\ extracting # 0 =>
         /\ \A f \in copies : FnAt(f).file \in PackageFiles(extracting)
         /\ GroupsOf(PackageFiles(extracting)) \subseteq DOMAIN directives
    /\ \A k \in DOMAIN stack :
         /\ FnAt(stack[k].fn).file \in PackageFiles(stack[k].file)
         /\ GroupsOf(PackageFiles(stack[k].file)) \subseteq DOMAIN directives

DetachedAt == {w.at : w \in {w \in warnings : w.kind = "detached"}}

DetachedLast ==
    /\ ~done => DetachedAt = {}
    /\ done => extracting = 0 /\ Unwalked = {} /\ DetachedAt = Detached

DInv == IInv /\ AttachedExactly /\ PackagesIndexed /\ DetachedLast

\* What the directives of a project depend on does not change.
LEMMA SamePackages ==
    ASSUME project' = project
    PROVE  /\ \A i : PackageFiles(i)' = PackageFiles(i) /\ FnAt(i)' = FnAt(i)
           /\ \A i : GroupsOf(PackageFiles(i))' = GroupsOf(PackageFiles(i))
           /\ \A i : GroupsOf({i})' = GroupsOf({i})
           /\ \A i : FileAt(i)' = FileAt(i) /\ Dir(i)' = Dir(i)
  BY DEF PackageFiles, Files, Dir, FileAt, FnAt, GroupsOf

\* Directives that were indexed further.
Grown ==
    /\ DOMAIN directives \subseteq DOMAIN directives'
    /\ \A g \in DOMAIN directives : directives'[g] = directives[g]
    /\ \A g \in DOMAIN directives' \ DOMAIN directives :
         directives'[g] = FALSE /\ FileAt(project.groups[g].file).parses

\* Reading files that parse grows the index, and covers them.
LEMMA IndexGrows ==
    ASSUME NEW F, \A i \in F : FileAt(i).parses, directives' = Index(F)
    PROVE  Grown /\ GroupsOf(F) \subseteq DOMAIN directives'
  <1>1. /\ DOMAIN directives' = DOMAIN directives \cup GroupsOf(F)
        /\ \A g \in DOMAIN directives' :
             directives'[g] = IF g \in DOMAIN directives THEN directives[g] ELSE FALSE
        BY DEF Index
  <1>2. \A g \in GroupsOf(F) : project.groups[g].file \in F  BY DEF GroupsOf
  <1> QED BY <1>1, <1>2 DEF Grown

\* A group indexed late was not passed by: its registrations come later still.
LEMMA GrowthKeepsAttached ==
    ASSUME DInv, IInv', project' = project, recognised' = recognised, Grown
    PROVE  AttachedExactly'
  <1>1. Aboves' = Aboves  BY DEF Aboves, Above, FnAt
  <1>2. DOMAIN directives \subseteq DOMAIN directives'  BY DEF Grown
  <1>3. ASSUME NEW g \in DOMAIN directives'
        PROVE  directives'[g] = (~project.groups[g].trailing /\ g \in Aboves)
    <2>1. CASE g \in DOMAIN directives
          BY <2>1 DEF Grown, DInv, AttachedExactly
    <2>2. CASE g \notin DOMAIN directives
      <3>1. g \in DOMAIN project.groups
            BY <1>3 DEF TypeOK, IInv
      <3>2. g # 0  BY <3>1, ProjectShape DEF DInv, IInv
      <3>3. g \notin Aboves  BY <2>2, <3>2 DEF DInv, AttachedExactly
      <3>4. directives'[g] = FALSE  BY <2>2 DEF Grown
      <3> QED BY <3>3, <3>4
    <2> QED BY <2>1, <2>2
  <1>4. \A g \in DOMAIN directives' : FileAt(project.groups[g].file).parses
        BY DEF Grown, DInv, AttachedExactly
  <1>5. \A i : FileAt(i)' = FileAt(i)  BY DEF FileAt
  <1>6. Aboves \subseteq {0} \cup DOMAIN directives  BY DEF DInv, AttachedExactly
  <1> QED BY <1>1, <1>2, <1>3, <1>4, <1>5, <1>6 DEF AttachedExactly

\* One package is one set of files, whichever of them it is asked for.
LEMMA OnePackage ==
    ASSUME NEW i, NEW j \in PackageFiles(i)
    PROVE  PackageFiles(j) = PackageFiles(i) /\ j \in PackageFiles(j)
  BY DEF PackageFiles

\* A call's package is indexed before the call is followed.
LEMMA ResolvedGrows ==
    ASSUME DInv, Calling, directives' = Resolved
    PROVE  Grown /\ GroupsOf(PackageFiles(StartFile)) \subseteq DOMAIN directives'
  <1>1. CASE Item.from = 0
    <2>1. directives' = directives /\ StartFile = Top.file
          BY <1>1 DEF Resolved, StartFile, StartOf
    <2>2. stack # <<>> /\ stack \in Seq(Frame)
          BY DEF Calling, Visiting, DInv, IInv, TypeOK
    <2>3. Len(stack) \in DOMAIN stack  BY <2>2
    <2>4. GroupsOf(PackageFiles(Top.file)) \subseteq DOMAIN directives
          BY <2>3 DEF DInv, PackagesIndexed, Top
    <2> QED BY <2>1, <2>4 DEF Grown
  <1>2. CASE Item.from # 0
    <2>1. directives' = Index(PackageFiles(StartFile))
          BY <1>2 DEF Resolved, StartFile, StartOf
    <2>2. \A j \in PackageFiles(StartFile) : FileAt(j).parses  BY DEF PackageFiles
    <2> QED BY <2>1, <2>2, IndexGrows
  <1> QED BY <1>1, <1>2

\* More directives, and no new frames: what was indexed still is.
LEMMA GrowthKeepsIndexed ==
    ASSUME DInv, project' = project, Grown, stack \in Seq(Frame),
           UNCHANGED <<walked, extracting, copies>>,
           \A k \in DOMAIN stack' : \E l \in DOMAIN stack :
              stack'[k].fn = stack[l].fn /\ stack'[k].file = stack[l].file
    PROVE  PackagesIndexed'
  <1>1. DOMAIN directives \subseteq DOMAIN directives'  BY DEF Grown
  <1>2. ASSUME NEW k \in DOMAIN stack'
        PROVE  /\ FnAt(stack'[k].fn).file \in PackageFiles(stack'[k].file)
               /\ GroupsOf(PackageFiles(stack'[k].file)) \subseteq DOMAIN directives'
    <2>1. PICK l \in DOMAIN stack : stack'[k].fn = stack[l].fn /\ stack'[k].file = stack[l].file
          OBVIOUS
    <2> QED BY <1>1, <2>1 DEF DInv, PackagesIndexed
  <1>3. /\ \A i : PackageFiles(i)' = PackageFiles(i) /\ FnAt(i)' = FnAt(i)
        /\ \A i : GroupsOf(PackageFiles(i))' = GroupsOf(PackageFiles(i))
        /\ \A i : GroupsOf({i})' = GroupsOf({i})
        /\ \A i : FileAt(i)' = FileAt(i)
        BY SamePackages
  <1> QED BY <1>1, <1>2, <1>3 DEF DInv, PackagesIndexed

\* Moving on leaves each walk at its file.
LEMMA AdvancedFrames ==
    ASSUME IInv, stack # <<>>
    PROVE  /\ DOMAIN Advanced = DOMAIN stack
           /\ \A k \in DOMAIN stack : Advanced[k].fn = stack[k].fn /\ Advanced[k].file = stack[k].file
  <1>1. stack \in Seq(Frame)  BY DEF IInv, TypeOK
  <1>2. DOMAIN Advanced = DOMAIN stack  BY DEF Advanced
  <1>3. ASSUME NEW k \in DOMAIN stack
        PROVE  Advanced[k].fn = stack[k].fn /\ Advanced[k].file = stack[k].file
    <2>1. stack[k] \in Frame  BY <1>1
    <2>2. Advanced[k] = IF k = Len(stack) THEN [stack[k] EXCEPT !.next = @ + 1] ELSE stack[k]
          BY DEF Advanced
    <2> QED BY <2>1, <2>2 DEF Frame
  <1> QED BY <1>2, <1>3

\* A visit of the project keeps all of it.
LEMMA VisitsKeepDirectives ==
    ASSUME DInv, IInv', Visit
    PROVE  DInv'
  <1>1. /\ project' = project /\ recognised' = recognised
        BY DEF Visit, SkipFile, ReadFile, OpenModule, WalkCopy, CloseModule, Report, walk
  <1>2. /\ \A i : PackageFiles(i)' = PackageFiles(i) /\ FnAt(i)' = FnAt(i)
        /\ \A i : GroupsOf(PackageFiles(i))' = GroupsOf(PackageFiles(i))
        /\ \A i : GroupsOf({i})' = GroupsOf({i})
        /\ \A i : FileAt(i)' = FileAt(i) /\ Dir(i)' = Dir(i)
        BY <1>1, SamePackages
  <1>3. directives' = directives => Grown /\ AttachedExactly'
    <2>1. directives' = directives => Grown  BY DEF Grown
    <2> QED BY <1>1, <2>1, GrowthKeepsAttached
  <1>4. Idle => stack = <<>> /\ DOMAIN stack = {}
        BY DEF Idle, DInv, IInv, TypeOK
  <1>5. CASE SkipFile
    <2>1. PICK i : /\ walked' = walked \cup {i} /\ ~FileAt(i).parses /\ Idle
                   /\ warnings' = warnings \cup {Warning("skipped", i)}
          BY <1>5 DEF SkipFile, Pass, Next1
    <2>2. UNCHANGED <<directives, extracting, copies, stack, done>>  BY <1>5 DEF SkipFile, walk
    <2>3. DetachedAt' = DetachedAt  BY <2>1 DEF DetachedAt, Warning
    <2>4. PackagesIndexed'  BY <1>2, <1>4, <2>1, <2>2 DEF DInv, PackagesIndexed, Idle
    <2> QED BY <1>3, <2>1, <2>2, <2>3, <2>4 DEF DInv, DetachedLast, Idle
  <1>6. CASE ReadFile
    <2>1. PICK i : /\ walked' = walked \cup {i} /\ FileAt(i).parses /\ Idle
                   /\ directives' = Index(Reads(i))
          BY <1>6 DEF ReadFile, Next1
    <2>2. UNCHANGED <<extracting, copies, stack, done, warnings>>  BY <1>6 DEF ReadFile, walk
    <2>3. \A j \in Reads(i) : FileAt(j).parses  BY <2>1 DEF Reads, PackageFiles
    <2>4. Grown /\ GroupsOf(Reads(i)) \subseteq DOMAIN directives'  BY <2>1, <2>3, IndexGrows
    <2>5. GroupsOf({i}) \subseteq GroupsOf(Reads(i))  BY DEF GroupsOf, Reads
    <2>6. AttachedExactly'  BY <1>1, <2>4, GrowthKeepsAttached
    <2>7. PackagesIndexed'
      <3>1. extracting' = 0 /\ DOMAIN stack' = {}  BY <1>4, <2>1, <2>2 DEF Idle
      <3>2. ASSUME NEW j \in walked', FileAt(j).parses
            PROVE  GroupsOf({j}) \subseteq DOMAIN directives'
        <4>1. CASE j = i  BY <2>4, <2>5, <4>1
        <4>2. CASE j \in walked
              BY <2>4, <3>2, <4>2 DEF DInv, PackagesIndexed, Grown
        <4> QED BY <2>1, <4>1, <4>2
      <3>3. \A j \in walked' : FileAt(j)'.parses => GroupsOf({j})' \subseteq DOMAIN directives'
            BY <1>2, <3>2
      <3> QED BY <3>1, <3>3 DEF PackagesIndexed
    <2>8. DetachedLast'  BY <2>1, <2>2 DEF DInv, DetachedLast, DetachedAt, Idle
    <2> QED BY <2>6, <2>7, <2>8 DEF DInv
  <1>7. CASE OpenModule
    <2>1. PICK i \in Files :
            /\ walked' = walked \cup {i} /\ FileAt(i).parses /\ FileAt(i).module # 0 /\ Idle
            /\ directives' = Index(Reads(i)) /\ extracting' = i
            /\ \A f \in copies' : FnAt(f).file \in PackageFiles(i)
          BY <1>7 DEF OpenModule, Next1
    <2>2. UNCHANGED <<stack, done, warnings>>  BY <1>7 DEF OpenModule, walk
    <2>3. FileAt(i).structs
      <3>1. WellFormed(project)  BY ProjectsAssumption DEF DInv, IInv
      <3> QED BY <2>1, <3>1 DEF WellFormed, Files, FileAt
    <2>4. \A j \in Reads(i) : FileAt(j).parses  BY <2>1 DEF Reads, PackageFiles
    <2>5. Grown /\ GroupsOf(Reads(i)) \subseteq DOMAIN directives'  BY <2>1, <2>4, IndexGrows
    <2>6. GroupsOf({i}) \subseteq GroupsOf(Reads(i))
          /\ GroupsOf(PackageFiles(i)) \subseteq GroupsOf(Reads(i))
          BY <2>3 DEF GroupsOf, Reads
    <2>7. AttachedExactly'  BY <1>1, <2>5, GrowthKeepsAttached
    <2>8. PackagesIndexed'
          BY <1>2, <1>4, <2>1, <2>2, <2>5, <2>6 DEF DInv, PackagesIndexed, Grown
    <2>9. DetachedLast'  BY <2>1, <2>2 DEF DInv, DetachedLast, DetachedAt, Idle
    <2> QED BY <2>7, <2>8, <2>9 DEF DInv
  <1>8. CASE WalkCopy
    <2>1. PICK f \in copies :
            /\ copies' = copies \ {f}
            /\ stack' = << [fn |-> f, next |-> 1, seed |-> Root, real |-> <<>>,
                            file |-> FnAt(f).file] >>
          BY <1>8 DEF WalkCopy
    <2>2. UNCHANGED <<walked, directives, extracting, done, warnings>> /\ extracting # 0
          BY <1>8 DEF WalkCopy
    <2>3. FnAt(f).file \in PackageFiles(extracting)
          /\ GroupsOf(PackageFiles(extracting)) \subseteq DOMAIN directives
          BY <2>2 DEF DInv, PackagesIndexed
    <2>4. /\ PackageFiles(FnAt(f).file) = PackageFiles(extracting)
          /\ FnAt(f).file \in PackageFiles(FnAt(f).file)
          BY <2>3, OnePackage
    <2>5. DOMAIN stack' = {1} /\ stack'[1].fn = f /\ stack'[1].file = FnAt(f).file  BY <2>1
    <2>6. PackagesIndexed'
      <3>1. /\ \A j \in walked' : FileAt(j)'.parses => GroupsOf({j})' \subseteq DOMAIN directives'
            /\ \A e \in copies' : FnAt(e)'.file \in PackageFiles(extracting)
            /\ GroupsOf(PackageFiles(extracting)) \subseteq DOMAIN directives'
            BY <1>2, <2>1, <2>2, <2>3 DEF DInv, PackagesIndexed
      <3>2. /\ FnAt(stack'[1].fn).file \in PackageFiles(stack'[1].file)
            /\ GroupsOf(PackageFiles(stack'[1].file)) \subseteq DOMAIN directives'
            BY <2>2, <2>3, <2>4, <2>5
      <3> QED BY <1>2, <2>2, <2>5, <3>1, <3>2 DEF PackagesIndexed
    <2>7. DetachedLast'  BY <2>2 DEF DInv, DetachedLast, DetachedAt
    <2> QED BY <1>3, <2>2, <2>6, <2>7 DEF DInv
  <1>9. CASE CloseModule
    <2>1. /\ extracting # 0 /\ extracting' = 0 /\ stack = <<>>
          /\ UNCHANGED <<walked, directives, stack, done, warnings>>
          BY <1>9 DEF CloseModule
    <2>2. PackagesIndexed'  BY <1>2, <2>1 DEF DInv, PackagesIndexed
    <2>3. DetachedLast'  BY <2>1 DEF DInv, DetachedLast, DetachedAt
    <2> QED BY <1>3, <2>1, <2>2, <2>3 DEF DInv
  <1>10. CASE Report
    <2>1. /\ Idle /\ Unwalked = {} /\ done' = TRUE
          /\ warnings' = warnings \cup {Warning("nearMiss", nearMiss[d]) : d \in Missed}
                                  \cup {Warning("detached", g) : g \in Detached}
          /\ UNCHANGED <<walked, directives, extracting, copies, stack>>
          BY <1>10 DEF Report, walk
    <2>2. Unwalked' = Unwalked /\ Detached' = Detached
          BY <1>1, <2>1 DEF Unwalked, Files, FileAt, Detached
    <2>3. DetachedAt' = Detached
      <3>1. \A w \in warnings : w.kind # "detached"
            BY <2>1 DEF Idle, DInv, DetachedLast, DetachedAt
      <3>2. ASSUME NEW g \in Detached PROVE g \in DetachedAt'
        <4>1. Warning("detached", g) \in warnings'  BY <2>1
        <4> QED BY <4>1 DEF DetachedAt, Warning
      <3>3. ASSUME NEW w \in warnings', w.kind = "detached" PROVE w.at \in Detached
        <4>1. w \notin {Warning("nearMiss", nearMiss[d]) : d \in Missed}  BY <3>3 DEF Warning
        <4>2. PICK g \in Detached : w = Warning("detached", g)
              BY <2>1, <3>1, <3>3, <4>1
        <4> QED BY <4>2 DEF Warning
      <3>4. DetachedAt' \subseteq Detached  BY <3>3 DEF DetachedAt
      <3> QED BY <3>2, <3>4
    <2>4. PackagesIndexed'  BY <1>2, <2>1 DEF DInv, PackagesIndexed
    <2>5. DetachedLast'  BY <2>1, <2>2, <2>3 DEF DetachedLast, Idle
    <2> QED BY <1>3, <2>1, <2>4, <2>5 DEF DInv
  <1> QED BY <1>5, <1>6, <1>7, <1>8, <1>9, <1>10 DEF Visit

\* A registration attaches the group right above it, which is indexed by then.
LEMMA RegisterAttaches ==
    ASSUME DInv, IInv', Register
    PROVE  AttachedExactly' /\ DOMAIN directives' = DOMAIN directives
  <1>1. /\ project' = project /\ stack # <<>> /\ Top.next <= Len(Body) /\ Item.op = "route"
        /\ directives' = Attach(Item) /\ recognised' = recognised \cup {Site}
        BY DEF Register, Visiting
  <1>2. /\ project \in Projects /\ stack \in Seq(Frame) /\ Top \in Frame
        /\ Body \in Seq(Registration \cup Call) /\ Len(stack) \in DOMAIN stack
        BY <1>1, TopShape DEF DInv, IInv, TypeOK
  <1>3. Top.fn \in Fns /\ Top.next \in DOMAIN FnAt(Top.fn).body
        BY <1>1, <1>2 DEF Frame, Body
  <1>4. /\ Item.above \in {0} \cup DOMAIN project.groups
        /\ Item.above # 0 => project.groups[Item.above].file = FnAt(Top.fn).file
    <2>1. WellFormed(project)  BY <1>2, ProjectsAssumption
    <2> QED BY <1>1, <1>3, <2>1 DEF WellFormed, Fns, FnAt, Item, Body
  <1>5. Item.above \in {0} \cup DOMAIN directives
    <2>1. /\ FnAt(Top.fn).file \in PackageFiles(Top.file)
          /\ GroupsOf(PackageFiles(Top.file)) \subseteq DOMAIN directives
          BY <1>2 DEF DInv, PackagesIndexed, Top
    <2> QED BY <1>4, <2>1 DEF GroupsOf
  <1>6. Aboves' = Aboves \cup {Item.above}
    <2>1. Above(Site) = Item.above  BY DEF Above, Site, Item, Body
    <2>2. \A s : Above(s)' = Above(s)  BY <1>1 DEF Above, FnAt
    <2> QED BY <1>1, <2>1, <2>2 DEF Aboves
  <1>7. DOMAIN directives' = DOMAIN directives  BY <1>1 DEF Attach
  <1>8. ASSUME NEW g \in DOMAIN directives
        PROVE  directives'[g] = (~project.groups[g].trailing /\ g \in Aboves')
    <2>1. project.groups[g].trailing \in BOOLEAN /\ directives[g] \in BOOLEAN
      <3>1. g \in DOMAIN project.groups  BY DEF DInv, IInv, TypeOK
      <3>2. project.groups[g] \in Group  BY <1>2, <3>1, ProjectShape
      <3> QED BY <3>2 DEF Group, DInv, IInv, TypeOK
    <2>2. directives'[g] = (directives[g] \/ g \in AttachedBy(Item))  BY <1>1 DEF Attach
    <2>3. g \in AttachedBy(Item) <=> g = Item.above /\ ~project.groups[g].trailing
          BY DEF AttachedBy
    <2>4. directives[g] = (~project.groups[g].trailing /\ g \in Aboves)
          BY DEF DInv, AttachedExactly
    <2> QED BY <1>6, <2>1, <2>2, <2>3, <2>4
  <1>9. \A g \in DOMAIN directives : FileAt(project.groups[g].file)'.parses
        BY <1>1 DEF DInv, AttachedExactly, FileAt
  <1>10. Aboves' \subseteq {0} \cup DOMAIN directives'
         BY <1>5, <1>6, <1>7 DEF DInv, AttachedExactly
  <1> QED BY <1>1, <1>7, <1>8, <1>9, <1>10 DEF AttachedExactly

\* The walk of a body keeps all of it.
LEMMA StepsKeepDirectives ==
    ASSUME DInv, IInv', Step
    PROVE  DInv'
  <1>1. /\ UNCHANGED <<project, walked, extracting, copies, done>> /\ stack # <<>>
        BY DEF Step, Register, PassCall, CutCycle, RefuseCall, FollowCall,
               Return, Visiting, Calling
  <1>2. stack \in Seq(Frame) /\ DOMAIN stack = 1..Len(stack) /\ Len(stack) \in Nat \ {0}
        BY <1>1 DEF DInv, IInv, TypeOK
  <1>3. ~done  BY <1>1 DEF DInv, IInv, TypeOK, DetachedLast
  <1>4. /\ DOMAIN Advanced = DOMAIN stack
        /\ \A k \in DOMAIN stack : Advanced[k].fn = stack[k].fn /\ Advanced[k].file = stack[k].file
        BY <1>1, AdvancedFrames DEF DInv
  <1>5. DetachedLast'
    <2>1. DetachedAt' = DetachedAt
      <3>1. CASE RefuseCall
        <4>1. /\ warnings \subseteq warnings'
              /\ \A w \in warnings' \ warnings : w.kind = "refused"
              BY <3>1 DEF RefuseCall, Warning
        <4> QED BY <4>1 DEF DetachedAt
      <3>2. CASE ~RefuseCall
        <4>1. warnings' = warnings
              BY <3>2 DEF Step, Register, PassCall, CutCycle, FollowCall, Return
        <4> QED BY <4>1 DEF DetachedAt
      <3> QED BY <3>1, <3>2
    <2> QED BY <1>1, <1>3, <2>1 DEF DInv, DetachedLast
  <1>6. \A k \in DOMAIN Advanced : \E l \in DOMAIN stack :
          Advanced[k].fn = stack[l].fn /\ Advanced[k].file = stack[l].file
        BY <1>4
  <1>7. CASE Register
    <2>1. AttachedExactly' /\ DOMAIN directives' = DOMAIN directives
          BY <1>7, RegisterAttaches
    <2>2. stack' = Advanced  BY <1>7 DEF Register
    <2>3. PackagesIndexed'
      <3>1. /\ \A i : PackageFiles(i)' = PackageFiles(i) /\ FnAt(i)' = FnAt(i)
            /\ \A i : GroupsOf(PackageFiles(i))' = GroupsOf(PackageFiles(i))
            /\ \A i : GroupsOf({i})' = GroupsOf({i})
            /\ \A i : FileAt(i)' = FileAt(i)
            BY <1>1, SamePackages
      <3>2. ASSUME NEW k \in DOMAIN stack'
            PROVE  /\ FnAt(stack'[k].fn).file \in PackageFiles(stack'[k].file)
                   /\ GroupsOf(PackageFiles(stack'[k].file)) \subseteq DOMAIN directives'
            BY <1>4, <2>1, <2>2 DEF DInv, PackagesIndexed
      <3> QED BY <1>1, <2>1, <3>1, <3>2 DEF DInv, PackagesIndexed
    <2> QED BY <1>5, <2>1, <2>3 DEF DInv
  <1>8. CASE PassCall \/ CutCycle \/ RefuseCall
    <2>1. stack' = Advanced /\ recognised' = recognised
          BY <1>8 DEF PassCall, CutCycle, RefuseCall
    <2>2. Grown
      <3>1. CASE PassCall  BY <3>1 DEF PassCall, Grown
      <3>2. CASE CutCycle \/ RefuseCall
            BY <3>2, ResolvedGrows DEF CutCycle, RefuseCall
      <3> QED BY <1>8, <3>1, <3>2
    <2>3. AttachedExactly'  BY <1>1, <2>1, <2>2, GrowthKeepsAttached
    <2>4. PackagesIndexed'  BY <1>1, <1>2, <1>6, <2>1, <2>2, GrowthKeepsIndexed
    <2> QED BY <1>5, <2>3, <2>4 DEF DInv
  <1>9. CASE FollowCall
    <2>1. PICK f \in Followable :
            stack' = Append(Advanced,
                [fn |-> f, next |-> 1, seed |-> Seeded(Item.args, Top.seed),
                 real |-> HeldBy(Item.args, Top.real),
                 file |-> IF Item.owner = 0 THEN FnAt(f).file ELSE StartFile])
          BY <1>9 DEF FollowCall
    <2> DEFINE file == IF Item.owner = 0 THEN FnAt(f).file ELSE StartFile
    <2>2. recognised' = recognised /\ directives' = Resolved /\ Calling
          BY <1>9 DEF FollowCall
    <2>3. Grown /\ GroupsOf(PackageFiles(StartFile)) \subseteq DOMAIN directives'
          BY <2>2, ResolvedGrows
    <2>4. AttachedExactly'  BY <1>1, <2>2, <2>3, GrowthKeepsAttached
    <2>5. FnAt(f).file \in PackageFiles(StartFile)
          BY DEF Followable, Targets, Declared
    <2>6. FnAt(f).file \in PackageFiles(file) /\ PackageFiles(file) = PackageFiles(StartFile)
          BY <2>5, OnePackage
    <2>7. ASSUME NEW k \in DOMAIN stack'
          PROVE  /\ FnAt(stack'[k].fn).file \in PackageFiles(stack'[k].file)
                 /\ GroupsOf(PackageFiles(stack'[k].file)) \subseteq DOMAIN directives'
      <3>1. Advanced \in Seq(Frame) /\ Len(Advanced) = Len(stack)
            BY <1>1, TopShape DEF DInv, IInv
      <3>2. CASE k = Len(stack) + 1
        <4>1. stack'[k].fn = f /\ stack'[k].file = file
          <5>1. stack'[Len(Advanced) + 1] =
                  [fn |-> f, next |-> 1, seed |-> Seeded(Item.args, Top.seed),
                   real |-> HeldBy(Item.args, Top.real), file |-> file]
                BY <2>1, <3>1
          <5> QED BY <3>1, <3>2, <5>1
        <4> HIDE DEF file
        <4> QED BY <2>3, <2>6, <4>1
      <3>3. CASE k # Len(stack) + 1
        <4>1. k \in DOMAIN stack /\ stack'[k] = Advanced[k]
              BY <1>2, <2>1, <3>1, <3>3
        <4>2. stack'[k].fn = stack[k].fn /\ stack'[k].file = stack[k].file
              BY <1>4, <4>1
        <4> QED BY <2>3, <4>1, <4>2 DEF DInv, PackagesIndexed, Grown
      <3> QED BY <3>2, <3>3
    <2>8. PackagesIndexed'
      <3>1. /\ \A i : PackageFiles(i)' = PackageFiles(i) /\ FnAt(i)' = FnAt(i)
            /\ \A i : GroupsOf(PackageFiles(i))' = GroupsOf(PackageFiles(i))
            /\ \A i : GroupsOf({i})' = GroupsOf({i})
            /\ \A i : FileAt(i)' = FileAt(i)
            BY <1>1, SamePackages
      <3>2. DOMAIN directives \subseteq DOMAIN directives'  BY <2>3 DEF Grown
      <3> QED BY <1>1, <2>7, <3>1, <3>2 DEF DInv, PackagesIndexed
    <2> QED BY <1>5, <2>4, <2>8 DEF DInv
  <1>10. CASE Return
    <2>1. /\ stack' = SubSeq(stack, 1, Len(stack) - 1)
          /\ recognised' = recognised /\ directives' = directives
          BY <1>10 DEF Return
    <2>2. Grown  BY <2>1 DEF Grown
    <2>3. \A k \in DOMAIN stack' : k \in DOMAIN stack /\ stack'[k] = stack[k]
          BY <1>2, <2>1
    <2>4. AttachedExactly'  BY <1>1, <2>1, <2>2, GrowthKeepsAttached
    <2>5. PackagesIndexed'  BY <1>1, <1>2, <2>2, <2>3, GrowthKeepsIndexed
    <2> QED BY <1>5, <2>4, <2>5 DEF DInv
  <1> QED BY <1>7, <1>8, <1>9, <1>10 DEF Step

\* The directives' invariant holds at the start, and every step keeps it.
LEMMA InitDirectives ==
    ASSUME Init
    PROVE  DInv
  <1>1. IInv  BY InitKeeps
  <1>2. Aboves = {} /\ DOMAIN directives = {}  BY DEF Init, Aboves
  <1>3. AttachedExactly  BY <1>2 DEF AttachedExactly
  <1>4. PackagesIndexed  BY DEF Init, PackagesIndexed
  <1>5. DetachedLast  BY DEF Init, DetachedLast, DetachedAt
  <1> QED BY <1>1, <1>3, <1>4, <1>5 DEF DInv

LEMMA NextDirectives ==
    ASSUME DInv, [Next]_vars
    PROVE  DInv'
  <1>1. IInv'  BY NextKeeps DEF DInv
  <1>2. CASE Visit  BY <1>1, <1>2, VisitsKeepDirectives
  <1>3. CASE Step  BY <1>1, <1>3, StepsKeepDirectives
  <1>4. CASE UNCHANGED vars
    <2>1. UNCHANGED <<project, walked, directives, extracting, copies, stack,
                      recognised, warnings, done>>
          BY <1>4 DEF vars, walk
    <2>2. Grown  BY <2>1 DEF Grown
    <2>3. AttachedExactly'  BY <1>1, <2>1, <2>2, GrowthKeepsAttached
    <2>4. PackagesIndexed'
      <3>1. stack \in Seq(Frame)  BY DEF DInv, IInv, TypeOK
      <3> QED BY <2>1, <2>2, <3>1, GrowthKeepsIndexed
    <2>5. DetachedLast'
          BY <2>1 DEF DInv, DetachedLast, DetachedAt, Unwalked, Files, FileAt, Detached
    <2> QED BY <1>1, <2>3, <2>4, <2>5 DEF DInv
  <1> QED BY <1>2, <1>3, <1>4 DEF Next, Finished

\* RouteDiscovery.DetachedMeansUnused, wherever the walk recognises what the
\* program registers: when discovery ends, the directives reported detached
\* are those no registration stands right below.  It rests on the order in
\* which the code works: a package is indexed before its bodies are walked, so
\* no registration comes before the group above it, and a group read again
\* keeps what attached it.
THEOREM DetachedFollows == Spec => [](RoutesComplete => DetachedMeansUnused)
  <1>1. Init => DInv  BY InitDirectives
  <1>2. DInv /\ [Next]_vars => DInv'  BY NextDirectives
  <1>3. DInv => (RoutesComplete => DetachedMeansUnused)
    <2> SUFFICES ASSUME DInv, RoutesComplete, done PROVE DetachedMeansUnused
          BY DEF DetachedMeansUnused
    <2>1. recognised = Registrations  BY DEF RoutesComplete
    <2>2. {FnAt(s.fn).body[s.item].above : s \in Registrations} = Aboves
          BY <2>1 DEF Aboves, Above
    <2>3. DetachedAt = Detached /\ Unwalked = {}  BY DEF DInv, DetachedLast
    <2>4. walked \subseteq {i \in Files : FileAt(i).visited}
          /\ \A g \in DOMAIN directives : g \in DOMAIN project.groups
          BY DEF DInv, IInv, TypeOK
    <2>5. ASSUME NEW g
          PROVE  g \in Detached <=>
                   /\ g \in GroupsOf(ReadFiles) /\ project.groups[g].known
                   /\ project.groups[g].trailing \/ g \notin Aboves
      <3>1. CASE g \in Detached
        <4>1. /\ g \in DOMAIN directives /\ ~directives[g] /\ project.groups[g].known
              /\ project.groups[g].file \in walked
              BY <3>1 DEF Detached
        <4>2. FileAt(project.groups[g].file).parses
              /\ directives[g] = (~project.groups[g].trailing /\ g \in Aboves)
              BY <4>1 DEF DInv, AttachedExactly
        <4>3. g \in GroupsOf(ReadFiles)
              BY <2>4, <4>1, <4>2 DEF GroupsOf, ReadFiles
        <4> QED BY <3>1, <4>1, <4>2, <4>3
      <3>2. ASSUME g \in GroupsOf(ReadFiles), project.groups[g].known,
                   project.groups[g].trailing \/ g \notin Aboves
            PROVE  g \in Detached
        <4>1. /\ g \in DOMAIN project.groups /\ project.groups[g].file \in Files
              /\ FileAt(project.groups[g].file).visited
              /\ FileAt(project.groups[g].file).parses
              BY <3>2 DEF GroupsOf, ReadFiles
        <4>2. project.groups[g].file \in walked  BY <2>3, <4>1 DEF Unwalked
        <4>3. g \in GroupsOf({project.groups[g].file})  BY <4>1 DEF GroupsOf
        <4>4. g \in DOMAIN directives  BY <4>1, <4>2, <4>3 DEF DInv, PackagesIndexed
        <4>5. ~directives[g]  BY <3>2, <4>4 DEF DInv, AttachedExactly
        <4> QED BY <3>2, <4>2, <4>4, <4>5 DEF Detached
      <3> QED BY <3>1, <3>2
    <2>6. DetachedAt = {g \in GroupsOf(ReadFiles) :
                          /\ project.groups[g].known
                          /\ project.groups[g].trailing \/ g \notin Aboves}
          BY <2>3, <2>5
    <2> QED BY <2>2, <2>6 DEF DetachedMeansUnused, DetachedAt
  <1> QED BY <1>1, <1>2, <1>3, PTL DEF Spec

-----------------------------------------------------------------------------
(* What the walk recognises is what the program registers. *)

\* Whether file i opens a module one of whose RegisterRoutes f is.
EntryOf(f, i) ==
    /\ i \in ReadFiles /\ FileAt(i).module # 0
    /\ FnAt(f).owner = FileAt(i).module /\ FnAt(f).name = RegisterRoutes
    /\ FnAt(f).param # "none" /\ FnAt(f).file \in PackageFiles(i)

IsEntry(f) == \E i \in Files : EntryOf(f, i)

\* Whether every declaration that has a second copy under its key, in another
\* file of its package, is a RegisterRoutes: each of those is walked for itself.
CopiesAreEntries ==
    \A f, e \in Fns :
        /\ FileAt(FnAt(f).file).parses /\ FileAt(FnAt(e).file).parses
        /\ Key(f) = Key(e) /\ f # e
        => IsEntry(f)

\* What item i of f may call, in whatever file's context the body is read.
Callees(f, i) ==
    {g \in Fns : \E j \in Files :
        LET call == FnAt(f).body[i]
        IN  /\ Dir(j) = Dir(FnAt(f).file)
            /\ call.op = "call" /\ ~Passed(f, call)
            /\ g \in Declared(StartOf(call, j), call.owner, call.name)
            /\ FnAt(g).param # "none"}

\* The items of f before n are recognised, or what they call is in S.
Handled(f, n, S) ==
    \A i \in DOMAIN FnAt(f).body : i < n =>
        /\ FnAt(f).body[i].op = "route" => [fn |-> f, item |-> i] \in recognised
        /\ Callees(f, i) \subseteq S

Walking == {stack[k].fn : k \in DOMAIN stack}
EntryFns == {f \in Fns : IsEntry(f)}

\* F are declarations walked to their end: all that they and the walks in
\* progress have passed is recognised, walked, in progress, or an entry; and an
\* entry of a module opened is walked, in progress, or still to be walked.
Covered(F) ==
    LET known == F \cup Walking \cup EntryFns
    IN  /\ \A f \in F : Handled(f, Len(FnAt(f).body) + 1, known)
        /\ \A k \in DOMAIN stack : Handled(stack[k].fn, stack[k].next, known)
        /\ \A i \in walked : \A f \in Fns : EntryOf(f, i) => f \in F \cup Walking \cup copies

ContextOf(frame) == [fn |-> frame.fn, file |-> frame.file]

\* The walk is in what the program reaches, and recognises nothing else.
WalkReachable ==
    /\ \A f \in copies : IsEntry(f)
    /\ \A k \in DOMAIN stack : ContextOf(stack[k]) \in Reachable
    /\ recognised \subseteq Registrations

RInv ==
    /\ DInv /\ WalkReachable
    /\ extracting = 0 => copies = {}
    /\ CopiesAreEntries => \E F \in SUBSET Fns : Covered(F)

\* All of this is read off the project.
LEMMA SameProgram ==
    ASSUME project' = project
    PROVE  /\ Files' = Files /\ Fns' = Fns /\ ReadFiles' = ReadFiles
           /\ \A i : FnAt(i)' = FnAt(i) /\ FileAt(i)' = FileAt(i)
           /\ Contexts' = Contexts /\ Reachable' = Reachable
           /\ Registrations' = Registrations /\ EntryFns' = EntryFns
           /\ \A f, i : Callees(f, i)' = Callees(f, i)
           /\ \A f, i : EntryOf(f, i)' = EntryOf(f, i)
           /\ \A f : IsEntry(f)' = IsEntry(f)
           /\ CopiesAreEntries' = CopiesAreEntries
  <1>1. /\ Files' = Files /\ Fns' = Fns
        /\ \A i : FnAt(i)' = FnAt(i) /\ FileAt(i)' = FileAt(i)
        /\ \A i : Dir(i)' = Dir(i) /\ Key(i)' = Key(i)
        BY DEF Files, Fns, FnAt, FileAt, Dir, Key
  <1>2. /\ \A i : PackageFiles(i)' = PackageFiles(i)
        /\ \A f, call : Passed(f, call)' = Passed(f, call)
        /\ ReadFiles' = ReadFiles
        BY <1>1 DEF PackageFiles, Passed, ReadFiles
  <1>3. \A i, owner, name : Declared(i, owner, name)' = Declared(i, owner, name)
        BY DEF Declared, PackageFiles, Fns, FnAt, Files, Dir, FileAt
  <1>4. /\ \A f, i : EntryOf(f, i)' = EntryOf(f, i)
        /\ \A f : IsEntry(f)' = IsEntry(f) /\ EntryFns' = EntryFns
    <2>1. \A f, i : EntryOf(f, i)' = EntryOf(f, i)  BY <1>1, <1>2 DEF EntryOf
    <2>2. \A f : IsEntry(f)' = IsEntry(f)  BY <1>1, <2>1 DEF IsEntry
    <2> QED BY <1>1, <2>1, <2>2 DEF EntryFns
  <1>5. \A f, i : Callees(f, i)' = Callees(f, i)
        BY <1>1, <1>2, <1>3 DEF Callees
  <1>6. CopiesAreEntries' = CopiesAreEntries  BY <1>1, <1>4 DEF CopiesAreEntries
  <1>7. Contexts' = Contexts /\ Entries' = Entries
        BY <1>1, <1>2 DEF Contexts, Entries
  <1>8. \A c : Called(c)' = Called(c)  BY <1>1, <1>2, <1>3 DEF Called
  <1>9. Reachable' = Reachable  BY <1>7, <1>8 DEF Reachable
  <1>10. Registrations' = Registrations  BY <1>1, <1>9 DEF Registrations
  <1> QED BY <1>1, <1>2, <1>4, <1>5, <1>6, <1>7, <1>9, <1>10

\* The declarations a lookup finds are of one key, and it finds one where there
\* is any.
LEMMA DeclaredKeys ==
    ASSUME project \in Projects, NEW i \in Files, NEW j \in Files, Dir(i) = Dir(j),
           NEW owner, NEW name, NEW f \in Declared(i, owner, name)
    PROVE  /\ f \in Fns /\ FnAt(f).owner = owner /\ FnAt(f).name = name
           /\ FnAt(f).file \in PackageFiles(i)
           /\ FnAt(f).file \in Files /\ FileAt(FnAt(f).file).parses
           /\ Key(f) = [dir |-> Dir(i), owner |-> owner, name |-> name]
           /\ Declared(j, owner, name) # {}
  <1>1. /\ f \in Fns /\ FnAt(f).owner = owner /\ FnAt(f).name = name
        /\ FnAt(f).file \in PackageFiles(i)
        BY DEF Declared
  <1>2. /\ FnAt(f).file \in Files /\ FileAt(FnAt(f).file).parses
        /\ Dir(FnAt(f).file) = Dir(i) /\ PackageFiles(j) = PackageFiles(i)
        BY <1>1 DEF PackageFiles
  <1>3. Key(f) = [dir |-> Dir(i), owner |-> owner, name |-> name]
        BY <1>1, <1>2 DEF Key
  <1>4. Declared(j, owner, name) # {}
    <2> DEFINE copy == {e \in Fns : /\ FnAt(e).owner = owner /\ FnAt(e).name = name
                                    /\ FnAt(e).file \in PackageFiles(j)}
               here == {e \in copy : FnAt(e).file = j}
               T == {FnAt(e).file : e \in copy}
    <2>1. T \subseteq Nat /\ FnAt(f).file \in T
          BY <1>1, <1>2, ProjectShape
    <2>2. PICK n \in T : \A m \in T : ~ (<<m, n>> \in OpToRel(<, Nat))
      <3>1. \E n \in T : \A m \in T : ~ (<<m, n>> \in OpToRel(<, Nat))
        <4> HIDE DEF T
        <4> QED BY <2>1, NatLessThanWellFounded, WFMin
      <3> QED BY <3>1
    <2>3. \A m \in T : n <= m
      <3> HIDE DEF T
      <3> SUFFICES ASSUME NEW m \in T, m < n PROVE FALSE  BY <2>1
      <3>1. <<m, n>> \in OpToRel(<, Nat)  BY <2>1 DEF OpToRel
      <3> QED BY <2>2, <3>1
    <2>4. PICK e \in copy : FnAt(e).file = n  BY <2>2
    <2>5. e \in {g \in copy : \A h \in copy : FnAt(g).file <= FnAt(h).file}
          BY <2>3, <2>4
    <2> QED BY <2>5 DEF Declared
  <1> QED BY <1>1, <1>2, <1>3, <1>4

\* What a call may find in the context of one file of a package or of another
\* is the same, but for the entries.
LEMMA CalleesOfPackage ==
    ASSUME project \in Projects, CopiesAreEntries,
           NEW f \in Fns, NEW i \in DOMAIN FnAt(f).body, NEW j \in Files,
           Dir(j) = Dir(FnAt(f).file), FnAt(f).body[i].op = "call",
           NEW g \in Callees(f, i)
    PROVE  LET call == FnAt(f).body[i]
               found1 == Declared(StartOf(call, j), call.owner, call.name)
           IN  /\ ~Passed(f, call) /\ found1 # {}
               /\ \A h \in found1 :
                    /\ Key(h) = Key(g)
                    /\ \A e \in Fns : FileAt(FnAt(e).file).parses /\ Key(e) = Key(g) =>
                          e = g \/ (IsEntry(e) /\ IsEntry(g))
               /\ \A h \in found1 : h = g \/ (IsEntry(h) /\ IsEntry(g))
  <1> DEFINE call == FnAt(f).body[i]
  <1>1. PICK k \in Files :
           /\ Dir(k) = Dir(FnAt(f).file) /\ ~Passed(f, call)
           /\ g \in Declared(StartOf(call, k), call.owner, call.name)
           /\ FnAt(g).param # "none"
        BY DEF Callees
  <1>2. /\ StartOf(call, k) \in Files /\ StartOf(call, j) \in Files
        /\ Dir(StartOf(call, k)) = Dir(StartOf(call, j))
        BY <1>1, ProjectShape DEF StartOf
  <1> HIDE DEF call
  <1>3. /\ g \in Fns /\ FileAt(FnAt(g).file).parses
        /\ Key(g) = [dir |-> Dir(StartOf(call, k)), owner |-> call.owner, name |-> call.name]
        /\ Declared(StartOf(call, j), call.owner, call.name) # {}
        BY <1>1, <1>2, DeclaredKeys
  <1>4. ASSUME NEW e \in Fns, FileAt(FnAt(e).file).parses, Key(e) = Key(g)
        PROVE  e = g \/ (IsEntry(e) /\ IsEntry(g))
        BY <1>3, <1>4 DEF CopiesAreEntries
  <1>5. ASSUME NEW h \in Declared(StartOf(call, j), call.owner, call.name)
        PROVE  Key(h) = Key(g) /\ h \in Fns /\ FileAt(FnAt(h).file).parses
        BY <1>2, <1>3, DeclaredKeys
  <1> QED BY <1>1, <1>3, <1>4, <1>5 DEF call


\* A body's context is of its package, and so are those of what it calls.
LEMMA ContextShape ==
    ASSUME project \in Projects
    PROVE  /\ Contexts = {c \in [fn : Fns, file : Files] : Dir(c.file) = Dir(FnAt(c.fn).file)}
           /\ Entries \subseteq Contexts
           /\ {c.fn : c \in Entries} = EntryFns
           /\ \A c \in Contexts : Called(c) \subseteq Contexts
  <1>1. Contexts = {c \in [fn : Fns, file : Files] : Dir(c.file) = Dir(FnAt(c.fn).file)}
        BY DEF Contexts
  <1>2. Entries = {[fn |-> f, file |-> FnAt(f).file] : f \in EntryFns}
        BY DEF Entries, EntryFns, IsEntry, EntryOf, ReadFiles
  <1>3. \A f \in Fns : FnAt(f).file \in Files  BY ProjectShape
  <1>4. Entries \subseteq Contexts  BY <1>1, <1>2, <1>3 DEF EntryFns
  <1>5. {c.fn : c \in Entries} = EntryFns
    <2>1. ASSUME NEW c \in Entries PROVE c.fn \in EntryFns
      <3>1. PICK f \in EntryFns : c = [fn |-> f, file |-> FnAt(f).file]  BY <1>2
      <3> QED BY <3>1
    <2>2. ASSUME NEW f \in EntryFns PROVE \E c \in Entries : c.fn = f
      <3>1. [fn |-> f, file |-> FnAt(f).file] \in Entries  BY <1>2
      <3>2. [fn |-> f, file |-> FnAt(f).file].fn = f  OBVIOUS
      <3> QED BY <3>1, <3>2
    <2> QED BY <2>1, <2>2
  <1>6. ASSUME NEW c \in Contexts, NEW d \in Called(c) PROVE d \in Contexts
    <2>1. PICK i \in DOMAIN FnAt(c.fn).body :
            LET call == FnAt(c.fn).body[i]
            IN  /\ call.op = "call"
                /\ \E f \in Declared(StartOf(call, c.file), call.owner, call.name) :
                     d = [fn |-> f, file |-> IF call.owner = 0 THEN FnAt(f).file
                                             ELSE StartOf(call, c.file)]
          BY <1>6 DEF Called
    <2> DEFINE call == FnAt(c.fn).body[i]
    <2>2. StartOf(call, c.file) \in Files
          BY <1>1, <2>1, ProjectShape DEF StartOf
    <2>3. PICK f \in Declared(StartOf(call, c.file), call.owner, call.name) :
            d = [fn |-> f, file |-> IF call.owner = 0 THEN FnAt(f).file
                                    ELSE StartOf(call, c.file)]
          BY <2>1
    <2> HIDE DEF call
    <2>4. f \in Fns /\ FnAt(f).file \in PackageFiles(StartOf(call, c.file))
          /\ FnAt(f).file \in Files
          BY <2>2, <2>3, DeclaredKeys
    <2>5. Dir(FnAt(f).file) = Dir(StartOf(call, c.file))  BY <2>4 DEF PackageFiles
    <2> QED BY <1>1, <2>2, <2>3, <2>4, <2>5
  <1> QED BY <1>1, <1>4, <1>5, <1>6

\* What is reachable has the entries and all that its members call, and is in
\* every set of contexts that has.
LEMMA ReachableIsLeast ==
    ASSUME project \in Projects
    PROVE  /\ Reachable \subseteq Contexts /\ Entries \subseteq Reachable
           /\ \A c \in Reachable : Called(c) \subseteq Reachable
           /\ \A S \in SUBSET Contexts :
                Entries \subseteq S /\ (\A c \in S : Called(c) \subseteq S) => Reachable \subseteq S
  <1> DEFINE closed == {T \in SUBSET (Contexts \ Entries) :
                          \A c \in Entries \cup T : Called(c) \subseteq Entries \cup T}
  <1>1. Entries \subseteq Contexts /\ \A c \in Contexts : Called(c) \subseteq Contexts
        BY ContextShape
  <1>2. Reachable = Entries \cup {c \in Contexts : \A T \in closed : c \in T}
        BY <1>1 DEF Reachable
  <1>3. ASSUME NEW c \in Reachable, NEW d \in Called(c) PROVE d \in Reachable
    <2>1. d \in Contexts  BY <1>1, <1>2, <1>3
    <2>2. ASSUME NEW T \in closed, d \notin Entries PROVE d \in T
          BY <1>2, <1>3, <2>2
    <2> HIDE DEF closed
    <2> QED BY <1>2, <2>1, <2>2
  <1>4. ASSUME NEW S \in SUBSET Contexts, Entries \subseteq S, \A c \in S : Called(c) \subseteq S
        PROVE  Reachable \subseteq S
    <2>1. S \ Entries \in closed  BY <1>4
    <2> HIDE DEF closed
    <2> QED BY <1>2, <1>4, <2>1
  <1> HIDE DEF closed
  <1> QED BY <1>1, <1>2, <1>3, <1>4

\* The walk in progress, as its frame and as what the program reaches.
LEMMA TopWalk ==
    ASSUME RInv, Visiting
    PROVE  /\ stack # <<>> /\ Len(stack) \in DOMAIN stack /\ Top = stack[Len(stack)]
           /\ Top.fn \in Fns /\ Top.next \in DOMAIN FnAt(Top.fn).body /\ Top.file \in Files
           /\ Dir(Top.file) = Dir(FnAt(Top.fn).file)
           /\ Item = FnAt(Top.fn).body[Top.next]
           /\ ContextOf(Top) \in Reachable
           /\ ContextOf(Top).fn = Top.fn /\ ContextOf(Top).file = Top.file
  <1>1. stack # <<>> /\ stack \in Seq(Frame) /\ IInv /\ project \in Projects
        BY DEF RInv, DInv, IInv, TypeOK, Visiting
  <1>2. Len(stack) \in DOMAIN stack /\ Top = stack[Len(stack)]  BY <1>1 DEF Top
  <1>3. Top \in Frame /\ Body \in Seq(Registration \cup Call)  BY <1>1, TopShape DEF IInv
  <1>4. Top.fn \in Fns /\ Top.file \in Files /\ Top.next \in DOMAIN FnAt(Top.fn).body
        BY <1>3 DEF Visiting, Body, Frame
  <1>5. FnAt(Top.fn).file \in PackageFiles(Top.file)
        BY <1>2 DEF RInv, DInv, PackagesIndexed
  <1>6. ContextOf(Top) \in Reachable  BY <1>2 DEF RInv, WalkReachable
  <1> QED BY <1>1, <1>2, <1>4, <1>5, <1>6 DEF Item, Body, PackageFiles, ContextOf

\* A step over an item keeps what is covered when the item is dealt with: its
\* registration recognised, or what it calls walked, in progress, or an entry.
LEMMA ItemCovered ==
    ASSUME RInv, IInv', Visiting, project' = project, UNCHANGED <<walked, copies>>,
           recognised \subseteq recognised', NEW F \in SUBSET Fns, Covered(F),
           Item.op = "route" => Site \in recognised',
           DOMAIN stack \subseteq DOMAIN stack',
           \A k \in DOMAIN stack : stack'[k].fn = stack[k].fn,
           \A k \in DOMAIN stack' :
              \/ k \in DOMAIN stack /\ stack'[k].next = stack[k].next
              \/ k = Len(stack) /\ stack'[k].next = stack[k].next + 1
              \/ stack'[k].next = 1,
           Callees(Top.fn, Top.next) \subseteq F \cup Walking' \cup EntryFns
    PROVE  Covered(F)'
  <1> DEFINE before == F \cup Walking \cup EntryFns
             after == F \cup Walking' \cup EntryFns
  <1>1. Walking \subseteq Walking'  BY DEF Walking
  <1>2. /\ \A f \in F : Handled(f, Len(FnAt(f).body) + 1, before)
        /\ \A k \in DOMAIN stack : Handled(stack[k].fn, stack[k].next, before)
        /\ \A i \in walked : \A f \in Fns : EntryOf(f, i) => f \in F \cup Walking \cup copies
        BY DEF Covered
  <1>3. /\ Fns' = Fns /\ EntryFns' = EntryFns
        /\ \A i : FnAt(i)' = FnAt(i)
        /\ \A f, i : Callees(f, i)' = Callees(f, i)
        /\ \A f, i : EntryOf(f, i)' = EntryOf(f, i)
        BY SameProgram
  <1>4. /\ Len(stack) \in DOMAIN stack /\ Top = stack[Len(stack)]
        /\ Top.next \in DOMAIN FnAt(Top.fn).body /\ Item = FnAt(Top.fn).body[Top.next]
        BY TopWalk
  <1>5. \A f \in Fns : DOMAIN FnAt(f).body \subseteq Nat
        BY ProjectShape DEF RInv, DInv, IInv, Fn
  <1>6. stack \in Seq(Frame)  BY DEF RInv, DInv, IInv, TypeOK
  <1>7. ASSUME NEW f \in F, NEW i \in DOMAIN FnAt(f).body, i < Len(FnAt(f).body) + 1
        PROVE  /\ FnAt(f).body[i].op = "route" => [fn |-> f, item |-> i] \in recognised'
               /\ Callees(f, i) \subseteq after
        BY <1>1, <1>2, <1>7 DEF Handled
  <1>8. ASSUME NEW k \in DOMAIN stack', NEW i \in DOMAIN FnAt(stack'[k].fn).body,
               i < stack'[k].next
        PROVE  /\ FnAt(stack'[k].fn).body[i].op = "route" =>
                    [fn |-> stack'[k].fn, item |-> i] \in recognised'
               /\ Callees(stack'[k].fn, i) \subseteq after
    <2>1. CASE k \in DOMAIN stack /\ i < stack[k].next
          BY <1>1, <1>2, <1>8, <2>1 DEF Handled
    <2>2. CASE k = Len(stack) /\ i = stack[k].next
      <3>1. /\ stack'[k].fn = Top.fn /\ i = Top.next
            /\ FnAt(Top.fn).body[i] = Item /\ Site = [fn |-> Top.fn, item |-> i]
            BY <1>4, <2>2 DEF Site
      <3> QED BY <3>1
    <2>3. i \in Nat /\ i >= 1
      <3>1. stack' \in Seq(Frame)  BY <1>3, SameProject DEF IInv, TypeOK
      <3>2. stack'[k] \in Frame  BY <3>1
      <3>3. FnAt(stack'[k].fn) \in Fn
            BY <3>2, ProjectShape DEF Frame, RInv, DInv, IInv
      <3> QED BY <1>8, <3>3 DEF Fn
    <2>4. \A l \in DOMAIN stack : stack[l].next \in Nat
      <3>1. \A l \in DOMAIN stack : stack[l] \in Frame  BY <1>6
      <3> QED BY <3>1 DEF Frame
    <2> QED BY <1>4, <1>8, <2>1, <2>2, <2>3, <2>4
  <1>9. (F \cup Walking \cup EntryFns)' = after  BY <1>3
  <1> HIDE DEF after
  <1>10. \A i \in walked' : \A f \in Fns : EntryOf(f, i) => f \in F \cup Walking' \cup copies'
        BY <1>1, <1>2
  <1> QED BY <1>3, <1>7, <1>8, <1>9, <1>10 DEF Covered, Handled

\* Moving on takes the innermost walk to its next item, and no other.
LEMMA AdvancedNext ==
    ASSUME IInv, stack # <<>>
    PROVE  \A k \in DOMAIN stack :
             Advanced[k].next = IF k = Len(stack) THEN stack[k].next + 1 ELSE stack[k].next
  <1> SUFFICES ASSUME NEW k \in DOMAIN stack
               PROVE  Advanced[k].next = IF k = Len(stack) THEN stack[k].next + 1
                                                           ELSE stack[k].next
      OBVIOUS
  <1>1. stack \in Seq(Frame)  BY DEF IInv, TypeOK
  <1>2. stack[k] \in Frame  BY <1>1
  <1>3. Advanced[k] = IF k = Len(stack) THEN [stack[k] EXCEPT !.next = @ + 1] ELSE stack[k]
        BY DEF Advanced
  <1> QED BY <1>2, <1>3 DEF Frame

\* A registration or a call that opens no walk keeps the invariant, given that
\* what the call may reach is walked, in progress, or an entry.
LEMMA PassingKeeps ==
    ASSUME RInv, DInv', Visiting, stack' = Advanced,
           UNCHANGED <<project, walked, extracting, copies>>,
           recognised' = recognised \cup {s \in {Site} : Item.op = "route"},
           CopiesAreEntries => Callees(Top.fn, Top.next) \subseteq Walking \cup EntryFns
    PROVE  RInv'
  <1>1. IInv /\ IInv' /\ stack # <<>>  BY DEF RInv, DInv, Visiting
  <1>2. /\ DOMAIN stack' = DOMAIN stack
        /\ \A k \in DOMAIN stack : /\ stack'[k].fn = stack[k].fn /\ stack'[k].file = stack[k].file
                                   /\ stack'[k].next = IF k = Len(stack) THEN stack[k].next + 1
                                                       ELSE stack[k].next
        BY <1>1, AdvancedFrames, AdvancedNext
  <1>3. /\ Reachable' = Reachable /\ Registrations' = Registrations /\ EntryFns' = EntryFns
        /\ \A f : IsEntry(f)' = IsEntry(f)
        /\ CopiesAreEntries' = CopiesAreEntries /\ Fns' = Fns
        BY SameProgram
  <1>4. Item.op = "route" => Site \in Registrations
    <2>1. /\ Top.next \in DOMAIN FnAt(Top.fn).body /\ Item = FnAt(Top.fn).body[Top.next]
          /\ ContextOf(Top) \in Reachable /\ ContextOf(Top).fn = Top.fn
          BY TopWalk
    <2>2. PICK c \in Reachable : c.fn = Top.fn  BY <2>1
    <2>3. ASSUME Item.op = "route" PROVE [fn |-> c.fn, item |-> Top.next] \in Registrations
          BY <2>1, <2>2, <2>3 DEF Registrations
    <2> QED BY <2>2, <2>3 DEF Site
  <1>5. WalkReachable'
    <2>1. \A k \in DOMAIN stack' : ContextOf(stack'[k]) \in Reachable
          BY <1>2 DEF RInv, WalkReachable, ContextOf
    <2>2. recognised' \subseteq Registrations  BY <1>4 DEF RInv, WalkReachable
    <2> QED BY <1>3, <2>1, <2>2 DEF RInv, WalkReachable, ContextOf
  <1>6. CopiesAreEntries => \E F \in SUBSET Fns : Covered(F)'
    <2> SUFFICES ASSUME CopiesAreEntries PROVE \E F \in SUBSET Fns : Covered(F)'  OBVIOUS
    <2>1. PICK F \in SUBSET Fns : Covered(F)  BY DEF RInv
    <2>2. Walking \subseteq Walking'  BY <1>2 DEF Walking
    <2>3. Callees(Top.fn, Top.next) \subseteq F \cup Walking' \cup EntryFns  BY <2>2
    <2>4. Item.op = "route" => Site \in recognised'  OBVIOUS
    <2>5. \A k \in DOMAIN stack' :
             \/ k \in DOMAIN stack /\ stack'[k].next = stack[k].next
             \/ k = Len(stack) /\ stack'[k].next = stack[k].next + 1
             \/ stack'[k].next = 1
          BY <1>2
    <2>6. Covered(F)'  BY <1>1, <1>2, <2>1, <2>3, <2>4, <2>5, ItemCovered
    <2> QED BY <2>6
  <1> QED BY <1>3, <1>5, <1>6 DEF RInv

\* What a call finds, as its frame reads it.
LEMMA CallTargets ==
    ASSUME RInv, Calling, ~Passed(Top.fn, Item), CopiesAreEntries,
           NEW g \in Callees(Top.fn, Top.next)
    PROVE  /\ g \in Fns /\ Targets # {}
           /\ \A h \in Targets : /\ Key(h) = Key(g)
                                 /\ h = g \/ (IsEntry(h) /\ IsEntry(g))
           /\ \A e \in Fns : FileAt(FnAt(e).file).parses /\ Key(e) = Key(g) =>
                 e = g \/ (IsEntry(e) /\ IsEntry(g))
  <1>1. project \in Projects /\ Visiting  BY DEF RInv, DInv, IInv, Calling
  <1>2. /\ Top.fn \in Fns /\ Top.next \in DOMAIN FnAt(Top.fn).body /\ Top.file \in Files
        /\ Dir(Top.file) = Dir(FnAt(Top.fn).file)
        /\ Item = FnAt(Top.fn).body[Top.next]
        BY <1>1, TopWalk
  <1>3. Targets = Declared(StartOf(Item, Top.file), Item.owner, Item.name)
        BY DEF Targets, StartFile
  <1>4. Item.op = "call"  BY DEF Calling
  <1>5. /\ Targets # {}
        /\ \A h \in Targets : /\ Key(h) = Key(g)
                              /\ h = g \/ (IsEntry(h) /\ IsEntry(g))
        /\ \A h \in Targets : \A e \in Fns :
              FileAt(FnAt(e).file).parses /\ Key(e) = Key(g) => e = g \/ (IsEntry(e) /\ IsEntry(g))
        BY <1>1, <1>2, <1>3, <1>4, CalleesOfPackage
  <1>6. g \in Fns  BY DEF Callees
  <1> QED BY <1>5, <1>6

\* Every step of a walk keeps the invariant: a call that is cut leads to a walk
\* in progress, for its key tells one declaration, and one that is refused to
\* nothing.
LEMMA StepsReach ==
    ASSUME RInv, DInv', Step
    PROVE  RInv'
  <1>1. IInv /\ IInv' /\ project \in Projects /\ stack \in Seq(Frame)
        BY DEF RInv, DInv, IInv, TypeOK
  <1>2. UNCHANGED <<project, walked, extracting, copies>>
        BY DEF Step, Register, PassCall, CutCycle, RefuseCall, FollowCall, Return
  <1>3. /\ Reachable' = Reachable /\ Registrations' = Registrations /\ EntryFns' = EntryFns
        /\ \A f : IsEntry(f)' = IsEntry(f)
        /\ \A f : FnAt(f)' = FnAt(f)
        /\ \A f, i : Callees(f, i)' = Callees(f, i)
        /\ \A f, i : EntryOf(f, i)' = EntryOf(f, i)
        /\ CopiesAreEntries' = CopiesAreEntries /\ Fns' = Fns
        BY <1>2, SameProgram
  <1>4. CASE Register
    <2>1. /\ Visiting /\ Item.op = "route" /\ stack' = Advanced
          /\ recognised' = recognised \cup {s \in {Site} : Item.op = "route"}
          BY <1>4 DEF Register
    <2>2. Callees(Top.fn, Top.next) = {}
      <3>1. Item = FnAt(Top.fn).body[Top.next]  BY <2>1, TopWalk
      <3> QED BY <2>1, <3>1 DEF Callees
    <2> QED BY <1>2, <2>1, <2>2, PassingKeeps
  <1>5. ASSUME Calling, stack' = Advanced, recognised' = recognised,
               CopiesAreEntries => Callees(Top.fn, Top.next) \subseteq Walking \cup EntryFns
        PROVE  RInv'
    <2>1. Visiting /\ recognised' = recognised \cup {s \in {Site} : Item.op = "route"}
          BY <1>5 DEF Calling
    <2> QED BY <1>2, <1>5, <2>1, PassingKeeps
  <1>6. CASE PassCall
    <2>1. Calling /\ Passed(Top.fn, Item) /\ stack' = Advanced /\ recognised' = recognised
          BY <1>6 DEF PassCall
    <2>2. Item = FnAt(Top.fn).body[Top.next]  BY <2>1, TopWalk DEF Calling
    <2>3. Callees(Top.fn, Top.next) = {}  BY <2>1, <2>2 DEF Callees
    <2> QED BY <1>5, <2>1, <2>3
  <1>7. CASE CutCycle
    <2>1. /\ Calling /\ ~Passed(Top.fn, Item) /\ stack' = Advanced /\ recognised' = recognised
          BY <1>7 DEF CutCycle
    <2>2. PICK h \in Targets : Key(h) \in open  BY <1>7 DEF CutCycle, Cuts
    <2>3. PICK k \in DOMAIN stack : Key(stack[k].fn) = Key(h)
          BY <2>2 DEF RInv, DInv, IInv, RecursionGuarded
    <2>4. stack[k].fn \in Fns /\ FileAt(FnAt(stack[k].fn).file).parses
      <3>1. stack[k] \in Frame  BY <1>1
      <3>2. FnAt(stack[k].fn).file \in PackageFiles(stack[k].file)
            BY DEF RInv, DInv, PackagesIndexed
      <3> QED BY <3>1, <3>2 DEF Frame, PackageFiles
    <2>5. ASSUME CopiesAreEntries, NEW g \in Callees(Top.fn, Top.next)
          PROVE  g \in Walking \cup EntryFns
      <3>1. g \in Fns /\ Key(h) = Key(g)
            /\ (stack[k].fn = g \/ IsEntry(g))
            BY <2>1, <2>2, <2>3, <2>4, <2>5, CallTargets
      <3> QED BY <3>1 DEF Walking, EntryFns
    <2> QED BY <1>5, <2>1, <2>5
  <1>8. CASE RefuseCall
    <2>1. /\ Calling /\ ~Passed(Top.fn, Item) /\ stack' = Advanced /\ recognised' = recognised
          /\ Followable = {}
          BY <1>8 DEF RefuseCall
    <2>2. ASSUME CopiesAreEntries, NEW g \in Callees(Top.fn, Top.next)
          PROVE  FALSE
      <3>1. PICK h \in Targets : h = g \/ IsEntry(h)
            BY <2>1, <2>2, CallTargets
      <3>2. FnAt(g).param # "none"  BY <2>2 DEF Callees
      <3>3. FnAt(h).param # "none"  BY <3>1, <3>2 DEF IsEntry, EntryOf
      <3> QED BY <2>1, <3>3 DEF Followable
    <2> QED BY <1>5, <2>1, <2>2
  <1>9. CASE FollowCall
    <2>1. PICK f \in Followable :
            stack' = Append(Advanced,
                 [fn |-> f, next |-> 1, seed |-> Seeded(Item.args, Top.seed),
                  real |-> HeldBy(Item.args, Top.real),
                  file |-> IF Item.owner = 0 THEN FnAt(f).file ELSE StartFile])
          BY <1>9 DEF FollowCall
    <2>2. /\ Calling /\ Visiting /\ ~Passed(Top.fn, Item) /\ recognised' = recognised
          /\ stack # <<>> /\ Item.op = "call"
          BY <1>9 DEF FollowCall, Calling, Visiting
    <2> DEFINE frame == [fn |-> f, next |-> 1, seed |-> Seeded(Item.args, Top.seed),
                         real |-> HeldBy(Item.args, Top.real),
                         file |-> IF Item.owner = 0 THEN FnAt(f).file ELSE StartFile]
    <2>3. /\ frame.fn = f /\ frame.next = 1
          /\ ContextOf(frame) =
               [fn |-> f, file |-> IF Item.owner = 0 THEN FnAt(f).file ELSE StartFile]
          BY DEF ContextOf
    <2>4. stack' = Append(Advanced, frame)  BY <2>1
    <2>5. /\ Advanced \in Seq(Frame) /\ Len(Advanced) = Len(stack) /\ DOMAIN Advanced = DOMAIN stack
          /\ \A k \in DOMAIN stack : Advanced[k].fn = stack[k].fn /\ Advanced[k].file = stack[k].file
          /\ \A k \in DOMAIN stack :
             Advanced[k].next = IF k = Len(stack) THEN stack[k].next + 1 ELSE stack[k].next
          BY <1>1, <2>2, TopShape, AdvancedFrames, AdvancedNext DEF IInv
    <2>6. ContextOf(frame) \in Reachable
      <3>1. /\ Top.next \in DOMAIN FnAt(Top.fn).body /\ Item = FnAt(Top.fn).body[Top.next]
            /\ ContextOf(Top) \in Reachable
            /\ ContextOf(Top).fn = Top.fn /\ ContextOf(Top).file = Top.file
            BY <2>2, TopWalk
      <3>2. f \in Declared(StartOf(Item, Top.file), Item.owner, Item.name)
            /\ FnAt(f).param # "none" /\ StartFile = StartOf(Item, Top.file)
            BY DEF Followable, Targets, StartFile
      <3>3. ContextOf(frame) \in Called(ContextOf(Top))
            BY <2>2, <2>3, <3>1, <3>2 DEF Called
      <3> QED BY <1>1, <3>1, <3>3, ReachableIsLeast
    <2> HIDE DEF frame
    <2>7. /\ DOMAIN stack' = DOMAIN stack \cup {Len(stack) + 1}
          /\ \A k \in DOMAIN stack : stack'[k] = Advanced[k]
          /\ stack'[Len(stack) + 1] = frame
          BY <1>1, <2>4, <2>5
    <2>8. WalkReachable'
      <3>1. \A k \in DOMAIN stack' : ContextOf(stack'[k]) \in Reachable
            BY <2>5, <2>6, <2>7 DEF RInv, WalkReachable, ContextOf
      <3> QED BY <1>2, <1>3, <2>2, <3>1 DEF RInv, WalkReachable, ContextOf
    <2>9. CopiesAreEntries => \E F \in SUBSET Fns : Covered(F)'
      <3> SUFFICES ASSUME CopiesAreEntries PROVE \E F \in SUBSET Fns : Covered(F)'  OBVIOUS
      <3>1. PICK F \in SUBSET Fns : Covered(F)  BY DEF RInv
      <3>2. \A k \in DOMAIN stack : stack'[k].fn = stack[k].fn  BY <2>5, <2>7
      <3>3. f \in Walking'  BY <2>3, <2>7 DEF Walking
      <3>4. Callees(Top.fn, Top.next) \subseteq F \cup Walking' \cup EntryFns
        <4> SUFFICES ASSUME NEW g \in Callees(Top.fn, Top.next), g # f
                     PROVE  g \in EntryFns
            BY <3>3
        <4>1. f \in Targets  BY DEF Followable
        <4>2. g \in Fns /\ IsEntry(g)  BY <2>2, <4>1, CallTargets
        <4> QED BY <4>2 DEF EntryFns
      <3>5. \A k \in DOMAIN stack' :
               \/ k \in DOMAIN stack /\ stack'[k].next = stack[k].next
               \/ k = Len(stack) /\ stack'[k].next = stack[k].next + 1
               \/ stack'[k].next = 1
            BY <2>3, <2>5, <2>7
      <3>6. Item.op = "route" => Site \in recognised'  BY <2>2
      <3>7. DOMAIN stack \subseteq DOMAIN stack' /\ recognised \subseteq recognised'
            BY <2>2, <2>7
      <3>8. Covered(F)'  BY <1>1, <1>2, <2>2, <3>1, <3>2, <3>4, <3>5, <3>6, <3>7, ItemCovered
      <3> QED BY <3>8
    <2> QED BY <1>2, <1>3, <2>8, <2>9 DEF RInv
  <1>10. CASE Return
    <2>1. /\ stack # <<>> /\ Top.next > Len(Body) /\ stack' = SubSeq(stack, 1, Len(stack) - 1)
          /\ recognised' = recognised
          BY <1>10 DEF Return
    <2>2. /\ Len(stack) \in Nat \ {0} /\ Len(stack) \in DOMAIN stack /\ Top = stack[Len(stack)]
          /\ DOMAIN stack = 1..Len(stack) /\ DOMAIN stack' = 1..(Len(stack) - 1)
          /\ \A k \in DOMAIN stack' : k \in DOMAIN stack /\ stack'[k] = stack[k]
          BY <1>1, <2>1 DEF Top
    <2>3. Top \in Frame  BY <1>1, <2>2
    <2>4. Top.fn \in Fns /\ Top.next \in Nat /\ FnAt(Top.fn) \in Fn
          BY <1>1, <2>3, ProjectShape DEF Frame
    <2>5. WalkReachable'
          BY <1>2, <1>3, <2>1, <2>2 DEF RInv, WalkReachable, ContextOf
    <2>6. CopiesAreEntries => \E F \in SUBSET Fns : Covered(F)'
      <3> SUFFICES ASSUME CopiesAreEntries PROVE \E F \in SUBSET Fns : Covered(F)'  OBVIOUS
      <3>1. PICK F \in SUBSET Fns : Covered(F)  BY DEF RInv
      <3>2. PICK G \in SUBSET Fns : G = F \cup {Top.fn}  BY <2>4
      <3> DEFINE known == F \cup Walking \cup EntryFns
      <3>3. (G \cup Walking \cup EntryFns)' = known
        <4>1. Walking = Walking' \cup {Top.fn}
          <5>1. \A k \in DOMAIN stack : k \in DOMAIN stack' \/ k = Len(stack)
                BY <2>2
          <5> QED BY <2>2, <5>1 DEF Walking
        <4> QED BY <1>3, <3>2, <4>1
      <3>4. /\ \A f \in F : Handled(f, Len(FnAt(f).body) + 1, known)
            /\ \A k \in DOMAIN stack : Handled(stack[k].fn, stack[k].next, known)
            /\ \A i \in walked : \A f \in Fns : EntryOf(f, i) => f \in F \cup Walking \cup copies
            BY <3>1 DEF Covered
      <3>5. Handled(Top.fn, Len(FnAt(Top.fn).body) + 1, known)
        <4>1. \A i \in DOMAIN FnAt(Top.fn).body : i < Top.next
              BY <2>1, <2>4 DEF Fn, Body
        <4>2. Handled(Top.fn, Top.next, known)  BY <2>2, <3>4
        <4> QED BY <4>1, <4>2 DEF Handled
      <3>6. \A f \in G : Handled(f, Len(FnAt(f).body) + 1, known)  BY <3>2, <3>4, <3>5
      <3>7. \A k \in DOMAIN stack' : Handled(stack'[k].fn, stack'[k].next, known)
            BY <2>2, <3>4
      <3>8. \A i \in walked' : \A f \in Fns : EntryOf(f, i) => f \in G \cup Walking' \cup copies'
        <4>1. Walking \subseteq Walking' \cup {Top.fn}
          <5>1. \A k \in DOMAIN stack : k \in DOMAIN stack' \/ k = Len(stack)
                BY <2>2
          <5> QED BY <2>2, <5>1 DEF Walking
        <4> QED BY <1>2, <3>2, <3>4, <4>1
      <3> HIDE DEF known
      <3>9. Covered(G)'
            BY <1>3, <2>1, <3>3, <3>6, <3>7, <3>8 DEF Covered, Handled
      <3> QED BY <3>9
    <2> QED BY <1>2, <1>3, <2>5, <2>6 DEF RInv
  <1> QED BY <1>4, <1>6, <1>7, <1>8, <1>9, <1>10 DEF Step

\* A visit that leaves the walk alone keeps the invariant when the files that
\* it passes open no module, or those they open are to be walked.
LEMMA VisitReaches ==
    ASSUME RInv, DInv', UNCHANGED <<project, stack, recognised>>,
           \A i \in walked' \ walked : \A f \in Fns : EntryOf(f, i) => f \in copies',
           copies = {} \/ copies' = copies,
           \A f \in copies' : IsEntry(f), extracting' = 0 => copies' = {}
    PROVE  RInv'
  <1>1. /\ Reachable' = Reachable /\ Registrations' = Registrations /\ EntryFns' = EntryFns
        /\ \A f : IsEntry(f)' = IsEntry(f)
        /\ \A f : FnAt(f)' = FnAt(f)
        /\ \A f, i : Callees(f, i)' = Callees(f, i)
        /\ \A f, i : EntryOf(f, i)' = EntryOf(f, i)
        /\ CopiesAreEntries' = CopiesAreEntries /\ Fns' = Fns
        BY SameProgram
  <1>2. WalkReachable'  BY <1>1 DEF RInv, WalkReachable, ContextOf
  <1>3. ASSUME NEW F \in SUBSET Fns, Covered(F) PROVE Covered(F)'
    <2>1. Walking' = Walking  BY DEF Walking
    <2>2. \A i \in walked' : \A f \in Fns : EntryOf(f, i) => f \in F \cup Walking \cup copies'
          BY <1>3 DEF Covered
    <2> QED BY <1>1, <1>3, <2>1, <2>2 DEF Covered, Handled
  <1> QED BY <1>1, <1>2, <1>3 DEF RInv

LEMMA VisitsReach ==
    ASSUME RInv, DInv', Visit
    PROVE  RInv'
  <1>1. IInv /\ IInv' /\ project \in Projects /\ Files \subseteq Nat \ {0}
        BY ProjectShape DEF RInv, DInv, IInv
  <1>2. extracting = 0 => copies = {}  BY DEF RInv
  <1>3. \A f \in copies : IsEntry(f)  BY DEF RInv, WalkReachable
  <1>4. CASE SkipFile
    <2>1. PICK i \in Files : walked' = walked \cup {i} /\ ~FileAt(i).parses /\ Next1(i)
          BY <1>4 DEF SkipFile, Pass
    <2>2. UNCHANGED <<project, stack, recognised, copies, extracting>>
          BY <1>4 DEF SkipFile, walk
    <2>3. \A f \in Fns : ~EntryOf(f, i)  BY <2>1 DEF EntryOf, ReadFiles
    <2> QED BY <1>2, <1>3, <2>1, <2>2, <2>3, VisitReaches
  <1>5. CASE ReadFile
    <2>1. PICK i \in Files : walked' = walked \cup {i} /\ FileAt(i).module = 0 /\ Next1(i)
          BY <1>5 DEF ReadFile
    <2>2. UNCHANGED <<project, stack, recognised, copies, extracting>>
          BY <1>5 DEF ReadFile, walk
    <2>3. \A f \in Fns : ~EntryOf(f, i)  BY <2>1 DEF EntryOf
    <2> QED BY <1>2, <1>3, <2>1, <2>2, <2>3, VisitReaches
  <1>6. CASE OpenModule
    <2>1. PICK i \in Files :
            /\ Next1(i) /\ FileAt(i).parses /\ FileAt(i).module # 0
            /\ walked' = walked \cup {i} /\ extracting' = i
            /\ copies' = {f \in Fns : /\ FnAt(f).file \in PackageFiles(i)
                                      /\ FnAt(f).owner = FileAt(i).module
                                      /\ FnAt(f).name = RegisterRoutes
                                      /\ FnAt(f).param # "none"}
          BY <1>6 DEF OpenModule
    <2>2. UNCHANGED <<project, stack, recognised>> /\ extracting = 0
          BY <1>6, <2>1 DEF OpenModule, walk, Next1, Idle
    <2>3. i \in ReadFiles  BY <2>1 DEF Next1, Unwalked, ReadFiles
    <2>4. copies' = {f \in Fns : EntryOf(f, i)}  BY <2>1, <2>3 DEF EntryOf
    <2>5. \A f \in copies' : IsEntry(f)  BY <2>4 DEF IsEntry
    <2>6. extracting' # 0  BY <1>1, <2>1
    <2> QED BY <1>2, <2>1, <2>2, <2>4, <2>5, <2>6, VisitReaches
  <1>7. CASE WalkCopy
    <2>1. PICK f \in copies :
            /\ stack = <<>> /\ copies' = copies \ {f}
            /\ stack' = << [fn |-> f, next |-> 1, seed |-> Root, real |-> <<>>,
                            file |-> FnAt(f).file] >>
          BY <1>7 DEF WalkCopy
    <2>2. UNCHANGED <<project, walked, extracting, recognised>> /\ extracting # 0
          BY <1>7 DEF WalkCopy
    <2>3. DOMAIN stack = {} /\ DOMAIN stack' = {1} /\ stack'[1].fn = f /\ stack'[1].next = 1
          /\ ContextOf(stack'[1]) = [fn |-> f, file |-> FnAt(f).file]
          BY <2>1 DEF ContextOf
    <2>4. f \in Fns /\ IsEntry(f)  BY <1>1, <1>3 DEF IInv, TypeOK
    <2>5. /\ Reachable' = Reachable /\ Registrations' = Registrations /\ EntryFns' = EntryFns
          /\ \A g : IsEntry(g)' = IsEntry(g)
          /\ \A g : FnAt(g)' = FnAt(g)
          /\ \A g, i : Callees(g, i)' = Callees(g, i)
          /\ \A g, i : EntryOf(g, i)' = EntryOf(g, i)
          /\ CopiesAreEntries' = CopiesAreEntries /\ Fns' = Fns
          BY <2>2, SameProgram
    <2>6. [fn |-> f, file |-> FnAt(f).file] \in Entries
          BY <2>4 DEF Entries, IsEntry, EntryOf, ReadFiles
    <2>7. WalkReachable'
      <3>1. ContextOf(stack'[1]) \in Reachable  BY <1>1, <2>3, <2>6, ReachableIsLeast
      <3> QED BY <1>3, <2>1, <2>2, <2>3, <2>5, <3>1 DEF RInv, WalkReachable, ContextOf
    <2>8. ASSUME NEW F \in SUBSET Fns, Covered(F) PROVE Covered(F)'
      <3>1. Walking = {} /\ Walking' = {f}  BY <2>3 DEF Walking
      <3>2. /\ \A g \in F : Handled(g, Len(FnAt(g).body) + 1, F \cup EntryFns)
            /\ \A i \in walked : \A e \in Fns : EntryOf(e, i) => e \in F \cup copies
            BY <2>8, <3>1 DEF Covered
      <3>3. \A g \in F : \A i \in DOMAIN FnAt(g).body : i < Len(FnAt(g).body) + 1 =>
              /\ FnAt(g).body[i].op = "route" => [fn |-> g, item |-> i] \in recognised
              /\ Callees(g, i) \subseteq F \cup {f} \cup EntryFns
            BY <3>2 DEF Handled
      <3>4. \A i \in DOMAIN FnAt(f).body : ~(i < 1)
        <4>1. FnAt(f) \in Fn  BY <1>1, <2>4, ProjectShape
        <4> QED BY <4>1 DEF Fn
      <3>5. \A i \in walked' : \A e \in Fns : EntryOf(e, i) => e \in F \cup {f} \cup copies'
        <4>1. copies \subseteq copies' \cup {f} /\ walked' = walked  BY <2>1, <2>2
        <4> QED BY <3>2, <4>1
      <3> QED BY <2>2, <2>3, <2>5, <3>1, <3>3, <3>4, <3>5 DEF Covered, Handled
    <2> QED BY <2>2, <2>5, <2>7, <2>8 DEF RInv
  <1>8. CASE CloseModule
    <2>1. UNCHANGED <<project, stack, recognised, copies, walked>> /\ copies = {}
          BY <1>8 DEF CloseModule
    <2> QED BY <1>3, <2>1, VisitReaches
  <1>9. CASE Report
    <2>1. UNCHANGED <<project, stack, recognised, copies, walked, extracting>>
          BY <1>9 DEF Report, walk
    <2> QED BY <1>2, <1>3, <2>1, VisitReaches
  <1> QED BY <1>4, <1>5, <1>6, <1>7, <1>8, <1>9 DEF Visit

LEMMA DiscoveryReaches ==
    Spec => []RInv
  <1>1. Init => RInv
    <2> SUFFICES ASSUME Init PROVE RInv  OBVIOUS
    <2>1. /\ DOMAIN stack = {} /\ copies = {} /\ walked = {} /\ recognised = {}
          BY DEF Init
    <2>2. Covered({})  BY <2>1 DEF Covered
    <2> QED BY <2>1, <2>2, InitDirectives DEF RInv, WalkReachable
  <1>2. RInv /\ [Next]_vars => RInv'
    <2> SUFFICES ASSUME RInv, [Next]_vars PROVE RInv'  OBVIOUS
    <2>1. DInv'  BY NextDirectives DEF RInv
    <2>2. CASE Visit  BY <2>1, <2>2, VisitsReach
    <2>3. CASE Step  BY <2>1, <2>3, StepsReach
    <2>4. CASE UNCHANGED vars
      <3>1. UNCHANGED <<project, stack, recognised, walked, copies, extracting>>
            BY <2>4 DEF vars, walk
      <3>2. (\A f \in copies : IsEntry(f)) /\ (extracting = 0 => copies = {})
            BY DEF RInv, WalkReachable
      <3> QED BY <2>1, <3>1, <3>2, VisitReaches
    <2> QED BY <2>2, <2>3, <2>4 DEF Next, Finished
  <1> QED BY <1>1, <1>2, PTL DEF Spec

\* The walk sees no registration but those that some RegisterRoutes reaches,
\* in every project: no name that two packages share leads it astray.
THEOREM NothingBesides == Spec => [](recognised \subseteq Registrations)
  <1>1. RInv => recognised \subseteq Registrations  BY DEF RInv, WalkReachable
  <1> QED BY <1>1, DiscoveryReaches, PTL

\* Discovery sees every registration that RegisterRoutes reaches through
\* helpers and delegates, and none besides, wherever only RegisterRoutes has
\* copies under its key: cutting a cycle loses none, for what is cut is in
\* progress, and what is in progress is walked to its end.  Where a helper has a
\* build-tagged copy too, one copy is cut for the other, and it does not hold.
THEOREM CyclesLoseNone == Spec => [](CopiesAreEntries => RoutesComplete)
  <1>1. RInv => (CopiesAreEntries => RoutesComplete)
    <2> SUFFICES ASSUME RInv, CopiesAreEntries, done PROVE recognised = Registrations
        BY DEF RoutesComplete
    <2>1. /\ project \in Projects /\ extracting = 0 /\ Unwalked = {} /\ stack = <<>>
          /\ copies = {} /\ recognised \subseteq Registrations
          BY DEF RInv, WalkReachable, DInv, DetachedLast, IInv, TypeOK
    <2>2. PICK F \in SUBSET Fns : Covered(F)  BY DEF RInv
    <2>3. Walking = {}  BY <2>1 DEF Walking
    <2>4. EntryFns \subseteq F
      <3> SUFFICES ASSUME NEW f \in Fns, NEW i \in Files, EntryOf(f, i) PROVE f \in F
          BY DEF EntryFns, IsEntry
      <3>1. i \in walked  BY <2>1 DEF EntryOf, ReadFiles, Unwalked
      <3> QED BY <2>1, <2>2, <2>3, <3>1 DEF Covered
    <2>5. /\ \A f \in F : FnAt(f) \in Fn
          /\ \A f \in F : Handled(f, Len(FnAt(f).body) + 1, F)
      <3>1. F \cup Walking \cup EntryFns = F  BY <2>3, <2>4
      <3> QED BY <2>1, <2>2, <3>1, ProjectShape DEF Covered
    <2>6. ASSUME NEW f \in F, NEW i \in DOMAIN FnAt(f).body
          PROVE  /\ FnAt(f).body[i].op = "route" => [fn |-> f, item |-> i] \in recognised
                 /\ Callees(f, i) \subseteq F
      <3>1. i < Len(FnAt(f).body) + 1  BY <2>5 DEF Fn
      <3> QED BY <2>5, <3>1 DEF Handled
    <2> DEFINE S == {c \in Contexts : c.fn \in F}
    <2>7. Contexts = {c \in [fn : Fns, file : Files] : Dir(c.file) = Dir(FnAt(c.fn).file)}
          /\ Entries \subseteq Contexts /\ {c.fn : c \in Entries} = EntryFns
          /\ \A c \in Contexts : Called(c) \subseteq Contexts
          BY <2>1, ContextShape
    <2>8. Entries \subseteq S
      <3>1. \A c \in Entries : c.fn \in EntryFns  BY <2>7
      <3> QED BY <2>4, <2>7, <3>1
    <2>9. ASSUME NEW c \in S, NEW d \in Called(c) PROVE d \in S
      <3>1. c.fn \in F /\ c.file \in Files /\ Dir(c.file) = Dir(FnAt(c.fn).file)
            BY <2>7
      <3>2. PICK i \in DOMAIN FnAt(c.fn).body :
              LET call == FnAt(c.fn).body[i]
              IN  /\ call.op = "call" /\ ~Passed(c.fn, call)
                  /\ \E f \in Declared(StartOf(call, c.file), call.owner, call.name) :
                       FnAt(f).param # "none" /\ d.fn = f
            BY <2>9 DEF Called
      <3>3. d.fn \in Callees(c.fn, i)
            BY <3>1, <3>2, DeclaredShape DEF Callees
      <3> QED BY <2>6, <2>7, <2>9, <3>1, <3>3
    <2>10. Reachable \subseteq S
      <3>1. S \in SUBSET Contexts  OBVIOUS
      <3> HIDE DEF S
      <3> QED BY <2>1, <2>8, <2>9, <3>1, ReachableIsLeast
    <2>11. Registrations \subseteq recognised  BY <2>6, <2>10 DEF Registrations
    <2> QED BY <2>1, <2>11
  <1> QED BY <1>1, DiscoveryReaches, PTL

\* And so the directives reported detached there are those no registration
\* stands right below.
THEOREM DetachedAreUnused == Spec => [](CopiesAreEntries => DetachedMeansUnused)
  BY CyclesLoseNone, DetachedFollows, PTL
=============================================================================
