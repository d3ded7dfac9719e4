--------------------------- MODULE TypeResolution ---------------------------
(***************************************************************************)
(* What a field's type stands for (analyzer/resolution.go).  A named type  *)
(* is replaced by what it resolves to, a name reaching a struct becomes a  *)
(* reference, and where resolution stops a fallback is noted, the first of *)
(* which the field warns of.  Build constraints are not evaluated: a name  *)
(* declared in several tagged files is resolved in each, and what the      *)
(* copies resolve to is merged.                                            *)
(*                                                                         *)
(* The properties compare the result with what encoding/json writes for    *)
(* the type in each build.  Anonymous structs are LiteralExpansion's, the  *)
(* methods an embed promotes MethodSets', and registering the references   *)
(* TypeRegistration's.                                                     *)
(***************************************************************************)
EXTENDS SequencesExt

CONSTANTS
    Packages, \* the declarations of the types of the other packages
    PackageMethods, \* and their methods
    Projects, \* families of projects: the declarations and methods of the types
              \* of the field's package
    Fields,   \* the fields there may be: a type, its file, and whether a parameter
    Builds,   \* the builds a project may be compiled in
    MaxOpen   \* maxNamedResolutionDepth

(* A type is written as a shape: a builtin, a container of a type, a name of *)
(* its own package, or a qualified one of a package of the module, of std or *)
(* of anywhere else.  A resolution has these leaves and those of Untyped,    *)
(* "text", "kind" and "ref".                                                 *)
Leaf(k, n) == [k |-> k, n |-> n]
Of(k, e) == [k |-> k, e |-> e]
Containers == {"pointer", "slice", "array", "map"}
Module == {"home", "lib", "alt"}
Byte == Leaf("prim", "byte")
Untyped == {"marshaler", "recursive", "named", "inst", "error"}

\* The well-known types: two backed by a kind, the second at the end of a
\* chain of defined types only, and one that is neither.
KnownTypes == {"Duration", "RawMessage", "Time"}
UnderlyingOf(n) ==
    CASE n = "Duration"   -> {Leaf("prim", "int64")}
      [] n = "RawMessage" -> {Of("slice", Byte)}
      [] OTHER            -> {}

VARIABLES
    project,   \* what the field's types may name
    field,     \* {}, or the field
    resolved   \* {}, or what resolveField stamped and recorded

vars == <<project, field, resolved>>

Types == DOMAIN Packages \cup DOMAIN project.decls
Declared(t) == t \in Types
Decls(t) == IF t \in DOMAIN Packages THEN Packages[t] ELSE project.decls[t]
Methods(t) == IF t \in DOMAIN Packages THEN PackageMethods[t] ELSE project.methods[t]

\* localTypeDecls: the copy of the file itself, then the others by name.
Copies(at, n) ==
    LET all == IF Declared(<<at.dir, n>>) THEN Decls(<<at.dir, n>>) ELSE <<>>
    IN  SelectSeq(all, LAMBDA d : d.file = at.file)
            \o SelectSeq(all, LAMBDA d : d.file # at.file)

At(dir, file) == [dir |-> dir, file |-> file]

\* The struct a name's declarations reach, following the first that is no
\* struct; a qualified name is followed to a struct only.
StructIn(at, n) ==
    LET structs == SelectSeq(Copies(at, n), LAMBDA d : d.rhs.k = "struct")
    IN  IF structs = <<>> THEN {} ELSE {<<at.dir, n, structs[1].file>>}
RECURSIVE Chain(_, _, _)
Chain(at, n, depth) ==
    IF depth >= MaxOpen \/ Copies(at, n) = <<>> THEN {}
    ELSE IF StructIn(at, n) # {} THEN StructIn(at, n)
    ELSE LET d == Copies(at, n)[1]
         IN  CASE d.rhs.k = "local" -> Chain(At(at.dir, d.file), d.rhs.n, depth + 1)
               [] d.rhs.k = "qual" /\ d.rhs.dir \in Module ->
                      StructIn(At(d.rhs.dir, 0), d.rhs.n)
               [] OTHER -> {}

-----------------------------------------------------------------------------
(* The state of one field's resolution. *)

NoFallback == [kind |-> "none", type |-> ""]
Start == [first |-> NoFallback, refs |-> <<>>]

Note(st, kind, type) ==
    IF st.first.kind # "none" THEN st
    ELSE [st EXCEPT !.first = [kind |-> kind, type |-> type]]

\* A name's place of registration is that of its first use.
RecordRef(st, name, at, struct) ==
    IF name \in DOMAIN st.refs THEN st
    ELSE [st EXCEPT !.refs =
              (name :> [at |-> at, dir |-> struct[1]]) @@ st.refs]

Stopped(st, kind, leaf, n) == [shape |-> Leaf(leaf, n), st |-> Note(st, kind, n)]

Key(c, n) == <<c.at.dir, n>>
Open(c, n) == [c EXCEPT !.stack = Append(c.stack, Key(c, n))]
In(c, at) == [c EXCEPT !.at = at]

\* For the mutation runs: an element keeps what its container was in.
ElemContextKept(c, k) == [c EXCEPT !.byteElem = @ \/ k = "slice"]

\* Only a slice's own element is read as a possible byte.
ElemContext(c, k) == [c EXCEPT !.byteElem = (k = "slice")]

\* For the mutation runs: what the quiet run noted stays.
AfterQuietLeaking(st, quiet) ==
    [st EXCEPT !.first = IF @.kind # "none" THEN @ ELSE quiet.first]

\* A Marshaler's underlying type is resolved with notes that are dropped.
Quiet(st) == Start
AfterQuiet(st, quiet) == st

Cut(c, n) ==
    IF Key(c, n) \in Range(c.stack) THEN "recursive"
    ELSE IF Len(c.stack) >= MaxOpen THEN "depthCap"
    ELSE "none"

-----------------------------------------------------------------------------
(* Merging the copies of a type. *)

IntegerTypes == {"int32", "int64", "byte"}
LeafKind(s) ==
    CASE s.k = "prim" /\ s.n \in IntegerTypes -> "integer"
      [] s.k = "prim" /\ s.n = "string"   -> "string"
      [] s.k = "kind"                     -> s.n
      [] OTHER                            -> ""

RECURSIVE MergeShapes(_, _)
MergeShapes(x, y) ==
    LET elems == IF x.k \in Containers /\ x.k = y.k THEN MergeShapes(x.e, y.e) ELSE {}
    IN  CASE elems # {} -> {Of(x.k, e) : e \in elems}
          [] x.k \notin Containers /\ x.k = y.k /\ x.n = y.n -> {x}
          [] LeafKind(x) # "" /\ LeafKind(x) = LeafKind(y) -> {Leaf("kind", LeafKind(x))}
          [] OTHER -> {}

MergeDecls(results) ==
    FoldLeft(LAMBDA merged, r : UNION {MergeShapes(m, r) : m \in merged},
             {results[1]}, Tail(results))

FirstScalarKind(results) ==
    LET kinds == SelectSeq([i \in DOMAIN results |-> LeafKind(results[i])],
                           LAMBDA k : k # "")
    IN  IF kinds = <<>> THEN "" ELSE kinds[1]

\* For the mutation runs: names are taken to be enough.
ClashesNever(refs, more) == FALSE

\* One name two copies recorded with different declaring directories.
Clashes(refs, more) ==
    \E n \in DOMAIN refs \cap DOMAIN more : refs[n].dir # more[n].dir

-----------------------------------------------------------------------------
(* resolveShape and what it calls; each returns a shape and the state. *)

RECURSIVE ResolveShape(_, _, _), ResolveLocal(_, _, _, _),
          ResolveDecls(_, _, _, _), ResolveUnderlying(_, _, _, _),
          StructMethods(_, _, _)

\* The methods of a name reaching a struct: its own, else those of the type
\* it is an alias of; its first copy decides, and open ends a cycle of copies.
StructMethods(at, n, open) ==
    LET t == <<at.dir, n>>
        own == IF Declared(t) THEN Methods(t) ELSE "none"
        d == Copies(at, n)[1]
    IN  CASE own # "none" \/ t \in open \/ ~Declared(t) \/ ~d.alias -> own
          [] d.rhs.k = "local" -> StructMethods(At(at.dir, d.file), d.rhs.n, open \cup {t})
          [] d.rhs.k = "qual" /\ d.rhs.dir \in Module ->
                 StructMethods(At(d.rhs.dir, 0), d.rhs.n, open \cup {t})
          [] d.rhs.k = "qual" /\ d.rhs.dir = "std" /\ d.rhs.n # "Duration" -> "encode"
          [] OTHER -> "none"

\* A name reaching a struct: a Marshaler leaf, or a reference to register.
StructLeaf(name, n, c, st, mode, at, struct) ==
    LET ms == IF c.param \/ mode = "underlying" THEN "none" ELSE StructMethods(at, n, {})
    IN  CASE ms = "none" -> [shape |-> Leaf("ref", name), st |-> RecordRef(st, name, c.at, struct)]
          [] ms = "text" -> [shape |-> Leaf("text", n), st |-> st]
          [] OTHER       -> Stopped(st, "marshaler", "marshaler", n)

\* A byte type that only decodes is a plain byte in a slice, which stays base64.
MarshalerLeaf(n, c, st) ==
    LET quiet == ResolveDecls(n, c, Quiet(st), "underlying")
        after == AfterQuiet(st, quiet.st)
    IN  CASE Methods(Key(c, n)) = "text" -> [shape |-> Leaf("text", n), st |-> st]
          [] c.byteElem /\ Methods(Key(c, n)) = "decode" /\ quiet.shape = Byte ->
                 [shape |-> Byte, st |-> after]
          [] OTHER -> Stopped(after, "marshaler", "marshaler", n)

ResolveLocal(n, c, st, mode) ==
    LET struct == Chain(c.at, n, 0)
        why == Cut(c, n)
    IN  CASE struct # {} ->
                 StructLeaf(<<"", n>>, n, c, st, mode, c.at, CHOOSE s \in struct : TRUE)
          [] struct = {} /\ why # "none" -> Stopped(st, why, "recursive", n)
          [] struct = {} /\ why = "none" /\ Copies(c.at, n) = <<>> ->
                 Stopped(st, "unresolvable", "named", n)
          [] struct = {} /\ why = "none" /\ Copies(c.at, n) # <<>> ->
                 IF mode = "identity" /\ ~c.param /\ Methods(Key(c, n)) # "none"
                 THEN MarshalerLeaf(n, c, st)
                 ELSE ResolveDecls(n, c, st, mode)

ResolveDecl(n, d, c, st, mode) ==
    LET dc == In(c, At(c.at.dir, d.file))
    IN  CASE mode = "identity" /\ d.alias -> ResolveShape(d.rhs, dc, st)
          [] mode = "identity" /\ ~d.alias ->
                 ResolveUnderlying(n, d.rhs, [dc EXCEPT !.definer = n], st)
          [] OTHER -> ResolveUnderlying(n, d.rhs, dc, st)

\* resolveDecls with resolveEachDecl: each copy records references of its own.
ResolveDecls(n, c, st, mode) ==
    LET Each(acc, d) ==
            LET r == ResolveDecl(n, d, Open(c, n), [acc.st EXCEPT !.refs = <<>>], mode)
            IN  [results |-> Append(acc.results, r.shape),
                 clashed |-> acc.clashed \/ Clashes(acc.st.refs, r.st.refs),
                 st      |-> [first |-> r.st.first, refs |-> acc.st.refs @@ r.st.refs]]
        all == FoldLeft(Each, [results |-> <<>>, clashed |-> FALSE, st |-> st],
                        Copies(c.at, n))
        merged == IF all.clashed THEN {} ELSE MergeDecls(all.results)
        kind == FirstScalarKind(all.results)
    IN  CASE merged # {} -> [shape |-> CHOOSE m \in merged : TRUE, st |-> all.st]
          [] merged = {} /\ kind # "" -> [shape |-> Leaf("kind", kind), st |-> all.st]
          [] OTHER -> Stopped(all.st, "declsDisagree", "named", n)

\* A qualified name ends the chain unless a kind backs it or its package is read.
ResolveUnderlying(n, rhs, c, st) ==
    LET known == IF rhs.k = "qual" /\ rhs.dir = "std" THEN UnderlyingOf(rhs.n) ELSE {}
        definer == IF c.definer = "" THEN n ELSE c.definer
    IN  CASE rhs.k = "local" -> ResolveLocal(rhs.n, c, st, "underlying")
          [] rhs.k \notin {"local", "qual"} -> ResolveShape(rhs, c, st)
          [] known # {} -> [shape |-> CHOOSE u \in known : TRUE, st |-> st]
          [] rhs.k = "qual" /\ Declared(<<rhs.dir, rhs.n>>) ->
                 ResolveLocal(rhs.n, In(c, At(rhs.dir, 0)), st, "underlying")
          [] OTHER -> [shape |-> Leaf("named", n),
                       st    |-> Note(st, "definedOverQualified", definer)]

ResolveQualified(s, c, st) ==
    LET at == At(s.dir, 0)
    IN  CASE StructIn(at, s.n) # {} ->
                 StructLeaf(<<s.q, s.n>>, s.n, c, st, "identity", at,
                            CHOOSE t \in StructIn(at, s.n) : TRUE)
          [] s.dir = "std" /\ s.n = "Duration" ->
                 [shape |-> CHOOSE u \in UnderlyingOf(s.n) : TRUE, st |-> st]
          [] s.dir = "std" /\ s.n # "Duration" -> [shape |-> Leaf("known", s.n), st |-> st]
          [] s.dir \in Module /\ StructIn(at, s.n) = {} /\ Declared(<<s.dir, s.n>>) ->
                 ResolveLocal(s.n, In(c, at), st, "identity")
          [] OTHER -> Stopped(st, "unresolvable", "named", s.n)

ResolveShape(s, c, st) ==
    LET elem == ResolveShape(s.e, ElemContext(c, s.k), st)
    IN  CASE s.k \in Containers -> [shape |-> Of(s.k, elem.shape), st |-> elem.st]
          [] s.k = "qual"  -> ResolveQualified(s, c, st)
          [] s.k = "local" -> ResolveLocal(s.n, c, st, "identity")
          [] s.k = "error" -> Stopped(st, "untypedBuiltin", "error", s.n)
          [] s.k = "inst"  -> Stopped(st, "generic", "inst", s.n)
          [] OTHER         -> [shape |-> s, st |-> st]

-----------------------------------------------------------------------------
(* A field is resolved once, in the file that declares it. *)

Context(f) ==
    [at |-> At("home", f.file), param |-> f.param, definer |-> "",
     byteElem |-> FALSE, stack |-> <<>>]

ResolveField(f) ==
    /\ field = {} /\ field' = {f}
    /\ resolved' = {ResolveShape(f.type, Context(f), Start)}
    /\ UNCHANGED project

Done == field # {} /\ UNCHANGED vars

Init == (\E family \in Projects : project \in family) /\ field = {} /\ resolved = {}
Next == (\E f \in Fields : ResolveField(f)) \/ Done
Spec == Init /\ [][Next]_vars

-----------------------------------------------------------------------------
(* Go and encoding/json.  A build compiles the untagged copy of a name, or   *)
(* the copy of its own file.                                                 *)

Field == CHOOSE f \in field : TRUE
CopyIn(t, b) == CHOOSE d \in Range(Decls(t)) : d.file \in {0, b}

\* A type in a build: the literal, the struct or the name from elsewhere it
\* comes down to, the package that is written in, and the methods it has.
Plain(lit, dir) == [methods |-> "none", lit |-> lit, dir |-> dir]
Std(n) ==
    IF n = "Duration" THEN Plain(Leaf("prim", "int64"), "std")
    ELSE [methods |-> n, lit |-> IF n = "RawMessage" THEN Of("slice", Byte) ELSE Leaf("std", n),
          dir |-> "std"]
RECURSIVE Denotes(_, _, _)
Denotes(s, dir, b) ==
    LET t == <<IF s.k = "local" THEN dir ELSE s.dir, s.n>>
        d == CopyIn(t, b)
        target == IF d.rhs.k = "struct"
                  THEN Plain([k |-> "struct", id |-> <<t[1], t[2], d.file>>], t[1])
                  ELSE Denotes(d.rhs, t[1], b)
    IN  CASE s.k \notin {"local", "qual"} -> Plain(s, dir)
          [] s.k = "qual" /\ s.dir = "std" -> Std(s.n)
          [] s.k \in {"local", "qual"} /\ Declared(t) ->
                 IF d.alias THEN target ELSE [target EXCEPT !.methods = Methods(t)]
          [] OTHER -> Plain(Leaf("named", s.n), dir)

\* A parameter is bound by kind: the methods of its type do not matter.
MethodsOf(d) == IF Field.param /\ d.methods \notin KnownTypes THEN "none" ELSE d.methods
IsByte(d) == d.lit = Byte /\ MethodsOf(d) \in {"none", "decode"}

\* The struct a reference is registered as, from the place it was recorded.
Registered(name, refs) ==
    LET at == refs[name].at
    IN  IF name[1] = "" THEN Chain(at, name[2], 0)
        ELSE UNION {StructIn(At(dir, 0), name[2]) : dir \in {refs[name].dir}}

\* What the shape says is what encoding/json writes for the type in a build.
RECURSIVE Holds(_, _, _, _, _)
Holds(shape, refs, s, dir, b) ==
    LET d == Denotes(s, dir, b)
        ms == MethodsOf(d)
        ElemIsByte == IsByte(Denotes(d.lit.e, d.dir, b))
    IN  CASE shape.k = "known" -> ms = shape.n
          [] shape.k = "text"  -> ms = "text"
          [] shape.k = "ref"   -> ms = "none" /\ d.lit.k = "struct" /\ d.lit.id \in Registered(shape.n, refs)
          [] shape.k = "prim"  -> ms = "none" /\ d.lit = shape
          [] shape.k = "kind"  -> ms = "none" /\ LeafKind(d.lit) = shape.n
          [] shape.k \in Containers ->
                 /\ ms = "none" /\ d.lit.k = shape.k
                 /\ IF shape.k = "slice" /\ (ElemIsByte \/ shape.e = Byte)
                    THEN ElemIsByte /\ shape.e = Byte
                    ELSE Holds(shape.e, refs, d.lit.e, d.dir, b)
          [] OTHER -> FALSE

-----------------------------------------------------------------------------
(* Properties. *)

Result == CHOOSE r \in resolved : TRUE
RECURSIVE InnerLeaf(_)
InnerLeaf(shape) == IF shape.k \in Containers THEN InnerLeaf(shape.e) ELSE shape

\* Copies of which one is preferred rather than all merged: a struct, and a
\* scalar beside what is of another kind.
Named(t) == [k |-> "qual", dir |-> t[1], n |-> t[2]]
Scalar(t, b) ==
    LET d == Denotes(Named(t), "home", b)
    IN  IF MethodsOf(d) = "none" THEN LeafKind(d.lit) ELSE ""
Preferred(t) ==
    /\ Len(Decls(t)) > 1
    /\ \/ \E f \in {0} \cup Builds : Chain(At(t[1], f), t[2], 0) # {}
       \/ /\ \E b \in Builds : Scalar(t, b) # ""
          /\ \E b, o \in Builds : Scalar(t, b) # Scalar(t, o)

\* Copies of which some end in a byte and some do not: the kind they share
\* says nothing of base64 (resolution.go, mergeShapes).
RECURSIVE EndsInByte(_, _, _, _)
EndsInByte(s, dir, b, depth) ==
    LET d == Denotes(s, dir, b)
    IN  IF d.lit.k \in Containers /\ depth > 0
        THEN EndsInByte(d.lit.e, d.dir, b, depth - 1) ELSE d.lit = Byte
MixesBytes(t) ==
    \E b, o \in Builds : EndsInByte(Named(t), "home", b, 4) # EndsInByte(Named(t), "home", o, 4)

\* A field that raises no warning is documented as encoding/json writes it in
\* every build, and where one copy of a type is preferred to another, in one
\* build at least (resolveDecls: copies are merged leaf by leaf, else the first
\* scalar's kind is taken; marshalerLeaf and resolveSliceElem: base64 only for
\* a slice of bytes; foldRefSites: one reference, one struct).
EncodedAsDocumented ==
    resolved # {} /\ Result.st.first.kind = "none" /\ (\A t \in Types : ~MixesBytes(t)) =>
        LET Right(b) == Holds(Result.shape, Result.st.refs, Field.type, "home", b)
        IN  IF \E t \in Types : Preferred(t) THEN \E b \in Builds : Right(b)
            ELSE \A b \in Builds : Right(b)

\* The one warning of a field tells where its resolution stopped: a shape with
\* an untyped leaf always has one, and without copies to choose from, none is
\* raised over a typed leaf, it is of the leaf's kind, and a defined type is
\* never an alias met on the way (note, quiet, definer).
LeafOf(kind) ==
    CASE kind \in {"recursive", "depthCap"} -> "recursive"
      [] kind \in {"unresolvable", "definedOverQualified", "declsDisagree"} -> "named"
      [] kind = "untypedBuiltin" -> "error"
      [] kind = "generic" -> "inst"
      [] OTHER -> kind
WarningTellsLeaf ==
    resolved # {} =>
        LET first == Result.st.first
            leaf == InnerLeaf(Result.shape)
        IN  /\ leaf.k \in Untyped => first.kind # "none"
            /\ (\A t \in Types : Len(Decls(t)) = 1) =>
                   /\ first.kind # "none" => leaf.k = LeafOf(first.kind)
                   /\ first.kind \notin {"none", "definedOverQualified"} => first.type = leaf.n
                   /\ first.kind = "definedOverQualified" =>
                          \E t \in Types :
                              t[2] = first.type /\ ~Decls(t)[1].alias
=============================================================================
