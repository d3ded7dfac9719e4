-------------------------- MODULE MCTypeResolution --------------------------
(***************************************************************************)
(* Fields over up to three types of their own package, A, B and C, and two *)
(* packages that both declare a struct S, a slice L of it, a number N and  *)
(* a Marshaler M.  Files 1 and 2 carry opposite build tags and may import  *)
(* either package under one name.                                          *)
(***************************************************************************)
EXTENDS TypeResolution

MCBuilds == {1, 2}

Local(n) == [k |-> "local", n |-> n]
Qual(dir, n) == [k |-> "qual", dir |-> dir, q |-> "q", n |-> n]
StdName(n) == [k |-> "qual", dir |-> "std", q |-> "std", n |-> n]
Struct == [k |-> "struct"]

Scalars == {Leaf("prim", n) : n \in {"int32", "int64", "byte", "string"}}
Outside == {StdName("Duration"), StdName("RawMessage"), StdName("Time"),
            [k |-> "qual", dir |-> "ext", q |-> "ext", n |-> "X"]}
Leaves == Scalars \cup Outside \cup {Leaf("error", "error"), Leaf("inst", "G[T]")}
Imported == {Qual(dir, n) : dir \in {"lib", "alt"}, n \in {"S", "L"}}
Within(leaves) == leaves \cup {Of(k, e) : k \in Containers, e \in leaves}

Decl(file, alias, rhs) == [file |-> file, alias |-> alias, rhs |-> rhs]
Single(alias, rhs) == <<Decl(0, alias, rhs)>>
Tagged(x, y) == <<[x EXCEPT !.file = 1], [y EXCEPT !.file = 2]>>

MCPackages ==
    [t \in {"lib", "alt"} \X {"S", "L", "N", "M"} |->
        CASE t[2] = "S" -> Single(FALSE, Struct)
          [] t[2] = "L" -> Single(FALSE, Of("slice", Local("S")))
          [] t[2] = "N" -> Single(FALSE, Leaf("prim", "int64"))
          [] t[2] = "M" -> Single(FALSE, Leaf("prim", "string"))]
MCPackageMethods == [t \in DOMAIN MCPackages |-> IF t[2] = "M" THEN "encode" ELSE "none"]

Home(a, b, c) == (<<"home", "A">> :> a) @@ (<<"home", "B">> :> b) @@ (<<"home", "C">> :> c)

\* No build declares a name as itself.
Names(d) == IF d.rhs.k = "local" THEN {d.rhs.n} ELSE {}
Step(decls, b, n) == UNION {Names(d) : d \in {d \in Range(decls[<<"home", n>>]) : d.file \in {0, b}}}
\* A file imports one package under one name.
Imports(d) == {e.dir : e \in {e \in {d.rhs} \cup (IF d.rhs.k \in Containers THEN {d.rhs.e} ELSE {}) :
                                e.k = "qual" /\ e.dir \in Module}}
OneImport(decls) ==
    LET all == UNION {Range(decls[t]) : t \in DOMAIN decls}
    IN  \A d, o \in all : d.file = o.file => Imports(d) \cup Imports(o) # {"lib", "alt"}
Valid(decls) ==
    /\ OneImport(decls)
    /\ \A b \in MCBuilds, n \in {"A", "B", "C"} :
          LET one == Step(decls, b, n)
              two == UNION {Step(decls, b, m) : m \in one}
              three == UNION {Step(decls, b, m) : m \in two}
          IN  n \notin one \cup two \cup three

\* Methods are declared on defined types, and on no pointer.
Methodless(d) == d.alias \/ d.rhs.k = "pointer"
MayHave(p, n) ==
    p.methods[<<"home", n>>] = "none" \/ \A d \in Range(p.decls[<<"home", n>>]) : ~Methodless(d)

Project(decls, methods) ==
    [decls |-> decls, methods |-> methods]
AllMethods == {"none", "decode", "encode", "text"}

Bs == {Single(al, rhs) : al \in BOOLEAN,
          rhs \in {Leaf("prim", "int32"), Byte, StdName("RawMessage"), StdName("Time"), Qual("lib", "L"),
                   Of("slice", Byte), Of("map", Local("A")), Local("C"), Qual("lib", "M")}}
      \cup {Single(FALSE, Struct)}
Cs == Single(FALSE, Of("slice", Local("A")))

\* Types declared once: A is anything, B what it may name.
Once ==
    {Project(Home(Single(al, rhs), b, Cs), Home(ma, mb, "none")) :
        al \in BOOLEAN, b \in Bs, ma, mb \in AllMethods,
        rhs \in {Struct} \cup Leaves \cup Within(Imported \cup {Local("B"), Byte})}

\* Types declared in two tagged files.
Copied == {Decl(0, al, rhs) : al \in BOOLEAN,
              rhs \in {Leaf("prim", n) : n \in {"int32", "byte", "string"}}
                       \cup {Qual(dir, n) : dir \in {"lib", "alt"}, n \in {"S", "L"}}
                       \cup {Local("B"), Of("slice", Local("B")), Of("slice", Leaf("prim", "int32"))}}
          \cup {Decl(0, FALSE, Struct)}
CopiedB == {Tagged(Decl(0, FALSE, x), Decl(0, FALSE, y)) :
               x \in {Leaf("prim", "int32"), Leaf("prim", "string"), Local("A")},
               y \in {Leaf("prim", "int64"), Byte, Local("A"), Qual("lib", "L"), Local("C")}}
           \cup {Single(FALSE, Leaf("prim", "int64")), Single(FALSE, Struct)}
Twice ==
    {Project(Home(Tagged(x, y), b, Cs), Home(m, "none", "none")) :
        x, y \in Copied, b \in CopiedB, m \in {"none", "text"}}

MCProjects ==
    {{p \in family : Valid(p.decls) /\ \A n \in {"A", "B"} : MayHave(p, n)} : family \in {Once, Twice}}
MCFields ==
    [type : {Local("A"), Of("slice", Local("A")), Of("map", Of("array", Local("A")))},
     file : {0}, param : BOOLEAN]
    \cup [type : {Local("A"), Of("slice", Local("A"))}, file : {2}, param : {FALSE}]
=============================================================================
