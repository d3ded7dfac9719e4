----------------------------- MODULE FreshNames -----------------------------
(***************************************************************************)
(* How the generator keeps two things from sharing a name: the first one   *)
(* takes the name, later ones get the least numeric suffix from 2 up that  *)
(* is still free.  ProjectAnalyzer.schemaKey (analyzer.go) names components *)
(* so, and assignOperationIDs (openapi.go) operations.                     *)
(*                                                                         *)
(* A name is a sequence of tokens, each token a number; a numeric suffix   *)
(* is one more token.                                                      *)
(***************************************************************************)
EXTENDS Naturals, Sequences, FiniteSets

NameText == Seq(Nat)

Numbered(base, n) == Append(base, n)

\* Among that many suffixes one is free: used holds fewer names.
Suffixes(used) == 2..(Cardinality(used) + 2)

FreeSuffixes(base, used) ==
    {n \in Suffixes(used) : Numbered(base, n) \notin used}

LeastFree(base, used) ==
    CHOOSE n \in FreeSuffixes(base, used) :
        \A m \in FreeSuffixes(base, used) : n <= m

\* For the mutation runs: the second candidate is used without a look.
FreshOnce(base, used) == IF base \notin used THEN base ELSE Numbered(base, 2)

Fresh(base, used) ==
    IF base \notin used THEN base ELSE Numbered(base, LeastFree(base, used))
=============================================================================
