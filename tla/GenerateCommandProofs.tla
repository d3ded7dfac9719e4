------------------------ MODULE GenerateCommandProofs ------------------------
(***************************************************************************)
(* Proofs about GenerateCommand: what the exit of a run says about the     *)
(* output, for any number of runs over any projects.                       *)
(*                                                                         *)
(* What makes it inductive is Underway: what a run that has come so far    *)
(* has found out, and that it has touched nothing before it writes.        *)
(***************************************************************************)
EXTENDS GenerateCommand, TLAPS

\* A running command has passed the checks before its step and left the disk
\* as it found it, but for the file it is filling.
Underway ==
    /\ step # "idle" => exit = "none" /\ Consistent(opts) /\ run > 0
    /\ step \notin {"idle", "fill"} => disk = before
    /\ step \notin {"idle", "analyze"} => warnings = Count(project)
    /\ step \in {"render", "validate", "mkdir", "truncate", "fill"} =>
         ~(opts.strict /\ Warned)
    /\ step \in {"mkdir", "truncate", "fill"} => (opts.validate => project.valid)

IInv == TypeOK /\ Underway /\ ExitTellsDisk /\ GatesHold /\ ExtensionsTell

\* The path a run writes to is one the disk may hold, and its extension does
\* not contradict the format.
LEMMA OutputFileShape ==
    ASSUME NEW o \in Options
    PROVE  /\ OutputFile(o) \in Paths /\ Format(o) \in Formats
           /\ Consistent(o) /\ OutputFile(o) \in Formats => Format(o) = OutputFile(o)
  BY DEF OutputFile, Paths, Format, Formats, Options, Consistent

\* What a run writes is a file.
LEMMA DocumentShape ==
    ASSUME TypeOK, NEW whole \in BOOLEAN
    PROVE  Document(whole) \in File
  <1>1. run \in Nat  BY MaxRunsAssumption DEF TypeOK
  <1>2. opts \in Options /\ project \in Project  BY DEF TypeOK
  <1>3. Format(opts) \in Formats  BY <1>2, OutputFileShape
  <1>4. /\ project.valid \in BOOLEAN /\ opts.strict \in BOOLEAN /\ opts.validate \in BOOLEAN
        BY <1>2 DEF Project, Options
  <1>5. Warned \in BOOLEAN  BY DEF Warned
  <1> QED BY <1>1, <1>3, <1>4, <1>5 DEF Document, File

\* Warning counts are numbers.
LEMMA CountShape ==
    ASSUME NEW p \in Project
    PROVE  /\ p.version \in Nat /\ p.analyzer \in Nat /\ p.content \in Nat
           /\ Count(p) \in Nat
           /\ Count(p) = p.version + p.analyzer + p.content
  BY DEF Project, Count

\* Before the first run there is no file.
LEMMA InitIInv == Init => IInv
  <1> SUFFICES ASSUME Init PROVE IInv  OBVIOUS
  <1>1. DOMAIN disk = {} /\ disk = before  BY DEF Init
  <1>2. TypeOK
        BY <1>1, MaxRunsAssumption, ProjectsAssumption DEF Init, TypeOK, Steps, Exits
  <1> QED BY <1>1, <1>2 DEF IInv, Init, Underway, ExitTellsDisk, GatesHold, ExtensionsTell

-----------------------------------------------------------------------------
(* Every step preserves it. *)

\* A new run starts from whatever the last one left.
LEMMA InvokeIInv == IInv /\ Invoke => IInv'
  <1> SUFFICES ASSUME IInv, Invoke PROVE IInv'  OBVIOUS
  <1>1. /\ run \in 0..MaxRuns /\ run' = run + 1 /\ run < MaxRuns /\ disk' = disk
        /\ before' = disk /\ warnings' = 0 /\ opts' \in Options /\ project' \in Projects
        /\ \/ step' = "analyze" /\ exit' = "none" /\ Consistent(opts')
           \/ step' = "idle" /\ exit' = "usage"
        BY DEF IInv, TypeOK, Invoke, Continue, Exit
  <1>2. TypeOK'
    <2>1. run' \in 0..MaxRuns  BY <1>1, MaxRunsAssumption
    <2> QED BY <1>1, <2>1, ProjectsAssumption DEF IInv, TypeOK, Steps, Exits
  <1>3. Underway'  BY <1>1 DEF Underway
  <1>4. ExitTellsDisk' /\ GatesHold' /\ ExtensionsTell'
        BY <1>1 DEF IInv, ExitTellsDisk, GatesHold, ExtensionsTell
  <1> QED BY <1>2, <1>3, <1>4 DEF IInv

\* Steps that touch no file: they end the run, or pass a check.
LEMMA QuietIInv ==
    IInv /\ (Analyze \/ Render \/ Validate \/ MakeDirectory \/ Kill) => IInv'
  <1> SUFFICES ASSUME IInv, Analyze \/ Render \/ Validate \/ MakeDirectory \/ Kill
               PROVE  IInv'
      OBVIOUS
  <1>1. UNCHANGED <<disk, before, run, opts, project>>
        BY DEF Analyze, Render, Validate, MakeDirectory, Kill
  <1>2. Count(project) \in Nat /\ Count(project)' = Count(project)
        BY <1>1, CountShape DEF IInv, TypeOK, Count
  <1>3. TypeOK'
    <2>1. warnings' \in Nat /\ step' \in Steps /\ exit' \in Exits
          BY <1>2 DEF IInv, TypeOK, Analyze, Render, Validate, MakeDirectory, Kill,
             InvalidRemoves, Exit, Continue, Steps, Exits
    <2> QED BY <1>1, <2>1 DEF IInv, TypeOK
  <1>4. Underway'
    <2>1. CASE Analyze
          BY <1>1, <1>2, <2>1 DEF IInv, Underway, Analyze, FailStrict, Exit, Continue,
             Warned, Consistent
    <2>2. CASE Render
          BY <1>1, <1>2, <2>2 DEF IInv, Underway, Render, Exit, Continue, Warned, Consistent
    <2>3. CASE Validate
          BY <1>1, <1>2, <2>3 DEF IInv, Underway, Validate, InvalidRemoves, Exit, Continue,
             Warned, Consistent
    <2>4. CASE MakeDirectory
          BY <1>1, <1>2, <2>4 DEF IInv, Underway, MakeDirectory, Exit, Continue, Warned,
             Consistent
    <2>5. CASE Kill  BY <2>5 DEF Underway, Kill, Exit
    <2> QED BY <2>1, <2>2, <2>3, <2>4, <2>5
  <1>5. ExitTellsDisk'
    <2>1. \A f \in DOMAIN disk \ {OutputFile(opts)} :
            run > 0 => f \in DOMAIN before /\ disk[f] = before[f]
          BY DEF IInv, ExitTellsDisk
    <2>2. \/ exit' \in {"none", "killed"}
          \/ exit' \in {"analyze", "render", "mkdir"} /\ disk = before
          BY DEF IInv, Underway, Analyze, Render, Validate, MakeDirectory, Kill,
             InvalidRemoves, Exit, Continue
    <2> QED BY <1>1, <2>1, <2>2 DEF ExitTellsDisk, OutputFile, Format
  <1>6. GatesHold' /\ ExtensionsTell'
    <2>1. exit' # "ok"
          BY DEF Analyze, Render, Validate, MakeDirectory, Kill, InvalidRemoves, Exit, Continue
    <2> QED BY <1>1, <2>1 DEF IInv, GatesHold, ExtensionsTell
  <1> QED BY <1>3, <1>4, <1>5, <1>6 DEF IInv

\* A gate removes the output, or says that it could not.
LEMMA RemoveStaleIInv == IInv /\ RemoveStale => IInv'
  <1> SUFFICES ASSUME IInv, RemoveStale PROVE IInv'  OBVIOUS
  <1>1. /\ UNCHANGED <<before, run, opts, project, warnings>> /\ step' = "idle"
        /\ disk = before
        /\ \/ disk' = [f \in DOMAIN disk \ {OutputFile(opts)} |-> disk[f]]
              /\ exit' \in {"strict", "invalid"}
           \/ disk' = disk /\ exit' = "remove"
        BY DEF IInv, Underway, RemoveStale, Exit
  <1>2. OutputFile(opts)' = OutputFile(opts)  BY <1>1 DEF OutputFile, Format
  <1>3. /\ DOMAIN disk' \subseteq DOMAIN disk
        /\ \A f \in DOMAIN disk' : disk'[f] = disk[f]
        BY <1>1
  <1>4. TypeOK'  BY <1>1, <1>3 DEF IInv, TypeOK, Steps, Exits
  <1>5. Underway'  BY <1>1 DEF Underway
  <1>6. ExitTellsDisk'  BY <1>1, <1>2, <1>3 DEF ExitTellsDisk
  <1>7. GatesHold' /\ ExtensionsTell'
        BY <1>1, <1>3 DEF IInv, GatesHold, ExtensionsTell
  <1> QED BY <1>4, <1>5, <1>6, <1>7 DEF IInv

\* Writing leaves, in part or whole, a document that passed the gates.
LEMMA WriteIInv == IInv /\ (Truncate \/ Fill) => IInv'
  <1> SUFFICES ASSUME IInv, Truncate \/ Fill PROVE IInv'  OBVIOUS
  <1> DEFINE out == OutputFile(opts)
  <1>1. /\ UNCHANGED <<before, run, opts, project, warnings>>
        /\ Consistent(opts) /\ run > 0 /\ warnings = Count(project)
        /\ ~(opts.strict /\ Warned) /\ (opts.validate => project.valid)
        /\ TypeOK
        BY DEF IInv, Underway, Truncate, Fill
  <1>2. out \in Paths /\ (out \in Formats => Format(opts) = out)
        BY <1>1, OutputFileShape DEF TypeOK
  <1>3. \/ step' = "idle" /\ exit' = "write" /\ disk' = disk
        \/ \E w \in BOOLEAN :
             /\ disk' = Put(out, Document(w))
             /\ \/ step' = "fill" /\ exit' = "none"
                \/ /\ step' = "idle" /\ w = TRUE
                   /\ exit' = IF opts.failOnWarnings /\ Warned THEN "warned" ELSE "ok"
        BY DEF Truncate, Fill, WriteFailure, Exit, Continue
  <1>4. OutputFile(opts)' = out /\ Count(project)' = Count(project)
        BY <1>1 DEF OutputFile, Format, Count
  <1>5. \A f \in DOMAIN disk \ {out} : f \in DOMAIN before /\ disk[f] = before[f]
        BY <1>1 DEF IInv, ExitTellsDisk
  <1>6. CASE step' = "idle" /\ exit' = "write" /\ disk' = disk
    <2>1. TypeOK'  BY <1>1, <1>6 DEF TypeOK, Steps, Exits
    <2>2. Underway'  BY <1>6 DEF Underway
    <2>3. ExitTellsDisk'  BY <1>1, <1>4, <1>5, <1>6 DEF ExitTellsDisk
    <2>4. GatesHold' /\ ExtensionsTell'  BY <1>6 DEF IInv, GatesHold, ExtensionsTell
    <2> QED BY <2>1, <2>2, <2>3, <2>4 DEF IInv
  <1>7. ASSUME NEW w \in BOOLEAN, disk' = Put(out, Document(w)),
               \/ step' = "fill" /\ exit' = "none"
               \/ /\ step' = "idle" /\ w = TRUE
                  /\ exit' = IF opts.failOnWarnings /\ Warned THEN "warned" ELSE "ok"
        PROVE  IInv'
    <2> DEFINE c == Document(w)
    <2>1. /\ c \in File /\ c.run = run /\ c.whole = w /\ c.format = Format(opts)
          /\ c.strict => ~c.warned
          /\ c.validate => c.valid
          BY <1>1, DocumentShape DEF Document
    <2> HIDE DEF c, out
    <2>2. /\ DOMAIN disk' = DOMAIN disk \cup {out} /\ disk'[out] = c
          /\ \A f \in DOMAIN disk \ {out} : disk'[f] = disk[f]
          BY <1>7 DEF Put, c
    <2>3. TypeOK'
      <3>1. DOMAIN disk' \subseteq Paths /\ \A f \in DOMAIN disk' : disk'[f] \in File
            BY <1>1, <1>2, <2>1, <2>2 DEF TypeOK
      <3>2. step' \in Steps /\ exit' \in Exits  BY <1>7 DEF Steps, Exits
      <3> QED BY <1>1, <3>1, <3>2 DEF TypeOK
    <2>4. Underway'
          BY <1>1, <1>4, <1>7 DEF Underway, Warned, Consistent
    <2>5. ExitTellsDisk'
      <3>1. \A f \in DOMAIN disk' \ {out} : f \in DOMAIN before' /\ disk'[f] = before'[f]
            BY <1>1, <1>5, <2>2
      <3>2. exit' \in {"ok", "warned"} => w = TRUE  BY <1>7
      <3>3. exit' \in {"none", "ok", "warned"}  BY <1>7
      <3> QED BY <1>1, <1>4, <2>1, <2>2, <3>1, <3>2, <3>3 DEF ExitTellsDisk, Fresh
    <2>6. GatesHold'
      <3>1. ASSUME NEW f \in DOMAIN disk'
            PROVE  /\ disk'[f].strict => ~disk'[f].warned
                   /\ disk'[f].validate => disk'[f].valid
        <4>1. CASE f = out
          <5>1. disk'[f] = c  BY <2>2, <4>1
          <5> QED BY <2>1, <5>1, Zenon
        <4>2. CASE f # out
          <5>1. f \in DOMAIN disk /\ disk'[f] = disk[f]  BY <2>2, <4>2
          <5> QED BY <5>1, Zenon DEF IInv, GatesHold
        <4> QED BY <4>1, <4>2
      <3>2. exit' = "ok" => ~(project.version + project.analyzer + project.content > 0
                               /\ (opts.strict \/ opts.failOnWarnings))
        <4>1. Warned <=> project.version + project.analyzer + project.content > 0
              BY <1>1, CountShape DEF TypeOK, Warned
        <4> QED BY <1>1, <1>7, <4>1
      <3>3. project' = project /\ opts' = opts  BY <1>1
      <3> QED BY <3>1, <3>2, <3>3, Zenon DEF GatesHold
    <2>7. ExtensionsTell'
          BY <1>2, <2>1, <2>2 DEF IInv, ExtensionsTell
    <2> QED BY <2>3, <2>4, <2>5, <2>6, <2>7 DEF IInv
  <1> QED BY <1>3, <1>6, <1>7

\* Every step keeps the invariant, and so does doing nothing.
LEMMA NextIInv == IInv /\ [Next]_vars => IInv'
  <1> SUFFICES ASSUME IInv, [Next]_vars PROVE IInv'  OBVIOUS
  <1>1. CASE Invoke  BY <1>1, InvokeIInv
  <1>2. CASE Analyze \/ Render \/ Validate \/ MakeDirectory \/ Kill  BY <1>2, QuietIInv
  <1>3. CASE RemoveStale  BY <1>3, RemoveStaleIInv
  <1>4. CASE Truncate \/ Fill  BY <1>4, WriteIInv
  <1>5. CASE UNCHANGED vars
        BY <1>5 DEF vars, IInv, TypeOK, Underway, ExitTellsDisk, GatesHold, ExtensionsTell,
           Fresh, OutputFile, Format, Count, Warned, Consistent
  <1> QED BY <1>1, <1>2, <1>3, <1>4, <1>5 DEF Next, Work, NoMoreRuns

-----------------------------------------------------------------------------
(* Theorems. *)

\* The invariant holds of any number of runs.
THEOREM CommandInvariant == Spec => []IInv
  <1>1. Init => IInv  BY InitIInv
  <1>2. IInv /\ [Next]_vars => IInv'  BY NextIInv
  <1> QED BY <1>1, <1>2, PTL DEF Spec

\* The values of a run have their types.
THEOREM TypeCorrect == Spec => []TypeOK
  <1>1. IInv => TypeOK  BY DEF IInv
  <1> QED BY <1>1, CommandInvariant, PTL

\* The exit of a run tells what is at its output path.
THEOREM ExitIsTelling == Spec => []ExitTellsDisk
  <1>1. IInv => ExitTellsDisk  BY DEF IInv
  <1> QED BY <1>1, CommandInvariant, PTL

\* Nothing a gate of its own run refuses is ever on disk.
THEOREM GatesAlwaysHold == Spec => []GatesHold
  <1>1. IInv => GatesHold  BY DEF IInv
  <1> QED BY <1>1, CommandInvariant, PTL

\* No file's extension lies about its contents.
THEOREM ExtensionsAreTrue == Spec => []ExtensionsTell
  <1>1. IInv => ExtensionsTell  BY DEF IInv
  <1> QED BY <1>1, CommandInvariant, PTL
=============================================================================
