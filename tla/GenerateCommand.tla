--------------------------- MODULE GenerateCommand ---------------------------
(***************************************************************************)
(* The generate command (internal/commands/generate.go), run after run     *)
(* over a project that changes between runs and a file system that may     *)
(* refuse each call: what is left at the output path, and what the exit    *)
(* status says about it.                                                   *)
(*                                                                         *)
(* One action per call that reads or changes something outside the         *)
(* process.  os.WriteFile is two of them, as it is in the operating        *)
(* system: the file is truncated, then filled.  The process may be killed  *)
(* between any two.                                                        *)
(***************************************************************************)
EXTENDS Naturals, FiniteSets

CONSTANTS
    Names,    \* the extensions --output may have: "" (none), "yaml", "json", others
    Projects, \* what a project may be like when it is analyzed
    MaxRuns   \* the bound on the number of runs

\* analyzable: whether AnalyzeProject succeeds; version, analyzer and content:
\* how many warnings each of the three checks prints; renders: whether the
\* document is rendered; valid: whether the rendered document is valid.
Project == [analyzable : BOOLEAN, version : {0, 1}, analyzer : Nat,
            content : Nat, renders : BOOLEAN, valid : BOOLEAN]

ASSUME ProjectsAssumption == Projects \subseteq Project
ASSUME MaxRunsAssumption == MaxRuns \in Nat

VARIABLES
    disk,     \* the files at the paths a run may write to, by extension
    before,   \* disk as the run found it
    run,      \* how many runs were started
    step,     \* what the run does next
    opts,     \* its options
    project,  \* the project it analyzes
    warnings, \* the count of the "Warnings: N" line
    exit      \* how the last run ended

vars == <<disk, before, run, step, opts, project, warnings, exit>>

-----------------------------------------------------------------------------
(* Options. *)

Formats == {"yaml", "json"}

\* usable: the project root exists and --license-url has its --license.
Options == [name : Names, format : Formats \cup {""}, usable : BOOLEAN,
            strict : BOOLEAN, failOnWarnings : BOOLEAN, validate : BOOLEAN]

\* For the mutation runs: an explicit format overrides the extension.
FormatOverrides(o) == TRUE

\* resolveFormat: an explicit format must not contradict a known extension.
Consistent(o) == o.format # "" /\ o.name \in Formats => o.format = o.name

\* resolveFormat's answer when it has one.
Format(o) ==
    IF o.format # "" THEN o.format ELSE IF o.name \in Formats THEN o.name ELSE "yaml"

\* For the mutation runs: the output is written at the name given.
OutputAsGiven(o) == o.name

\* validateGenerateOptions: a name without an extension gets the format's.
OutputFile(o) == IF o.name = "" THEN Format(o) ELSE o.name

Paths == (Names \ {""}) \cup Formats

\* What a run leaves in its file: whether all of it is there, and what became
\* of the checks on the document.
File == [run : Nat, whole : BOOLEAN, format : Formats,
         warned : BOOLEAN, valid : BOOLEAN, strict : BOOLEAN, validate : BOOLEAN]

Warned == warnings > 0

Document(whole) ==
    [run |-> run, whole |-> whole, format |-> Format(opts), warned |-> Warned,
     valid |-> project.valid, strict |-> opts.strict, validate |-> opts.validate]

-----------------------------------------------------------------------------
(* One run. *)

Steps == {"idle", "analyze", "render", "validate", "mkdir", "truncate", "fill",
          "remove_strict", "remove_invalid"}

Exits == {"none", "usage", "analyze", "strict", "render", "invalid", "remove",
          "mkdir", "write", "warned", "ok", "killed"}

\* The run ends.
Exit(how) == step' = "idle" /\ exit' = how

Continue(at) == step' = at /\ exit' = "none"

Invoke ==
    /\ step = "idle" /\ run < MaxRuns
    /\ run' = run + 1 /\ before' = disk /\ warnings' = 0
    /\ \E o \in Options, p \in Projects :
         /\ opts' = o /\ project' = p
         /\ IF o.usable /\ Consistent(o) THEN Continue("analyze") ELSE Exit("usage")
    /\ UNCHANGED disk

\* For the mutation runs: the version warning is printed and not counted.
CountWithoutVersion(p) == p.analyzer + p.content

\* runGenerate counts every diagnostic it prints.
Count(p) == p.analyzer + p.content + p.version

\* For the mutation runs: --fail-on-warnings turns the strict gate off.
FailStrictUnlessKept(o, n) == o.strict /\ ~o.failOnWarnings /\ n > 0

\* shouldFailStrict.
FailStrict(o, n) == o.strict /\ n > 0

Analyze ==
    /\ step = "analyze"
    /\ IF ~project.analyzable
       THEN Exit("analyze") /\ UNCHANGED warnings
       ELSE LET n == Count(project)
            IN  /\ warnings' = n
                /\ Continue(IF FailStrict(opts, n) THEN "remove_strict" ELSE "render")
    /\ UNCHANGED <<disk, before, run, opts, project>>

\* generateSpecContent.
Render ==
    /\ step = "render"
    /\ IF project.renders THEN Continue("validate") ELSE Exit("render")
    /\ UNCHANGED <<disk, before, run, opts, project, warnings>>

\* For the mutation runs: an invalid document is reported, its predecessor kept.
InvalidExits == Exit("invalid")

\* validateGeneratedSpec: an invalid document is worse than none.
InvalidRemoves == Continue("remove_invalid")

Validate ==
    /\ step = "validate"
    /\ IF opts.validate /\ ~project.valid THEN InvalidRemoves ELSE Continue("mkdir")
    /\ UNCHANGED <<disk, before, run, opts, project, warnings>>

\* removeStaleOutput: a missing file is no error; a refused removal is the
\* run's error.
RemoveStale ==
    /\ step \in {"remove_strict", "remove_invalid"}
    /\ \/ /\ disk' = [f \in DOMAIN disk \ {OutputFile(opts)} |-> disk[f]]
          /\ Exit(IF step = "remove_strict" THEN "strict" ELSE "invalid")
       \/ /\ OutputFile(opts) \in DOMAIN disk
          /\ Exit("remove") /\ UNCHANGED disk
    /\ UNCHANGED <<before, run, opts, project, warnings>>

MakeDirectory ==
    /\ step = "mkdir"
    /\ Continue("truncate") \/ Exit("mkdir")
    /\ UNCHANGED <<disk, before, run, opts, project, warnings>>

Put(f, c) == [g \in DOMAIN disk \cup {f} |-> IF g = f THEN c ELSE disk[g]]

\* os.WriteFile opens the output for writing, which empties it.
Truncate ==
    /\ step = "truncate"
    /\ \/ disk' = Put(OutputFile(opts), Document(FALSE)) /\ Continue("fill")
       \/ Exit("write") /\ UNCHANGED disk
    /\ UNCHANGED <<before, run, opts, project, warnings>>

\* For the mutation runs: a failed write goes unnoticed.
UnnoticedFailure == Exit("ok")

WriteFailure == Exit("write")

\* os.WriteFile fills it; the gate of --fail-on-warnings comes after.
Fill ==
    /\ step = "fill"
    /\ \/ /\ disk' = Put(OutputFile(opts), Document(TRUE))
          /\ Exit(IF opts.failOnWarnings /\ Warned THEN "warned" ELSE "ok")
       \/ WriteFailure /\ UNCHANGED disk
    /\ UNCHANGED <<before, run, opts, project, warnings>>

\* The process dies where it stands.
Kill ==
    /\ step # "idle"
    /\ Exit("killed")
    /\ UNCHANGED <<disk, before, run, opts, project, warnings>>

Init ==
    /\ disk = [f \in {} |-> f] /\ before = disk
    /\ run = 0 /\ step = "idle" /\ exit = "none" /\ warnings = 0
    /\ opts \in Options /\ project \in Projects

Work == Analyze \/ Render \/ Validate \/ RemoveStale \/ MakeDirectory \/ Truncate \/ Fill

\* Nobody runs the command again.
NoMoreRuns == step = "idle" /\ run = MaxRuns /\ UNCHANGED vars

Next == Invoke \/ Work \/ Kill \/ NoMoreRuns

Spec == Init /\ [][Next]_vars

-----------------------------------------------------------------------------
(* Properties. *)

\* The values have their types; a file written has the name's own extension or
\* the format's, never none.
TypeOK ==
    /\ DOMAIN disk \subseteq Paths /\ \A f \in DOMAIN disk : disk[f] \in File
    /\ DOMAIN before \subseteq Paths /\ \A f \in DOMAIN before : before[f] \in File
    /\ run \in 0..MaxRuns
    /\ step \in Steps
    /\ opts \in Options
    /\ project \in Project
    /\ warnings \in Nat
    /\ exit \in Exits

Fresh(f) == f \in DOMAIN disk /\ disk[f].run = run /\ disk[f].whole

\* The exit tells what is at the output path: after success, and after the
\* failure of --fail-on-warnings, this run's document and all of it; after a
\* failed strict run and a failed validation, nothing, whatever was there;
\* after any other refusal, what was there before.  Only a failed write and a
\* kill leave it open.
ExitTellsDisk ==
    /\ exit \in {"ok", "warned"} => Fresh(OutputFile(opts))
    /\ exit \in {"strict", "invalid"} => OutputFile(opts) \notin DOMAIN disk
    /\ exit \in {"usage", "analyze", "render", "remove", "mkdir"} => disk = before
    /\ \A f \in DOMAIN disk \ {OutputFile(opts)} :
         run > 0 => f \in DOMAIN before /\ disk[f] = before[f]

\* No document that its own run's gates refuse is ever on disk, not even in
\* part, and success under a gate means the gate had nothing to say.  Any of
\* the three warning counts is enough for --strict, with any other option.
GatesHold ==
    /\ \A f \in DOMAIN disk :
         /\ disk[f].strict => ~disk[f].warned
         /\ disk[f].validate => disk[f].valid
    /\ exit = "ok" => ~(project.version + project.analyzer + project.content > 0
                          /\ (opts.strict \/ opts.failOnWarnings))

\* A file whose extension names a format holds that format.
ExtensionsTell ==
    \A f \in DOMAIN disk : f \in Formats => disk[f].format = f
=============================================================================
