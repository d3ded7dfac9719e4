-------------------------- MODULE MCGenerateCommand --------------------------
(***************************************************************************)
(* Outputs with no, a known and an unknown extension, and projects that    *)
(* fail, warn or document themselves in each way, for GenerateCommand.     *)
(***************************************************************************)
EXTENDS GenerateCommand

MCNames == {"", "yaml", "txt"}

Clean == [analyzable |-> TRUE, version |-> 0, analyzer |-> 0, content |-> 0,
          renders |-> TRUE, valid |-> TRUE]

MCProjects ==
    {Clean,
     [Clean EXCEPT !.analyzable = FALSE],
     [Clean EXCEPT !.version = 1],
     [Clean EXCEPT !.analyzer = 2, !.content = 1],
     [Clean EXCEPT !.renders = FALSE],
     [Clean EXCEPT !.valid = FALSE],
     [Clean EXCEPT !.version = 1, !.valid = FALSE]}
=============================================================================
