------------------------------ MODULE MCShell ------------------------------
(* The shell with a table of six processes and five files. *)
EXTENDS Shell

MCProcs == 1..6
MCTokens == {"cat", "echo"} \cup Symbols
\* Runs: two pipelines with redirections, a list with a background pipeline,
\* a block in a pipeline, a line that is not in the language, and inodepairs()
\* while its pair of files comes and goes.
MCLines == {
  <<"echo", "|", "cat", "<", "f", ">", "g">>,
  <<"cat", "<", "f", "|", "cat", "|", "cat">>,
  <<"echo", "|", "cat", "&", ";", "cat", ">>", "g">>,
  <<"(", "nope", ";", "echo", ")", "|", "cat">>,
  <<"cat", "&", "echo">>,
  <<"testip", "<", "f", "|", "cat", "<", "f">> }
MCInputs == UNION {[1..n -> MCTokens] : n \in 0..5} \cup MCLines
=============================================================================
