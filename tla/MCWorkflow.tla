------------------------------ MODULE MCWorkflow -------------------------------
(* An instance of Workflow for TLC: two versions of a source, one of which  *)
(* can be resolved in two ways.                                             *)
EXTENDS Workflow

MCResolutions == [c1 |-> {"r1", "s1"}, c2 |-> {"r2"}]
MCVersions == {"c1", "c2"}

===============================================================================
