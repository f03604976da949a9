----------------------------- MODULE MCConsole -----------------------------
(***************************************************************************)
(* Constants for TLC.                                                      *)
(***************************************************************************)
EXTENDS ConsoleDocumented

\* The shell shows one text of one character: the prompt's length only
\* decides at which column a line begins.
MCPromptLens == <<1>>

=============================================================================
