------------------------- MODULE ConsoleDocumented -------------------------
(***************************************************************************)
(* What keyboard.h says of the driver and the driver does not do, refuted  *)
(* by a run of its own (README.md, "Findings").                            *)
(***************************************************************************)
EXTENDS Console

\* keyboard.h:70, "keyboard reading is non-blocking. This can be made into
\* blocking input with `while (is_keyboard_blocking());`": the wait ends when
\* the user goes on pressing Enter, as long as the keyboard takes the keys.
WaitsEnd == pc = "wait" ~> pc # "wait"

=============================================================================
