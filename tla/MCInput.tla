------------------------------ MODULE MCInput -------------------------------
(* The two readers of what others wrote: U-Boot's environment and the debug *)
(* console's line.  They share no state: one of them, the part, runs.       *)
EXTENDS UbootEnv, DebugConsole

VARIABLE part

invars == <<part, uvars, dvars>>

\* Every environment of eight bytes, read through a buffer of three: with
\* variables that are cut, fit exactly, are too long, or have no end.
MCContents == [0..Size-1 -> {NUL, EQ, 2}]

MCBytes == {"A", "B", "C", "D", "[", "3", "~", " ", "^A", "^C", "^E",
            "backspace", "return", "esc", "ctl"}

\* A part that does not run has one initial state.
InInit ==
  /\ part \in {"environment", "console"}
  /\ UInit /\ DInit
  /\ part = "console" => env = [b \in 0..Size-1 |-> NUL] /\ crc_ok

\* The reader of the environment stops.
InNext ==
  \/ part = "environment" /\ Step /\ UNCHANGED dvars
  \/ part = "environment" /\ pc \in {"done", "failed", "stopped"} /\ UNCHANGED <<uvars, dvars>>
  \/ part = "console" /\ DNext /\ UNCHANGED uvars

InSpec == InInit /\ [][InNext /\ UNCHANGED part]_invars
=============================================================================
