------------------------------- MODULE MCMbox -------------------------------
(* Instances of Mbox for TLC: the commands of main()'s table that behave    *)
(* differently, and AP commands that meet every branch of the handler.      *)
EXTENDS MboxRefinement

\* GET_RANDOM, REBOOT, OTP_READ_1B, OTP_WRITE_256B.
SmallTable == <<1, 9, 257, 517>>

\* A reboot with high bits set, the last Marvell write command and an unregistered
\* short one.
SmallApCmds == {65545, 517, 10}

\* Commands that are all answered, and an unknown long one, which is rejected.
LiveTable  == <<1, 517>>
LiveApCmds == {1, 300}
=============================================================================
