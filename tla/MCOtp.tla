------------------------------- MODULE MCOtp --------------------------------
(* Rows of eight bits: one of three-fold bits, three others, and the numbers*)
(* behind them, so that a command for four rows fits, or fails in its last. *)
EXTENDS OtpCommands

MCColumn  == [b \in DataBits |-> {}]
MCEccRow  == <<>>
MCValues  == {{0, 3}}
MCQuads   == {<<{0}, {1}, {}, {7}>>}
=============================================================================
