-------------------------------- MODULE MCIo --------------------------------
(* A small instance of IoDriver. *)
EXTENDS IoDriver

\* The vehicle is armed, and the safety button may be used.
MCArmed == {{"IO_ARM_OK", "FMU_ARMED"}}
\* A tool takes the order to fail back.
MCBits == {[bit |-> "FORCE_FAILSAFE", on |-> FALSE]}
=============================================================================
