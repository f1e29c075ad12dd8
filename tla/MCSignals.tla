----------------------------- MODULE MCSignals -----------------------------
(* An instance of Signals: SIGINT, SIGUSR1 and SIGUSR2.                     *)
EXTENDS Signals

Signals3 == {2, 10, 12}
=============================================================================
