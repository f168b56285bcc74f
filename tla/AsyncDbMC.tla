----------------------------- MODULE AsyncDbMC -----------------------------
(***************************************************************************)
(* AsyncDb on small instances: the main thread, the world thread and, for  *)
(* the safety run, one network thread.                                     *)
(***************************************************************************)
EXTENDS AsyncDb

CONSTANT Net    \* a thread that reads sockets

TwoThreads == {Main, World}
ThreeThreads == {Main, World, Net}
=============================================================================
