---------------------------- MODULE MCMuxEvents ----------------------------
(* Small instances of MuxEvents.                                           *)
EXTENDS MuxEvents
=============================================================================
