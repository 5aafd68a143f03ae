---------------------------- MODULE MCMuxSession ----------------------------
(* Small instances of MuxSession.                                          *)
EXTENDS MuxSession
=============================================================================
