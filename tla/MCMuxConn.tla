----------------------------- MODULE MCMuxConn -----------------------------
(* Small instances of MuxConn.                                             *)
EXTENDS MuxConn
=============================================================================
