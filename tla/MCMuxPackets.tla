---------------------------- MODULE MCMuxPackets ----------------------------
(* A small instance of MuxPackets: full transfers have two bytes and pktbuf *)
(* holds four.                                                              *)
EXTENDS MuxPackets

P(proto, port, size) == [proto |-> proto, sport |-> port, size |-> size]

SomePackets ==
  {P("VERSION", 0, 3), P("BADVERSION", 0, 1), P("TCP", 1, 1), P("TCP", 2, 2),
   P("RST", 3, 4), P("SHORT", 0, 4), P("CONTROL", 0, 5), P("CONTROL", 0, 6),
   P("CONTROL", 0, 8)}
=============================================================================
