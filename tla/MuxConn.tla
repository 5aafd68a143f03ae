------------------------------ MODULE MuxConn ------------------------------
(***************************************************************************)
(* One multiplexed TCP-like connection of usbmuxd/src/device.c, from       *)
(* device_start_connect to connection_teardown, with both of its ends: the *)
(* client socket (through client_read, client_write, client_notify_connect *)
(* and client_close of client.c) and the TCP stack of the device behind    *)
(* the USB cable, which is not part of the repository and is modelled from *)
(* what device.c relies on.                                                *)
(*                                                                         *)
(* The main loop is single threaded, so one action is one whole handler.   *)
(* Payload bytes are counted, not stored: the streams are told apart by    *)
(* the offsets `sent', `got' and `acked' (host), dev.nxt, dev.rcv and      *)
(* dev.una (device), which have no width. The counters of the code and the *)
(* fields seq and ack of a segment are these offsets plus one (for the     *)
(* SYN), modulo 2^32; pos and apos of a segment record the offsets that    *)
(* its seq and ack stand for, and no host action reads them.               *)
(***************************************************************************)
EXTENDS Integers, Sequences, FiniteSets

CONSTANTS
  SeqMod,      \* 2^32: the counters are uint32_t
  WinUnit,     \* 256: th_win carries a window divided by 2^8
  RecvWin,     \* 131072: conn->tx_win, the window advertised to the device
  InCap,       \* CONN_INBUF_SIZE: capacity of ib_buf
  OutCap,      \* CONN_OUTBUF_SIZE: capacity of ob_buf
  MaxPayload,  \* USB_MTU minus the two headers: conn->max_payload
  DevBuf,      \* receive buffer of the device's TCP stack
  DevSeg,      \* largest payload the device puts in a segment
  WireCap,     \* bound: segments in flight in each direction
  UpBytes,     \* bound: bytes the client sends
  DownBytes    \* bound: bytes the device sends

ASSUME ConnAssumption ==
  /\ {SeqMod, WinUnit, RecvWin, InCap, OutCap, MaxPayload, DevBuf, DevSeg, WireCap}
       \subseteq Nat \ {0}
  /\ {UpBytes, DownBytes} \subseteq Nat
  /\ RecvWin % WinUnit = 0
  /\ RecvWin <= InCap
  /\ RecvWin < SeqMod
  /\ DevBuf < SeqMod

VARIABLES
  conn,    \* struct mux_connection
  cstate,  \* state of the client at the other end
  toDev,   \* segments submitted to USB and not yet seen by the device
  toHost,  \* segments of the device not yet handled by device_tcp_input
  dev,     \* the TCP endpoint on the device
  sent,    \* bytes of the client's stream handed to USB
  got,     \* bytes of the device's stream accepted by the client's socket
  acked    \* bytes of the client's stream that conn.rx_ack acknowledges

vars == <<conn, cstate, toDev, toHost, dev, sent, got, acked>>

Flags == {"SYN", "SYNACK", "ACK", "RST", "FIN"}

Segment == [flags : Flags, seq : 0..(SeqMod - 1), ack : 0..(SeqMod - 1),
            win : Nat, len : Nat, pos : Nat, apos : Nat]

ConnStates == {"NONE", "CONNECTING", "CONNECTED"}

Connection ==
  [state : ConnStates, tx_seq : 0..(SeqMod - 1), tx_ack : 0..(SeqMod - 1),
   tx_acked : 0..(SeqMod - 1), rx_ack : 0..(SeqMod - 1), rx_win : Nat,
   rx_recvd : 0..(SeqMod - 1), ib_size : Nat, sendable : Nat,
   events : SUBSET {"POLLIN", "POLLOUT"}, ack_pending : BOOLEAN]

\* The zeroed structure; with state NONE it stands for "no such connection".
Zeroed ==
  [state |-> "NONE", tx_seq |-> 0, tx_ack |-> 0, tx_acked |-> 0, rx_ack |-> 0,
   rx_win |-> 0, rx_recvd |-> 0, ib_size |-> 0, sendable |-> 0,
   events |-> {}, ack_pending |-> FALSE]

ClientStates == {"COMMAND", "CONNECTING1", "CONNECTING2", "CONNECTED", "CLOSED"}

\* nxt, rcv: stream offsets next to send and to receive; una: offset the host
\* acknowledged; win: window in its last segment; buf: bytes received and not
\* yet read by the service; adv: the ack and window last advertised.
Device ==
  [state : {"LISTEN", "SYNRCVD", "OPEN", "CLOSED", "GONE"}, nxt : Nat, rcv : Nat, una : Nat,
   win : Nat, buf : Nat, adv : Nat \X Nat]

Init ==
  /\ conn = Zeroed
  /\ cstate = "COMMAND"
  /\ toDev = <<>>
  /\ toHost = <<>>
  /\ dev = [state |-> "LISTEN", nxt |-> 0, rcv |-> 0, una |-> 0, win |-> 0,
            buf |-> 0, adv |-> <<0, 0>>]
  /\ sent = 0
  /\ got = 0
  /\ acked = 0

-----------------------------------------------------------------------------
(* Helpers of device.c on a connection c.                                    *)

\* Mutant: th_ack covers everything in ib_buf, not only what the client took.
TcpSegmentEager(c, g, flags, len) ==
  [flags |-> flags, seq |-> c.tx_seq, ack |-> (c.tx_ack + c.ib_size) % SeqMod,
   win |-> RecvWin \div WinUnit, len |-> len, pos |-> sent, apos |-> g + c.ib_size]

\* The segment send_tcp builds when the client's socket has accepted g bytes.
TcpSegment(c, g, flags, len) ==
  [flags |-> flags, seq |-> c.tx_seq, ack |-> c.tx_ack,
   win |-> RecvWin \div WinUnit, len |-> len, pos |-> sent, apos |-> g]

\* What a successful send_tcp does to the connection.
SendTcpDone(c) == [c EXCEPT !.tx_acked = c.tx_ack, !.ack_pending = FALSE]

Smallest(a, b) == IF a <= b THEN a ELSE b

\* Mutant: bytes in flight are not deducted from the window.
SendableWholeWindow(c) == Smallest(Smallest(c.rx_win, OutCap), MaxPayload)

Sendable(c) ==
  LET inFlight == (c.tx_seq - c.rx_ack) % SeqMod
      room == IF c.rx_win > inFlight THEN c.rx_win - inFlight ELSE 0
  IN  Smallest(Smallest(room, OutCap), MaxPayload)

\* Mutant: CONN_ACK_PENDING is never raised, so no timer runs.
update_connectionNoTimer(c) ==
  [c EXCEPT !.sendable = Sendable(c),
            !.events = {e \in {"POLLIN", "POLLOUT"} :
                          \/ e = "POLLIN" /\ Sendable(c) > 0
                          \/ e = "POLLOUT" /\ c.ib_size > 0},
            !.ack_pending = FALSE]

update_connection(c) ==
  [c EXCEPT !.sendable = Sendable(c),
            !.events = {e \in {"POLLIN", "POLLOUT"} :
                          \/ e = "POLLIN" /\ Sendable(c) > 0
                          \/ e = "POLLOUT" /\ c.ib_size > 0},
            !.ack_pending = c.tx_acked # c.tx_ack]

\* What connection_teardown does at the client's side, when the client's socket
\* has accepted g bytes so far. A client that waits for the outcome of its
\* connect is told CONNREFUSED, unless it is the one that went away. Otherwise
\* the client is closed after ib_buf was offered to it: only a client that is
\* CONNECTED can be written to, and its socket may take a part.
TeardownClient(c, g, clientGone) ==
  /\ conn' = Zeroed
  /\ \/ /\ c.state \in {"REFUSED", "CONNECTING"}
        /\ cstate' = IF clientGone THEN "CLOSED" ELSE "COMMAND"
        /\ got' = g
     \/ /\ c.state \notin {"REFUSED", "CONNECTING"}
        /\ cstate' = "CLOSED"
        /\ got' \in IF "POLLOUT" \in c.events /\ cstate = "CONNECTED" /\ ~clientGone
                      THEN g .. (g + c.ib_size) ELSE {g}

\* The device is told with an RST, if that can be sent, unless it closed the
\* connection itself (the transient states DYING and REFUSED).
connection_teardown(c, g, clientGone) ==
  /\ \/ toDev' = toDev
     \/ /\ c.state \notin {"DYING", "REFUSED"}
        /\ toDev' = Append(toDev, TcpSegment(c, g, "RST", 0))
  /\ TeardownClient(c, g, clientGone)

-----------------------------------------------------------------------------
(* Operations of the connection.                                             *)

\* The second disjunct is a failed send_tcp: the client gets CONNREFUSED.
device_start_connect ==
  /\ cstate = "COMMAND"
  /\ conn.state = "NONE"
  /\ dev.state = "LISTEN"
  /\ toDev = <<>>
  /\ \/ /\ toDev' = Append(toDev, TcpSegment(Zeroed, got, "SYN", 0))
        /\ conn' = [Zeroed EXCEPT !.state = "CONNECTING"]
        /\ cstate' = "CONNECTING1"
     \/ UNCHANGED <<toDev, conn, cstate>>
  /\ UNCHANGED <<toHost, dev, sent, got, acked>>

send_tcp_ack(c) ==
  \/ /\ toDev' = Append(toDev, TcpSegment(c, got, "ACK", 0))
     /\ conn' = update_connection(SendTcpDone(c))
     /\ UNCHANGED <<cstate, got>>
  \/ connection_teardown(c, got, FALSE)

\* Mutant: the SYN is not counted in tx_seq.
HandshakenNoSyn(c, th) == [c EXCEPT !.tx_ack = (@ + 1) % SeqMod, !.rx_recvd = th.seq]

\* The SYN is acknowledged: both counters move past it.
Handshaken(c, th) ==
  [c EXCEPT !.tx_seq = (@ + 1) % SeqMod, !.tx_ack = (@ + 1) % SeqMod, !.rx_recvd = th.seq]

\* len bytes of payload are appended to ib_buf.
Received(c, len) ==
  [c EXCEPT !.ib_size = @ + len, !.rx_recvd = (@ + len) % SeqMod]

\* connection_device_input and the acknowledgement that follows it. After an
\* overflow the code would acknowledge from a structure it has just freed; the
\* invariant InputNeverOverflows shows that this branch is never entered.
connection_device_input(c, len) ==
  \/ /\ c.ib_size + len > InCap
     /\ connection_teardown(c, got, FALSE)
  \/ /\ c.ib_size + len <= InCap
     /\ \E d \in {update_connection(Received(c, len))} : send_tcp_ack(d)

\* A segment for a connection that waits for its SYN+ACK.
InputConnecting(c, th) ==
  \/ /\ th.flags = "RST"
     /\ connection_teardown([c EXCEPT !.state = "REFUSED"], got, FALSE)
  \/ /\ th.flags \notin {"RST", "SYNACK"}
     /\ connection_teardown(c, got, FALSE)
  \/ /\ th.flags = "SYNACK"
     /\ toDev' = Append(toDev, TcpSegment(Handshaken(c, th), got, "ACK", 0))
     /\ conn' = update_connection([SendTcpDone(Handshaken(c, th)) EXCEPT !.state = "CONNECTED"])
     /\ cstate' = "CONNECTING2"         \* client_notify_connect(RESULT_OK)
     /\ got' = got
  \/ /\ th.flags = "SYNACK"             \* the ACK could not be sent
     /\ connection_teardown(Handshaken(c, th), got, FALSE)

InputConnected(c, th) ==
  \/ /\ th.flags = "RST"
     /\ connection_teardown([c EXCEPT !.state = "DYING"], got, FALSE)
  \/ /\ th.flags \notin {"RST", "ACK"}
     /\ connection_teardown(c, got, FALSE)
  \/ /\ th.flags = "ACK"
     /\ connection_device_input(c, th.len)

\* A segment for a connection that is gone is answered with an anonymous RST,
\* if it is not an RST itself. When that cannot be sent the program ends: the
\* log message reads through the connection that was not found.
InputUnknown(th) ==
  /\ \/ th.flags = "RST" /\ toDev' = toDev
     \/ /\ th.flags # "RST"
        /\ toDev' = Append(toDev, [flags |-> "RST", seq |-> 0, ack |-> th.seq,
                                   win |-> 0, len |-> 0, pos |-> sent, apos |-> got])
  /\ UNCHANGED <<conn, cstate, got>>

\* What every segment tells about the device's window.
Learned(c, th) == [c EXCEPT !.rx_ack = th.ack, !.rx_win = th.win * WinUnit]

device_tcp_input ==
  /\ toHost # <<>>
  /\ Len(toDev) < WireCap
  /\ LET th == Head(toHost)
     IN  \/ conn.state = "CONNECTING" /\ InputConnecting(Learned(conn, th), th)
         \/ conn.state = "CONNECTED" /\ InputConnected(Learned(conn, th), th)
         \/ conn.state = "NONE" /\ InputUnknown(th)
  /\ acked' = IF conn.state = "NONE" THEN acked ELSE Head(toHost).apos
  /\ toHost' = Tail(toHost)
  /\ UNCHANGED <<dev, sent>>

\* n bytes of the client's stream were sent.
Sent(c, n) == [c EXCEPT !.tx_seq = (@ + n) % SeqMod]

\* Mutant: tx_ack is not advanced over what the client took.
WrittenUnacked(c, w) == [c EXCEPT !.ib_size = @ - w]

\* w bytes of ib_buf were accepted by the client's socket.
Written(c, w) == [c EXCEPT !.ib_size = @ - w, !.tx_ack = (@ + w) % SeqMod]

\* The POLLIN half of device_client_process: n bytes were read from the client
\* (0: end of file, or client_read failed) and are sent to the device.
ForwardToDevice(c, g, n) ==
  \/ /\ n > 0
     /\ toDev' = Append(toDev, TcpSegment(c, g, "ACK", n))
     /\ conn' = update_connection(Sent(SendTcpDone(c), n))
     /\ sent' = sent + n
     /\ cstate' = cstate
     /\ got' = g
  \/ /\ connection_teardown(c, g, FALSE)
     /\ sent' = sent

\* POLLOUT writes w bytes of ib_buf to the client and advances tx_ack over
\* them; POLLIN then reads at most the conn->sendable bytes that the last
\* update_connection allowed.
device_client_process ==
  /\ conn.state = "CONNECTED"
  /\ Len(toDev) < WireCap
  /\ cstate = "CONNECTED"
  /\ \E ev \in SUBSET conn.events \ {{}} :
       \/ /\ "POLLOUT" \in ev               \* client_write failed
          /\ connection_teardown(conn, got, FALSE)
          /\ sent' = sent
       \/ \E w \in IF "POLLOUT" \in ev THEN 1..conn.ib_size ELSE {0} :
            \/ /\ "POLLIN" \in ev
               /\ \E n \in 0..Smallest(conn.sendable, UpBytes - sent) :
                    ForwardToDevice(Written(conn, w), got + w, n)
            \/ /\ "POLLIN" \notin ev
               /\ conn' = update_connection(Written(conn, w))
               /\ got' = got + w
               /\ UNCHANGED <<toDev, cstate, sent>>
  /\ UNCHANGED <<toHost, dev, acked>>

\* ppoll returned 0, so neither the USB descriptors nor the client's socket had
\* input, and the oldest unsent acknowledgement is older than ACK_TIMEOUT.
device_check_timeouts ==
  /\ conn.state = "CONNECTED"
  /\ conn.ack_pending
  /\ toHost = <<>>
  /\ Len(toDev) < WireCap
  /\ ~("POLLIN" \in conn.events /\ cstate = "CONNECTED" /\ sent < UpBytes)
  /\ send_tcp_ack(conn)
  /\ UNCHANGED <<toHost, dev, sent, acked>>

\* The client went away before it was told the outcome of its connect.
device_abort_connect ==
  /\ conn.state # "NONE"
  /\ cstate \in {"CONNECTING1", "CONNECTING2"}
  /\ connection_teardown(conn, got, TRUE)
  /\ UNCHANGED <<toHost, dev, sent, acked>>

\* process_send wrote out the RESULT_OK message: the socket now carries data.
process_send ==
  /\ cstate = "CONNECTING2"
  /\ cstate' = "CONNECTED"
  /\ UNCHANGED <<conn, toDev, toHost, dev, sent, got, acked>>

\* The cable was pulled: MUXDEV_DEAD is set before the connections are torn
\* down, so no RST is sent.
device_remove ==
  /\ dev.state # "GONE"
  /\ dev' = [dev EXCEPT !.state = "GONE"]
  /\ toDev' = <<>>
  /\ toHost' = <<>>
  /\ UNCHANGED <<sent, acked>>
  /\ \/ conn.state = "NONE" /\ UNCHANGED <<conn, cstate, got>>
     \/ conn.state # "NONE" /\ TeardownClient(conn, got, FALSE)

\* The daemon shuts down.
device_kill_connections ==
  /\ conn.state # "NONE"
  /\ connection_teardown(conn, got, FALSE)
  /\ UNCHANGED <<toHost, dev, sent, acked>>

-----------------------------------------------------------------------------
(* The device's TCP endpoint (external): it keeps within the window it was   *)
(* given, acknowledges what it received and never withdraws buffer space.    *)

DevWin(buf) == (DevBuf - buf) \div WinUnit

DevSegment(d, flags, len) ==
  [flags |-> flags, seq |-> (1 + d.nxt) % SeqMod, ack |-> (1 + d.rcv) % SeqMod,
   win |-> DevWin(d.buf), len |-> len, pos |-> d.nxt, apos |-> d.rcv]

Advertised(d) == [d EXCEPT !.adv = <<d.rcv, DevWin(d.buf)>>]

DevAccept ==
  /\ toDev # <<>>
  /\ dev.state = "LISTEN"
  /\ Head(toDev).flags = "SYN"
  /\ \/ /\ dev' = Advertised([dev EXCEPT !.state = "SYNRCVD",
                                         !.win = Head(toDev).win * WinUnit])
        /\ toHost' = Append(toHost, [DevSegment(dev, "SYNACK", 0) EXCEPT !.seq = 0])
     \/ /\ dev' = [dev EXCEPT !.state = "CLOSED"]
        /\ toHost' = Append(toHost, DevSegment(dev, "RST", 0))
  /\ toDev' = Tail(toDev)
  /\ UNCHANGED <<conn, cstate, sent, got, acked>>

DevReceive ==
  /\ toDev # <<>>
  /\ Head(toDev).flags # "SYN"
  /\ LET th == Head(toDev)
     IN  \/ /\ dev.state \in {"SYNRCVD", "OPEN"}
            /\ th.flags = "ACK"
            /\ dev' = [dev EXCEPT !.state = "OPEN",
                                  !.rcv = @ + th.len,
                                  !.buf = @ + th.len,
                                  !.una = @ + ((th.ack - (1 + @)) % SeqMod),
                                  !.win = th.win * WinUnit]
         \/ /\ th.flags = "RST"
            /\ dev' = [dev EXCEPT !.state = "CLOSED"]
         \/ /\ dev.state = "CLOSED"
            /\ th.flags = "ACK"
            /\ dev' = dev
  /\ toDev' = Tail(toDev)
  /\ UNCHANGED <<conn, cstate, toHost, sent, got, acked>>

DevSend ==
  /\ dev.state = "OPEN"
  /\ Len(toHost) < WireCap
  /\ \E n \in 1..DevSeg :
       /\ dev.nxt + n <= dev.una + dev.win
       /\ dev.nxt + n <= DownBytes
       /\ toHost' = Append(toHost, DevSegment(dev, "ACK", n))
       /\ dev' = Advertised([dev EXCEPT !.nxt = @ + n])
  /\ UNCHANGED <<conn, cstate, toDev, sent, got, acked>>

\* The service on the device reads from its socket.
DevRead ==
  /\ dev.state = "OPEN"
  /\ \E n \in 1..dev.buf : dev' = [dev EXCEPT !.buf = @ - n]
  /\ UNCHANGED <<conn, cstate, toDev, toHost, sent, got, acked>>

DevAck ==
  /\ dev.state = "OPEN"
  /\ Len(toHost) < WireCap
  /\ dev.adv # <<dev.rcv, DevWin(dev.buf)>>
  /\ toHost' = Append(toHost, DevSegment(dev, "ACK", 0))
  /\ dev' = Advertised(dev)
  /\ UNCHANGED <<conn, cstate, toDev, sent, got, acked>>

DevClose ==
  /\ dev.state = "OPEN"
  /\ Len(toHost) < WireCap
  /\ \E f \in {"RST", "FIN"} : toHost' = Append(toHost, DevSegment(dev, f, 0))
  /\ dev' = [dev EXCEPT !.state = "CLOSED"]
  /\ UNCHANGED <<conn, cstate, toDev, sent, got, acked>>

-----------------------------------------------------------------------------

Next ==
  \/ device_start_connect
  \/ device_tcp_input
  \/ device_client_process
  \/ device_check_timeouts
  \/ process_send
  \/ device_abort_connect
  \/ device_remove
  \/ device_kill_connections
  \/ DevAccept
  \/ DevReceive
  \/ DevSend
  \/ DevRead
  \/ DevAck
  \/ DevClose

Spec == Init /\ [][Next]_vars

\* A ready socket is served without an error or an end of file.
ServeClient == device_client_process /\ conn'.state = "CONNECTED"

\* The main loop keeps serving ready descriptors and expired timers; the
\* client keeps taking data and producing its own, and the device keeps
\* reading, acknowledging and sending. Nothing makes the client or the device
\* close, or the cable come out.
Fairness ==
  /\ WF_vars(device_tcp_input)
  /\ WF_vars(ServeClient)
  /\ WF_vars(device_check_timeouts)
  /\ WF_vars(process_send)
  /\ WF_vars(DevAccept)
  /\ WF_vars(DevReceive)
  /\ WF_vars(DevSend)
  /\ WF_vars(DevRead)
  /\ WF_vars(DevAck)

FairSpec == Spec /\ Fairness

-----------------------------------------------------------------------------

TypeOK ==
  /\ conn \in Connection
  /\ cstate \in ClientStates
  /\ toDev \in Seq(Segment)
  /\ toHost \in Seq(Segment)
  /\ dev \in Device
  /\ {sent, got, acked} \subseteq Nat

\* The device stays within the window that send_tcp advertises, so the payload
\* of the next segment always fits in ib_buf: the overflow branch of
\* connection_device_input (and the use of the freed connection after it) is
\* never taken.
InputNeverOverflows ==
  (conn.state = "CONNECTED" /\ toHost # <<>>) => conn.ib_size + Head(toHost).len <= InCap

\* The host never sends past the right edge of the device's window: whatever is
\* on its way fits in the device's receive buffer when it arrives.
DeviceNeverOverrun ==
  (dev.state = "OPEN" /\ toDev # <<>>) => dev.buf + Head(toDev).len <= DevBuf

\* Every byte the device may forget (acknowledged to it by th_ack) has been
\* accepted by the client's socket, never merely put in ib_buf.
AckOnlyDelivered == dev.una <= got

\* Across wrap-around of the 32-bit counters, no byte of the device's stream is
\* lost, repeated or counted twice: what arrived is what the client got plus
\* what ib_buf holds, and tx_ack stands exactly before ib_buf.
StreamAccounted ==
  conn.state = "CONNECTED" =>
    /\ conn.tx_ack = (1 + got) % SeqMod
    /\ conn.rx_recvd = (got + conn.ib_size) % SeqMod
    /\ got + conn.ib_size = IF toHost = <<>> THEN dev.nxt ELSE Head(toHost).pos

\* The device sees the client's stream in order and without gaps: the next
\* segment carries the sequence number it expects.
SegmentsInSequence ==
  (dev.state = "OPEN" /\ toDev # <<>> /\ Head(toDev).flags = "ACK") =>
    /\ Head(toDev).seq = (1 + dev.rcv) % SeqMod
    /\ Head(toDev).pos = dev.rcv

\* Between two handlers the poll mask and the timer flag are the ones the
\* counters call for; a mask computed before the last change would leave a
\* buffer unserved or an acknowledgement unsent for ever.
MaskCurrent ==
  conn.state = "CONNECTED" =>
    /\ "POLLOUT" \in conn.events <=> conn.ib_size > 0
    /\ "POLLIN" \in conn.events <=> (conn.tx_seq - conn.rx_ack) % SeqMod < conn.rx_win
    /\ conn.ack_pending <=> conn.tx_acked # conn.tx_ack

\* Neither direction stalls: an open connection delivers everything both ends
\* send, or it is closed. In particular a closed window is always reopened,
\* by the acknowledgement that the expired timer sends.
Delivered ==
  (conn.state = "CONNECTED") ~>
    \/ conn.state = "NONE"
    \/ dev.state \in {"CLOSED", "GONE"}
    \/ got = DownBytes /\ dev.rcv = UpBytes

-----------------------------------------------------------------------------
(* The inductive invariant behind the theorems of MuxConnProofs.             *)

\* The offset up to which the device has room for the client's stream. It
\* never decreases, whatever windows the device advertised below it.
DevEdge == dev.rcv + DevBuf - dev.buf

\* The device before, during and after the handshake.
HandshakeInv ==
  /\ dev.state = "LISTEN" =>
       dev.nxt = 0 /\ dev.rcv = 0 /\ dev.una = 0 /\ dev.buf = 0 /\ toHost = <<>>
  /\ dev.state \in {"SYNRCVD", "OPEN"} => dev.win = RecvWin
  /\ \A i \in DOMAIN toDev : toDev[i].flags = "SYN" => i = 1 /\ dev.state = "LISTEN"
  /\ conn.state = "CONNECTING" =>
       /\ dev.state \in {"LISTEN", "SYNRCVD", "CLOSED"}
       /\ \A i \in DOMAIN toDev : toDev[i].flags # "ACK"
       /\ dev.nxt = 0 /\ sent = 0 /\ conn.ib_size = 0
       /\ conn.tx_seq = 0 /\ conn.tx_ack = 0
  /\ conn.state = "CONNECTED" => dev.state \in {"SYNRCVD", "OPEN", "CLOSED"}

\* The stored mask, flag and sendable are those of the current counters.
UpdatedInv == conn.state = "CONNECTED" => conn = update_connection(conn)

\* The segments q from the device carry its stream from offset `base' on, one
\* after the other, and acknowledgements and windows that grow from offset a
\* on and do not reach past the device's edge.
InFlight(q, base, a) ==
  /\ IF q = <<>> THEN base = dev.nxt ELSE q[1].pos = base
  /\ \A i \in DOMAIN q :
       /\ q[i].pos + q[i].len <= dev.nxt
       /\ q[i].pos + q[i].len = IF i = Len(q) THEN dev.nxt ELSE q[i + 1].pos
       /\ q[i].flags = "SYNACK" => q[i].seq = 0
       /\ q[i].ack = (1 + q[i].apos) % SeqMod
       /\ a <= q[i].apos
       /\ q[i].apos <= dev.rcv
       /\ q[i].apos + q[i].win * WinUnit <= DevEdge
       /\ q[i].win * WinUnit <= DevBuf
  /\ \A i \in DOMAIN q : \A j \in DOMAIN q : i <= j => q[i].apos <= q[j].apos

\* The device's stream: what the device sent is what the client got, what
\* ib_buf holds and the segments in flight, one after the other, all within
\* RecvWin of what the device knows to be acknowledged.
DownInv ==
  /\ dev.una <= got
  /\ got <= dev.nxt
  /\ dev.nxt <= dev.una + RecvWin
  /\ conn.state # "NONE" =>
       /\ got + conn.ib_size <= dev.nxt
       /\ InFlight(toHost, got + conn.ib_size, acked)
  /\ conn.state = "CONNECTED" =>
       /\ conn.tx_ack = (1 + got) % SeqMod
       /\ conn.rx_recvd = (got + conn.ib_size) % SeqMod

\* Acknowledgements on their way to the device grow and cover only bytes that
\* the client's socket accepted.
AckInv ==
  /\ \A i \in DOMAIN toDev :
       toDev[i].flags = "ACK" =>
         /\ toDev[i].ack = (1 + toDev[i].apos) % SeqMod
         /\ dev.una <= toDev[i].apos
         /\ toDev[i].apos <= got
  /\ \A i \in DOMAIN toDev : \A j \in DOMAIN toDev :
       (i <= j /\ toDev[i].flags = "ACK" /\ toDev[j].flags = "ACK") =>
         toDev[i].apos <= toDev[j].apos
  /\ \A i \in DOMAIN toDev :
       toDev[i].flags # "RST" => toDev[i].win = RecvWin \div WinUnit

\* The client's stream: the segments in flight follow one another from
\* dev.rcv to sent, and sent stays below the device's edge.
UpInv ==
  /\ dev.buf <= DevBuf
  /\ dev.rcv <= sent
  /\ sent <= DevEdge
  /\ dev.state \in {"LISTEN", "SYNRCVD", "OPEN"} =>
       /\ IF toDev = <<>> THEN dev.rcv = sent ELSE toDev[1].pos = dev.rcv
       /\ \A i \in DOMAIN toDev :
            /\ toDev[i].pos + toDev[i].len <= sent
            /\ toDev[i].pos + toDev[i].len =
                 IF i = Len(toDev) THEN sent ELSE toDev[i + 1].pos
            /\ toDev[i].flags = "ACK" => toDev[i].seq = (1 + toDev[i].pos) % SeqMod
            /\ toDev[i].flags # "ACK" => toDev[i].len = 0

\* What the host knows of the device's window does not reach past the device's
\* edge.
WindowInv ==
  /\ acked <= dev.rcv
  /\ conn.state = "CONNECTED" =>
       /\ conn.tx_seq = (1 + sent) % SeqMod
       /\ conn.rx_ack = (1 + acked) % SeqMod
       /\ acked + conn.rx_win <= DevEdge
       /\ conn.rx_win <= DevBuf
       /\ sent <= acked + DevBuf

IndInv ==
  /\ TypeOK
  /\ HandshakeInv
  /\ UpdatedInv
  /\ DownInv
  /\ AckInv
  /\ UpInv
  /\ WindowInv

-----------------------------------------------------------------------------
(* What the connection promises to the client and to the service.            *)

HostSide ==
  CASE conn.state = "CONNECTED" -> "open"
    [] conn.state # "CONNECTED" /\ cstate = "CLOSED" -> "ended"
    [] conn.state # "CONNECTED" /\ cstate # "CLOSED" -> "idle"

DeviceSide ==
  CASE dev.state \in {"LISTEN", "SYNRCVD"} -> "idle"
    [] dev.state = "OPEN" -> "open"
    [] dev.state \in {"CLOSED", "GONE"} -> "ended"

\* The bytes of the device's stream that reached the client or ib_buf.
Arrived == IF conn.state = "CONNECTED" THEN got + conn.ib_size ELSE got

Streams ==
  INSTANCE StreamPair
    WITH UpRoom <- DevBuf, DownRoom <- RecvWin, host <- HostSide, device <- DeviceSide,
         upWritten <- sent, upArrived <- dev.rcv, upRead <- dev.rcv - dev.buf,
         downWritten <- dev.nxt, downArrived <- Arrived, downRead <- got

\* A connection is a pair of bounded byte streams: nothing is delivered that was not
\* sent, nothing is taken back, no more is under way than the other side has room
\* for, the device does not send before the host has told the client, and an end
\* that was torn down stays as it is, whatever handler tore it down.
StreamsImplemented == Streams!Spec

\* The client and its connection agree, and the device opens only after the
\* client was told.
SidesInv ==
  /\ conn.state = "CONNECTED" => cstate \in {"CONNECTING2", "CONNECTED"}
  /\ conn.state = "CONNECTING" => cstate = "CONNECTING1"
  /\ conn.state = "NONE" => cstate \in {"COMMAND", "CLOSED"}
  /\ HostSide = "idle" =>
       dev.state # "OPEN" /\ \A i \in DOMAIN toDev : toDev[i].flags # "ACK"
=============================================================================
