----------------------------- MODULE MuxSession -----------------------------
(***************************************************************************)
(* The clients of usbmuxd (client.c), their connections (device.c) and the *)
(* main loop that serves them (main.c): which state a client and its       *)
(* connection are in, what is polled, which commands are answered, and in  *)
(* which order the two structures are freed when one of them goes away.    *)
(* The bytes of a connection are the subject of MuxConn; here a segment of *)
(* the device only chooses the poll mask that update_connection computes.  *)
(*                                                                         *)
(* An operator that takes s works on the bundle of one client: cl is the   *)
(* struct mux_client, cn the struct mux_connection that points to it, ans  *)
(* the tags of the results queued for it, fault the first memory or lock   *)
(* error met. What the program does after such an error is undefined: no   *)
(* further step is modelled.                                               *)
(***************************************************************************)
EXTENDS Integers, Sequences, FiniteSets

CONSTANTS
  Clients,      \* the sockets that may connect to the daemon
  Devices,      \* the devices that may be plugged in, once each
  MaxCommands   \* bound: answered commands that a client sends

\* Stands for "no device".
NoDevice == "none"

ASSUME SessionAssumption ==
  /\ MaxCommands \in Nat
  /\ IsFiniteSet(Devices)
  /\ Devices \cap {NoDevice, "Other", "Garbage", "Listen"} = {}

VARIABLES
  client,   \* client_list: struct mux_client for every client
  conn,     \* the connection whose conn->client is the client
  device,   \* device_list
  phase,    \* where main_loop is in its iteration
  revents,  \* what ppoll reported and is not yet dispatched
  asked,    \* number of commands a client sent that call for an answer
  answers,  \* tags of the results queued for a client, in order
  fault     \* the first memory or lock error, or "none"

vars == <<client, conn, device, phase, revents, asked, answers, fault>>

Poll == {"POLLIN", "POLLOUT"}

Faults == {"none", "freed twice", "used after close", "no input buffer", "locked twice"}

\* NEW: not accepted yet; CLOSED: freed. The others are enum client_state
\* without CLIENT_DEAD, which no client is left in.
ClientStates ==
  {"NEW", "COMMAND", "LISTEN", "CONNECTING1", "CONNECTING2", "CONNECTED", "CLOSED"}

Connecting == {"CONNECTING1", "CONNECTING2"}

\* ib: 1 when a header was read and its body is awaited; ob: messages in ob_buf.
Client ==
  [state : ClientStates, events : SUBSET Poll, devents : SUBSET Poll,
   ib : 0..1, ob : Nat, connect_tag : Nat]

Blank(state) ==
  [state |-> state, events |-> {}, devents |-> {}, ib |-> 0, ob |-> 0, connect_tag |-> 0]

\* CONN_REFUSED, CONN_DYING and CONN_DEAD do not outlast connection_teardown.
Connection ==
  [state : {"NONE", "CONNECTING", "CONNECTED"}, dev : Devices \cup {NoDevice},
   events : SUBSET Poll]

NoConn == [state |-> "NONE", dev |-> NoDevice, events |-> {}]

Init ==
  /\ client = [c \in Clients |-> Blank("NEW")]
  /\ conn = [c \in Clients |-> NoConn]
  /\ device = [d \in Devices |-> "NEW"]
  /\ phase = "poll"
  /\ revents = [c \in Clients |-> {}]
  /\ asked = [c \in Clients |-> 0]
  /\ answers = [c \in Clients |-> <<>>]
  /\ fault = "none"

Bundle(c) == [cl |-> client[c], cn |-> conn[c], ans |-> answers[c], fault |-> fault]

Apply(c, s) ==
  /\ client' = [client EXCEPT ![c] = s.cl]
  /\ conn' = [conn EXCEPT ![c] = s.cn]
  /\ answers' = [answers EXCEPT ![c] = s.ans]
  /\ fault' = s.fault

-----------------------------------------------------------------------------
(* Queueing messages and freeing clients and connections.                    *)

\* n messages are appended to ob_buf of the client cl.
Queued(cl, n) ==
  IF n = 0 THEN cl ELSE [cl EXCEPT !.ob = @ + n, !.events = @ \cup {"POLLOUT"}]

send_pkt(s, n) == [s EXCEPT !.cl = Queued(@, n)]

send_result(s, tag) == [s EXCEPT !.cl = Queued(@, 1), !.ans = Append(@, tag)]

\* Mutant: a refused connect is not reported.
client_notify_connectSilent(s, ok) ==
  IF s.cl.state # "CONNECTING1" THEN s
  ELSE IF ok THEN [send_result(s, s.cl.connect_tag) EXCEPT !.cl.state = "CONNECTING2",
                                                           !.cl.events = {"POLLOUT"}]
       ELSE [s EXCEPT !.cl.state = "COMMAND"]

\* The result of a connect, unless the client does not wait for it any more.
client_notify_connect(s, ok) ==
  IF s.cl.state # "CONNECTING1" THEN s
  ELSE LET r == send_result(s, s.cl.connect_tag)
       IN  IF ok THEN [r EXCEPT !.cl.state = "CONNECTING2", !.cl.events = {"POLLOUT"}]
           ELSE [r EXCEPT !.cl.state = "COMMAND"]

\* The end of client_close: the socket is closed and the structure freed.
Free(s) ==
  [s EXCEPT !.cl = Blank("CLOSED"),
            !.fault = IF s.cl.state = "CLOSED" THEN "freed twice" ELSE @]

\* Mutant: a connection that is still being set up is left alone.
device_abort_connectForgets(s, locked) ==
  CASE locked -> [s EXCEPT !.fault = "locked twice"]
    [] ~locked /\ s.cn.state # "CONNECTED" -> s
    [] ~locked /\ s.cn.state = "CONNECTED" -> [Free(s) EXCEPT !.cn = NoConn]

\* Called by client_close with the client DEAD. get_mux_connection takes
\* device_list_mutex, which is not recursive. connection_teardown returns at
\* once if the connection is DEAD, notifies nobody if it is CONNECTING, and
\* otherwise calls client_close for the same client, which frees it.
device_abort_connect(s, locked) ==
  CASE locked -> [s EXCEPT !.fault = "locked twice"]
    [] ~locked /\ s.cn.state \in {"NONE", "DEAD"} -> s
    [] ~locked /\ s.cn.state = "CONNECTING" -> [s EXCEPT !.cn = NoConn]
    [] ~locked /\ s.cn.state = "CONNECTED" -> [Free(s) EXCEPT !.cn = NoConn]

\* Mutant: the connection is aborted in whatever state the client is.
client_closeAlways(s, locked) ==
  Free(device_abort_connect([s EXCEPT !.cl.state = "DEAD"], locked))

\* `locked': the caller holds device_list_mutex.
client_close(s, locked) ==
  IF s.cl.state \in Connecting
  THEN Free(device_abort_connect([s EXCEPT !.cl.state = "DEAD"], locked))
  ELSE Free(s)

\* Mutant: an established connection is also reported as refused.
connection_teardownRefused(s, locked) ==
  [send_result(s, s.cl.connect_tag) EXCEPT !.cl.state = "COMMAND", !.cn = NoConn]

connection_teardown(s, locked) ==
  IF s.cn.state = "CONNECTING"
  THEN [client_notify_connect(s, FALSE) EXCEPT !.cn = NoConn]
  ELSE [client_close([s EXCEPT !.cn.state = "DEAD"], locked) EXCEPT !.cn = NoConn]

\* Mutant: the mask is installed although the RESULT_OK is still to be sent.
client_set_eventsEager(s, m) ==
  [s EXCEPT !.cn.events = m, !.cl.devents = m, !.cl.events = m]

\* update_connection computed the mask m and client_set_events stores it.
client_set_events(s, m) ==
  [s EXCEPT !.cn.events = m,
            !.cl.devents = IF s.cl.state \in {"CONNECTING2", "CONNECTED"} THEN m ELSE @,
            !.cl.events = IF s.cl.state = "CONNECTED" THEN m ELSE @]

-----------------------------------------------------------------------------
(* Commands of a client.                                                     *)

\* Answered at once: ListDevices, ReadBUID, the pair record commands, a wrong
\* protocol version, an unknown command. Garbage: a payload that is no plist.
Messages == {"Other", "Garbage", "Listen"} \cup Devices

\* The device list is sent as one Attached message per device.
start_listen(s) ==
  send_pkt([s EXCEPT !.cl.state = "LISTEN"],
           Cardinality({d \in Devices : device[d] = "ACTIVE"}))

\* Mutant: the tag of the Connect is not kept for the answer.
StartConnectUntagged(s, tag, d) ==
  [s EXCEPT !.cn = [state |-> "CONNECTING", dev |-> d, events |-> {}],
            !.cl.state = "CONNECTING1"]

\* The connection that device_start_connect adds when the SYN could be sent.
\* Devices in state INIT are not offered to clients and left to MuxEvents.
StartConnect(s, tag, d) ==
  [s EXCEPT !.cn = [state |-> "CONNECTING", dev |-> d, events |-> {}],
            !.cl.state = "CONNECTING1",
            !.cl.connect_tag = tag]

\* The outcomes of client_command. A Connect is named by its device.
client_command(s, tag, msg) ==
  IF s.cl.state # "COMMAND" THEN {client_close(send_result(s, tag), FALSE)}
  ELSE CASE msg = "Garbage" -> {s}
         [] msg = "Other" -> {send_result(s, tag)}
         [] msg = "Listen" -> {start_listen(send_result(s, tag))}
         [] msg \in Devices ->
              {send_result(s, tag)}
                \cup (IF device[msg] = "ACTIVE" THEN {StartConnect(s, tag, msg)} ELSE {})

\* The statement after client_command in process_recv: client->ib_size = 0.
ResetInput(s) ==
  IF s.cl.state = "CLOSED"
  THEN [s EXCEPT !.fault = IF @ = "none" THEN "used after close" ELSE @]
  ELSE [s EXCEPT !.cl.ib = 0]

\* The end of file, an error, or a length out of range closes the client. A
\* header is read by one call, the body it announces by a later one, unless
\* the message has no body. A client in CONNECTING2 has no ib_buf to read into.
process_recv(c) ==
  LET s == Bundle(c)
  IN  \/ /\ s.cl.state = "CONNECTING2"
         /\ Apply(c, [s EXCEPT !.fault = "no input buffer"])
         /\ UNCHANGED asked
      \/ /\ s.cl.state # "CONNECTING2"
         /\ \/ Apply(c, client_close(s, FALSE))
            \/ s.cl.ib = 0 /\ Apply(c, [s EXCEPT !.cl.ib = 1])
         /\ UNCHANGED asked
      \/ /\ s.cl.state # "CONNECTING2"
         /\ asked[c] < MaxCommands
         /\ \E msg \in Messages :
              \E r \in client_command(s, asked[c] + 1, msg) :
                /\ Apply(c, ResetInput(r))
                /\ asked' = IF msg = "Garbage" /\ s.cl.state = "COMMAND" THEN asked
                            ELSE [asked EXCEPT ![c] = @ + 1]

\* Mutant: the mask saved in devents is not installed.
FlushedOldMask(s) ==
  [s EXCEPT !.cl.ob = 0, !.cl.events = @ \ {"POLLOUT"},
            !.cl.state = IF @ = "CONNECTING2" THEN "CONNECTED" ELSE @]

\* All of ob_buf was written.
Flushed(s) ==
  IF s.cl.state = "CONNECTING2"
  THEN [s EXCEPT !.cl.ob = 0, !.cl.state = "CONNECTED", !.cl.events = s.cl.devents]
  ELSE [s EXCEPT !.cl.ob = 0, !.cl.events = @ \ {"POLLOUT"}]

\* send may fail, write a part (n messages are left, the first perhaps in
\* part) or everything.
process_send(c) ==
  LET s == Bundle(c)
  IN  /\ \/ s.cl.ob = 0 /\ Apply(c, [s EXCEPT !.cl.events = @ \ {"POLLOUT"}])
         \/ s.cl.ob > 0 /\ Apply(c, client_close(s, FALSE))
         \/ s.cl.ob > 0 /\ Apply(c, Flushed(s))
         \/ \E n \in 1..s.cl.ob : Apply(c, [s EXCEPT !.cl.ob = n])
      /\ UNCHANGED asked

\* Either end of the transfer may fail; otherwise the masks are updated.
device_client_process(c) ==
  /\ \/ Apply(c, connection_teardown(Bundle(c), FALSE))
     \/ \E m \in SUBSET Poll : Apply(c, client_set_events(Bundle(c), m))
  /\ UNCHANGED asked

-----------------------------------------------------------------------------
(* main_loop: ppoll, then the listening socket and USB, then the clients.    *)

\* The masks given to ppoll are those of client_get_fds.
ppoll ==
  /\ phase = "poll"
  /\ phase' = "usb"
  /\ revents' \in {r \in [Clients -> SUBSET Poll] : \A c \in Clients : r[c] \subseteq client[c].events}
  /\ UNCHANGED <<client, conn, device, asked, answers, fault>>

client_accept(c) ==
  /\ phase = "usb"
  /\ client[c].state = "NEW"
  /\ client' = [client EXCEPT ![c] = [Blank("COMMAND") EXCEPT !.events = {"POLLIN"}]]
  /\ UNCHANGED <<conn, device, phase, revents, asked, answers, fault>>

\* A segment for a connection that waits for its SYN+ACK: the SYN+ACK is
\* acknowledged and the client told, or the connection is refused.
InputConnecting(c) ==
  LET s == Bundle(c)
  IN  \/ Apply(c, connection_teardown(s, FALSE))
      \/ \E m \in SUBSET Poll :
           Apply(c, client_set_events(
                      client_notify_connect([s EXCEPT !.cn.state = "CONNECTED"], TRUE), m))

InputConnected(c) ==
  \/ Apply(c, connection_teardown(Bundle(c), FALSE))
  \/ \E m \in SUBSET Poll : Apply(c, client_set_events(Bundle(c), m))

device_tcp_input(c) ==
  /\ phase = "usb"
  /\ \/ conn[c].state = "CONNECTING" /\ InputConnecting(c)
     \/ conn[c].state = "CONNECTED" /\ InputConnected(c)
  /\ UNCHANGED <<device, phase, revents, asked>>

\* The bundles of all clients after b; the first fault among them is kept.
ApplyAll(b) ==
  /\ client' = [c \in Clients |-> b[c].cl]
  /\ conn' = [c \in Clients |-> b[c].cn]
  /\ answers' = [c \in Clients |-> b[c].ans]
  /\ fault' = IF \E c \in Clients : b[c].fault # "none"
              THEN b[CHOOSE c \in Clients : b[c].fault # "none"].fault ELSE "none"

\* client_device_add and client_device_remove.
NotifyListener(s) == IF s.cl.state = "LISTEN" THEN send_pkt(s, 1) ELSE s

\* The device answered the version request and its preflight is over.
device_add(d) ==
  /\ phase = "usb"
  /\ device[d] = "NEW"
  /\ device' = [device EXCEPT ![d] = "ACTIVE"]
  /\ ApplyAll([c \in Clients |-> NotifyListener(Bundle(c))])
  /\ UNCHANGED <<phase, revents, asked>>

\* device_remove tears the connections down with device_list_mutex held.
device_remove(d) ==
  /\ phase = "usb"
  /\ device[d] = "ACTIVE"
  /\ device' = [device EXCEPT ![d] = "GONE"]
  /\ ApplyAll([c \in Clients |->
                 IF conn[c].dev = d THEN connection_teardown(Bundle(c), TRUE)
                 ELSE NotifyListener(Bundle(c))])
  /\ UNCHANGED <<phase, revents, asked>>

\* ppoll timed out: send_tcp_ack for a connection whose acknowledgement is
\* overdue, with device_list_mutex held. Something was written to the client
\* since the last acknowledgement, so the client is CONNECTED.
device_check_timeouts(c) ==
  /\ phase = "usb"
  /\ \A x \in Clients : revents[x] = {}
  /\ conn[c].state = "CONNECTED"
  /\ client[c].state = "CONNECTED"
  /\ \/ Apply(c, connection_teardown(Bundle(c), TRUE))
     \/ \E m \in SUBSET Poll : Apply(c, client_set_events(Bundle(c), m))
  /\ UNCHANGED <<device, phase, revents, asked>>

UsbDone ==
  /\ phase = "usb"
  /\ phase' = "clients"
  /\ UNCHANGED <<client, conn, device, revents, asked, answers, fault>>

\* The events are those of the last ppoll; the state is the current one, and
\* the client may be gone.
client_process(c) ==
  /\ phase = "clients"
  /\ revents[c] # {}
  /\ revents' = [revents EXCEPT ![c] = {}]
  /\ \/ client[c].state = "CLOSED" /\ UNCHANGED <<client, conn, answers, fault, asked>>
     \/ client[c].state = "CONNECTED" /\ device_client_process(c)
     \/ /\ client[c].state \notin {"CLOSED", "CONNECTED"}
        /\ IF "POLLIN" \in revents[c] THEN process_recv(c) ELSE process_send(c)
  /\ UNCHANGED <<device, phase>>

ClientsDone ==
  /\ phase = "clients"
  /\ \A c \in Clients : revents[c] = {}
  /\ phase' = "poll"
  /\ UNCHANGED <<client, conn, device, revents, asked, answers, fault>>

\* A signal ended the loop: device_kill_connections, then client_shutdown.
shutdown ==
  /\ phase = "poll"
  /\ phase' = "exit"
  /\ ApplyAll([c \in Clients |->
                 LET k == IF conn[c].state = "NONE" THEN Bundle(c)
                          ELSE connection_teardown(Bundle(c), FALSE)
                 IN  IF k.cl.state \in {"NEW", "CLOSED"} THEN k ELSE client_close(k, FALSE)])
  /\ UNCHANGED <<device, revents, asked>>

Next ==
  /\ fault = "none"
  /\ \/ ppoll \/ UsbDone \/ ClientsDone \/ shutdown
     \/ \E c \in Clients : \/ client_accept(c) \/ device_tcp_input(c)
                           \/ device_check_timeouts(c) \/ client_process(c)
     \/ \E d \in Devices : device_add(d) \/ device_remove(d)

Spec == Init /\ [][Next]_vars

\* The socket of a client that reads it becomes writable, and takes all.
Ready(c) == ppoll /\ client[c].events \subseteq revents'[c]
Drained(c) == client_process(c) /\ client'[c].ob = 0

\* main_loop keeps turning; the device answers every SYN; clients read what
\* they are sent.
Fairness ==
  /\ WF_vars(ppoll) /\ WF_vars(UsbDone) /\ WF_vars(ClientsDone)
  /\ \A c \in Clients :
       /\ SF_vars(device_tcp_input(c) /\ conn[c].state = "CONNECTING")
       /\ SF_vars(Ready(c)) /\ SF_vars(Drained(c)) /\ WF_vars(client_process(c))

FairSpec == Spec /\ Fairness

-----------------------------------------------------------------------------

\* The tags of the first n commands.
Tags(n) == [i \in 1..n |-> i]

TypeOK ==
  /\ client \in [Clients -> Client]
  /\ conn \in [Clients -> Connection]
  /\ device \in [Devices -> {"NEW", "ACTIVE", "GONE"}]
  /\ phase \in {"poll", "usb", "clients", "exit"}
  /\ revents \in [Clients -> SUBSET Poll]
  /\ asked \in [Clients -> Nat]
  /\ answers \in [Clients -> Seq(Nat)]
  /\ fault \in Faults

\* A client and its connection live and die together: a client waits for the
\* outcome of a connect exactly while its connection waits for the device, it
\* carries data exactly while the connection is established, and a connection
\* never outlives its client or its device.
Linked ==
  fault = "none" =>
    \A c \in Clients :
      /\ client[c].state = "CONNECTING1" <=> conn[c].state = "CONNECTING"
      /\ client[c].state \in {"CONNECTING2", "CONNECTED"} <=> conn[c].state = "CONNECTED"
      /\ conn[c].state # "NONE" => device[conn[c].dev] = "ACTIVE"

\* No wakeup is lost: a client with messages to send is polled for POLLOUT, a
\* client that carries data is polled for what its connection asked for, even
\* if that was computed while the RESULT_OK was still in ob_buf, and a client
\* about to carry data has that message in ob_buf.
Polled ==
  fault = "none" =>
    \A c \in Clients :
      /\ client[c].ob > 0 => "POLLOUT" \in client[c].events
      /\ client[c].state = "CONNECTED" => client[c].events = conn[c].events /\ client[c].ob = 0
      /\ client[c].state = "CONNECTING2" =>
           client[c].ob > 0 /\ client[c].devents = conn[c].events

\* Every command that calls for an answer gets exactly one, in the order of
\* the commands; the only one that may be outstanding is the last, a Connect.
AnsweredInOrder ==
  fault = "none" =>
    \A c \in Clients :
      client[c].state # "CLOSED" =>
        LET n == IF client[c].state = "CONNECTING1" THEN asked[c] - 1 ELSE asked[c]
        IN  answers[c] = Tags(n)

StreamStep ==
  \A c \in Clients :
    client[c].state \in {"CONNECTING2", "CONNECTED"} =>
      /\ client'[c].state \in {client[c].state, "CONNECTED", "CLOSED"}
      /\ answers'[c] = answers[c]

\* Once a client was told that it is connected its socket carries raw data
\* only: it is never read for commands or sent a message again, whatever
\* happens to its connection, and it ends by being closed.
StreamIsFinal == [][StreamStep]_vars

\* A connect is resolved and its outcome reaches the client, or the client is
\* closed: no client stays between command and data for ever.
Resolved ==
  \A c \in Clients :
    client[c].state \in Connecting ~> (client[c].state \notin Connecting \/ fault # "none")

\* device.c, of CONN_DEAD: "being freed; used to prevent infinite recursion
\* between client<->device freeing". Whichever side starts, each structure is
\* freed once.
FreedOnce == fault # "freed twice"

FaultStep ==
  fault' # fault =>
    \E c \in Clients :
      \/ client[c].state = "CONNECTING2" /\ fault' # "used after close"
      \/ /\ client[c].state \in {"LISTEN", "CONNECTING1"}
         /\ client'[c].state = "CLOSED"
         /\ asked'[c] > asked[c]
         /\ fault' = "used after close"

\* The errors of freeing and locking are confined to two windows: a client that
\* was not yet sent its RESULT_OK (CONNECTING2), and a client closed for sending
\* a command in a state other than COMMAND. In every other state clients,
\* connections and devices may go in any order, and client_close and
\* connection_teardown, which call each other, free each structure once, take
\* device_list_mutex once and touch nothing that is freed.
FaultsConfined == [][FaultStep]_vars

-----------------------------------------------------------------------------
(* The inductive invariant behind the theorems of MuxSessionProofs.          *)

BundleType == [cl : Client, cn : Connection, ans : Seq(Nat), fault : Faults]

\* What holds of a client that sent n commands, and of its connection.
Consistent(s, n) ==
  /\ s.cl.state = "CONNECTING1" <=> s.cn.state = "CONNECTING"
  /\ s.cl.state \in {"CONNECTING2", "CONNECTED"} <=> s.cn.state = "CONNECTED"
  /\ s.cn.state = "NONE" => s.cn = NoConn
  /\ s.cn.state # "NONE" => s.cn.dev \in Devices
  /\ s.cl.ob > 0 => "POLLOUT" \in s.cl.events
  /\ s.cl.state = "CONNECTED" => s.cl.events = s.cn.events /\ s.cl.ob = 0
  /\ s.cl.state = "CONNECTING2" => s.cl.ob > 0 /\ s.cl.devents = s.cn.events
  /\ s.cl.state = "CONNECTING1" => n > 0 /\ s.cl.connect_tag = n /\ s.ans = Tags(n - 1)
  /\ s.cl.state \notin {"CONNECTING1", "CLOSED"} => s.ans = Tags(n)

\* Every client and its connection are consistent, until a fault: what
\* connect_tag, devents and the answers stand for while a connect is under way
\* is what makes Linked, Polled and AnsweredInOrder survive every handler.
SessionInv ==
  /\ TypeOK
  /\ fault = "none" =>
       \A c \in Clients :
         /\ Consistent(Bundle(c), asked[c])
         /\ conn[c].state # "NONE" => device[conn[c].dev] = "ACTIVE"

\* A slot that client_accept has not filled is not in the list that
\* client_get_fds hands to ppoll, so it has no events and client_process does
\* not reach it.
Quiet ==
  \A c \in Clients : client[c].state = "NEW" => client[c].events = {} /\ revents[c] = {}

\* The inductive invariant behind FaultsConfined: whoever is processed was
\* accepted, so the state it is in is one of those SessionInv describes.
LoopInv == SessionInv /\ Quiet
=============================================================================
