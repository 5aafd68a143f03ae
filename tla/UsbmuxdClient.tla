--------------------------- MODULE UsbmuxdClient ---------------------------
(***************************************************************************)
(* libusbmuxd (libusbmuxd.c and collection.c of libusbmuxd), the library   *)
(* with which programs talk to usbmuxd, as it is built for Windows: the    *)
(* monitor thread that usbmuxd_subscribe starts, with its list of devices  *)
(* and the events it reports; and other threads of the program that list   *)
(* devices, connect or read records. They share proto_version and          *)
(* try_list_devices without a lock.                                        *)
(*                                                                         *)
(* The daemon is external. It knows version 0 of the protocol or both, may *)
(* or may not know ListDevices, and may end and start again.               *)
(* As MuxEvents shows of usbmuxd, it may report a device twice when it     *)
(* becomes visible, and reports the removal of a device that it has never  *)
(* reported. Failing allocations and malformed packets are left out.       *)
(***************************************************************************)
EXTENDS Integers, Sequences, FiniteSets

CONSTANTS
  Devices,      \* handles of devices, not 0
  Callers,      \* threads that make requests
  Readers,      \* the ones of them that ask for records
  MaxEvents,    \* bound: devices that come or go
  MaxRestarts   \* bound: ends of the daemon

ASSUME ClientAssumption ==
  /\ Devices \subseteq Nat \ {0} /\ IsFiniteSet(Devices)
  /\ {MaxEvents, MaxRestarts} \subseteq Nat

VARIABLES
  daemon,       \* the daemon
  sock,         \* the socket of the monitor thread, at both ends
  event_cb,     \* event_cb is not NULL
  listenfd,     \* listenfd is the socket of the monitor thread
  devices,      \* devices.list: handles, 0 for NULL
  known,        \* for a device: how often the program was told that it was
                \* added, and not yet that it was removed
  mon,          \* where the monitor thread is
  app,          \* where the thread is that subscribes
  call,         \* the requests of the callers
  proto_version, try_list_devices,
  crashed       \* NULL was dereferenced; the model ends

shared == <<proto_version, try_list_devices>>
monVars == <<sock, listenfd, devices, known, mon, crashed>>
appVars == <<event_cb, app>>
callVars == <<call>>
vars == <<daemon, monVars, appVars, callVars, shared>>

\* Answers to a request; LIST: a list of devices. none: an error or a timeout.
Answers == {"OK", "LIST", "BADVERSION", "BADCOMMAND", "none"}

\* What the daemon sends to the monitor thread.
Messages ==
  [type : {"RESULT"}, res : Answers] \cup
  [type : {"ADD", "REMOVE", "PAIRED"}, dev : Devices]

\* req: the format and the version of a Listen that is not answered yet, if any.
Requests == [plist : BOOLEAN, version : 0..1]

\* Of a thread that makes no request.
NoCall == [at |-> "idle", op |-> "none", plist |-> FALSE, kind |-> "none", res |-> "none"]

Init ==
  /\ \E versions \in {{0}, {0, 1}}, lists \in BOOLEAN :
       /\ lists => 1 \in versions
       /\ daemon = [up |-> FALSE, attached |-> {}, versions |-> versions,
                    lists |-> lists, events |-> 0, ends |-> 0]
  /\ sock = [open |-> FALSE, listening |-> FALSE, req |-> {}, queue |-> <<>>]
  /\ event_cb = FALSE /\ listenfd = FALSE
  /\ devices = <<>> /\ known = [d \in Devices |-> 0]
  /\ mon = [at |-> "off", plist |-> FALSE, cb |-> FALSE]
  /\ app = "idle"
  /\ call = [t \in Callers |-> NoCall]
  /\ proto_version = 1 /\ try_list_devices = TRUE
  /\ crashed = FALSE

-----------------------------------------------------------------------------
(* The daemon.                                                               *)

\* Of a request in the format of plists, with the version in its header.
Answer(kind, r) ==
  IF r.version \notin daemon.versions THEN "BADVERSION"
  ELSE IF r.plist /\ 1 \notin daemon.versions THEN "BADCOMMAND"
  ELSE IF kind # "LIST" THEN "OK" ELSE IF daemon.lists THEN "LIST" ELSE "BADCOMMAND"

Added(d) == [type |-> "ADD", dev |-> d]
Removed(d) == [type |-> "REMOVE", dev |-> d]

\* The members of a set of devices, in any order.
Listings(S) == {s \in [1..Cardinality(S) -> S] : \A d \in S : \E i \in DOMAIN s : s[i] = d}

\* The answer to the Listen of the monitor thread. The devices that are there
\* follow it.
AnswerListen ==
  /\ daemon.up /\ sock.open
  /\ \E r \in sock.req, l \in Listings(daemon.attached) :
       LET res == Answer("LISTEN", r)
           adds == IF res = "OK" THEN [i \in DOMAIN l |-> Added(l[i])] ELSE <<>>
       IN  sock' = [sock EXCEPT
                      !.req = {}, !.listening = (res = "OK"),
                      !.queue = Append(@, [type |-> "RESULT", res |-> res]) \o adds]
  /\ UNCHANGED <<daemon, event_cb, listenfd, devices, known, mon, app, callVars,
                 shared, crashed>>

\* Messages for the monitor thread, if it listens.
Tell(ms) ==
  IF sock.open /\ sock.listening THEN sock' = [sock EXCEPT !.queue = @ \o ms]
  ELSE UNCHANGED sock

DaemonEvent ==
  /\ daemon.up /\ daemon.events < MaxEvents
  /\ \E d \in Devices :
       \/ /\ d \notin daemon.attached
          /\ daemon' = [daemon EXCEPT !.attached = @ \cup {d}, !.events = @ + 1]
          /\ \E n \in 1..2 : Tell([i \in 1..n |-> Added(d)])
       \/ /\ daemon' = [daemon EXCEPT !.attached = @ \ {d}, !.events = @ + 1]
          /\ Tell(<<Removed(d)>>)
       \/ /\ d \in daemon.attached
          /\ daemon' = [daemon EXCEPT !.events = @ + 1]
          /\ Tell(<<[type |-> "PAIRED", dev |-> d]>>)
  /\ UNCHANGED <<event_cb, listenfd, devices, known, mon, app, callVars, shared,
                 crashed>>

DaemonStarts ==
  /\ ~daemon.up /\ daemon.ends <= MaxRestarts
  /\ daemon' = [daemon EXCEPT !.up = TRUE]
  /\ UNCHANGED <<monVars, appVars, callVars, shared>>

DaemonEnds ==
  /\ daemon.up /\ daemon.ends < MaxRestarts
  /\ daemon' = [daemon EXCEPT !.up = FALSE, !.attached = {}, !.ends = @ + 1]
  /\ sock' = [sock EXCEPT !.open = FALSE]
  /\ UNCHANGED <<event_cb, listenfd, devices, known, mon, app, callVars, shared,
                 crashed>>

-----------------------------------------------------------------------------
(* The list of devices (collection.c).                                       *)

\* The slots that hold d, or NULL.
Records(d) == {i \in DOMAIN devices : devices[i] = d}
NullSlots == Records(0)

First(s) == CHOOSE i \in s : \A j \in s : i <= j

\* Mutant: in a list that is doubled the last old slot is taken.
collection_addLast(d) ==
  IF NullSlots # {} THEN [devices EXCEPT ![First(NullSlots)] = d]
  ELSE [i \in 1..(2 * Len(devices)) |->
          CASE i < Len(devices) -> devices[i]
            [] i = Len(devices) -> d
            [] OTHER -> 0]

\* The first slot that is NULL, or the first new one of a list that is doubled.
collection_add(d) ==
  IF NullSlots # {} THEN [devices EXCEPT ![First(NullSlots)] = d]
  ELSE [i \in 1..(2 * Len(devices)) |->
          CASE i <= Len(devices) -> devices[i]
            [] i = Len(devices) + 1 -> d
            [] OTHER -> 0]

\* The slots at which the loop of devices_find ends: it has found the handle, or
\* reads the handle of NULL.
FindEnds(d) == {i \in DOMAIN devices : devices[i] \in {0, d}}

FindCrashes(d) == FindEnds(d) # {} /\ devices[First(FindEnds(d))] = 0

-----------------------------------------------------------------------------
(* The monitor thread.                                                       *)

At(place) == mon.at = place

\* plist and cb are of no use at the next place.
Goto(place) == mon' = [at |-> place, plist |-> FALSE, cb |-> FALSE]

quiet == <<daemon, appVars, callVars, shared>>

device_monitor ==
  /\ \/ At("start") /\ devices' = <<0>> /\ Goto("loop")
     \/ At("loop") /\ event_cb /\ Goto("connect") /\ UNCHANGED devices
     \/ At("loop") /\ ~event_cb /\ Goto("cleanup") /\ UNCHANGED devices
     \/ At("events") /\ event_cb /\ Goto("call") /\ UNCHANGED devices
     \/ At("events") /\ ~event_cb /\ Goto("loop") /\ UNCHANGED devices
     \/ At("call") /\ mon' = [mon EXCEPT !.at = "receive", !.cb = event_cb] /\ UNCHANGED devices
  /\ UNCHANGED <<quiet, sock, listenfd, known, crashed>>

\* A new socket; listenfd is still the one before.
Connected ==
  /\ sock' = [open |-> TRUE, listening |-> FALSE, req |-> {}, queue |-> <<>>]
  /\ listenfd' = FALSE
  /\ Goto("format")

\* Tried once, and then again as long as somebody is subscribed. When nobody is,
\* usbmuxd_listen fails.
usbmuxd_listen_poll ==
  /\ \/ At("connect") /\ daemon.up /\ Connected
     \/ At("connect") /\ ~daemon.up /\ Goto("poll") /\ UNCHANGED <<sock, listenfd>>
     \/ At("poll") /\ event_cb /\ daemon.up /\ Connected
     \/ At("poll") /\ ~event_cb /\ Goto("loop") /\ listenfd' = FALSE /\ UNCHANGED sock
  /\ UNCHANGED <<quiet, devices, known, crashed>>

\* proto_version is read for the format of the message and again for its header.
send_listen_packet ==
  /\ \/ /\ At("format")
        /\ mon' = [mon EXCEPT !.at = "send", !.plist = (proto_version = 1)]
        /\ UNCHANGED <<sock, listenfd>>
     \/ /\ At("send") /\ sock.open
        /\ sock' = [sock EXCEPT !.req = {[plist |-> mon.plist, version |-> proto_version]}]
        /\ Goto("result")
        /\ UNCHANGED listenfd
     \/ /\ At("send") /\ ~sock.open
        /\ listenfd' = FALSE
        /\ Goto("loop")
        /\ UNCHANGED sock
  /\ UNCHANGED <<quiet, devices, known, crashed>>

\* Mutant: the version is not lowered.
DowngradeNever == Goto("connect") /\ UNCHANGED <<proto_version, listenfd>>

\* The daemon does not know the version. When another thread has lowered it in the
\* meantime usbmuxd_listen fails, and device_monitor calls it again.
Downgrade ==
  \/ proto_version = 1 /\ proto_version' = 0 /\ Goto("connect") /\ UNCHANGED listenfd
  \/ proto_version # 1 /\ UNCHANGED proto_version /\ listenfd' = FALSE /\ Goto("loop")

\* The rest of usbmuxd_listen. An error or a timeout of 5 seconds counts as
\* success.
usbmuxd_listen ==
  /\ At("result")
  /\ \/ /\ sock.queue = <<>>
        /\ listenfd' = TRUE /\ Goto("events")
        /\ UNCHANGED <<sock, proto_version>>
     \/ /\ sock.queue # <<>>
        /\ LET res == Head(sock.queue).res
           IN  \/ /\ res = "OK"
                  /\ sock' = [sock EXCEPT !.queue = Tail(@)]
                  /\ listenfd' = TRUE /\ Goto("events")
                  /\ UNCHANGED proto_version
               \/ /\ res = "BADVERSION"
                  /\ sock' = [sock EXCEPT !.open = FALSE, !.queue = <<>>]
                  /\ Downgrade
               \/ /\ res = "BADCOMMAND"
                  /\ sock' = [sock EXCEPT !.open = FALSE, !.queue = <<>>]
                  /\ listenfd' = FALSE /\ Goto("loop")
                  /\ UNCHANGED proto_version
  /\ UNCHANGED <<daemon, appVars, callVars, try_list_devices, devices, known, crashed>>

\* generate_event
Report(d, n) == known' = IF mon.cb THEN [known EXCEPT ![d] = @ + n] ELSE known

DeviceAdd(d) ==
  /\ devices' = collection_add(d)
  /\ Report(d, 1)
  /\ UNCHANGED crashed

\* A device that is not in the list is ignored, if devices_find gets that far.
DeviceRemove(d) ==
  \/ FindCrashes(d) /\ crashed' = TRUE /\ UNCHANGED <<devices, known>>
  \/ FindEnds(d) = {} /\ UNCHANGED <<devices, known, crashed>>
  \/ /\ FindEnds(d) # {} /\ ~FindCrashes(d)
     /\ devices' = [devices EXCEPT ![First(FindEnds(d))] = 0]
     /\ Report(d, -1)
     /\ UNCHANGED crashed

DevicePaired(d) ==
  /\ crashed' = FindCrashes(d)
  /\ UNCHANGED <<devices, known>>

\* Mutant: the records are dropped without events.
LostSilently ==
  /\ devices' = [i \in DOMAIN devices |-> 0]
  /\ UNCHANGED known

\* Every device is removed. An empty slot is passed over by generate_event.
Lost ==
  /\ devices' = [i \in DOMAIN devices |-> 0]
  /\ known' = [d \in Devices |->
                 IF mon.cb THEN known[d] - Cardinality(Records(d)) ELSE known[d]]

\* A Result is unexpected and ignored.
get_next_event ==
  /\ At("receive")
  /\ \/ /\ sock.queue = <<>> /\ ~sock.open
        /\ Lost
        /\ Goto("loop")
        /\ UNCHANGED <<sock, crashed>>
     \/ /\ sock.queue # <<>>
        /\ sock' = [sock EXCEPT !.queue = Tail(@)]
        /\ Goto("events")
        /\ LET m == Head(sock.queue)
           IN  \/ m.type = "ADD" /\ DeviceAdd(m.dev)
               \/ m.type = "REMOVE" /\ DeviceRemove(m.dev)
               \/ m.type = "PAIRED" /\ DevicePaired(m.dev)
               \/ m.type = "RESULT" /\ UNCHANGED <<devices, known, crashed>>
  /\ UNCHANGED <<quiet, listenfd>>

device_monitor_cleanup ==
  /\ At("cleanup")
  /\ devices' = <<>>
  /\ sock' = IF listenfd THEN [sock EXCEPT !.open = FALSE] ELSE sock
  /\ listenfd' = FALSE
  /\ Goto("off")
  /\ UNCHANGED <<quiet, known, crashed>>

Monitor ==
  \/ device_monitor \/ usbmuxd_listen_poll \/ send_listen_packet \/ usbmuxd_listen
  \/ get_next_event \/ device_monitor_cleanup

-----------------------------------------------------------------------------
(* Subscribing.                                                              *)

usbmuxd_subscribe ==
  /\ app = "idle"
  /\ event_cb' = TRUE
  /\ app' = "subscribed"
  /\ Goto("start")
  /\ UNCHANGED <<daemon, sock, listenfd, devices, known, callVars, shared, crashed>>

Shutdown == sock' = IF listenfd THEN [sock EXCEPT !.open = FALSE] ELSE sock

\* Mutant: the socket is shut down first.
usbmuxd_unsubscribeLate ==
  /\ \/ /\ app = "subscribed" /\ app' = "shutdown"
        /\ Shutdown
        /\ UNCHANGED <<event_cb, known>>
     \/ /\ app = "shutdown" /\ app' = "wait"
        /\ event_cb' = FALSE
        /\ UNCHANGED <<sock, known>>
     \/ /\ app = "wait" /\ At("off") /\ app' = "idle"
        /\ known' = [d \in Devices |-> 0]
        /\ UNCHANGED <<event_cb, sock>>
  /\ UNCHANGED <<daemon, listenfd, devices, mon, callVars, shared, crashed>>

\* Mutant: the thread is not waited for.
usbmuxd_unsubscribeAtOnce ==
  /\ \/ /\ app = "subscribed" /\ app' = "shutdown"
        /\ event_cb' = FALSE
        /\ UNCHANGED <<sock, known>>
     \/ /\ app = "shutdown" /\ app' = "idle"
        /\ Shutdown
        /\ known' = [d \in Devices |-> 0]
        /\ UNCHANGED event_cb
  /\ UNCHANGED <<daemon, listenfd, devices, mon, callVars, shared, crashed>>

\* The program forgets what it knows when the thread has ended.
usbmuxd_unsubscribe ==
  /\ \/ /\ app = "subscribed" /\ app' = "shutdown"
        /\ event_cb' = FALSE
        /\ UNCHANGED <<sock, known>>
     \/ /\ app = "shutdown" /\ app' = "wait"
        /\ Shutdown
        /\ UNCHANGED <<event_cb, known>>
     \/ /\ app = "wait" /\ At("off") /\ app' = "idle"
        /\ known' = [d \in Devices |-> 0]
        /\ UNCHANGED event_cb /\ UNCHANGED sock
  /\ UNCHANGED <<daemon, listenfd, devices, mon, callVars, shared, crashed>>

-----------------------------------------------------------------------------
(* Requests of other threads.                                                *)

Step(t, c) == call' = [call EXCEPT ![t] = c]

Return(t) == Step(t, NoCall)

\* op: usbmuxd_get_device_list, usbmuxd_connect, or one of the four requests for
\* the BUID and for pair records. Two threads do all that one thread can do that
\* makes requests of both kinds, one after the other.
Begin(t) ==
  /\ call[t].at = "idle"
  /\ \E op \in IF t \in Readers THEN {"record"} ELSE {"list", "connect"} :
       Step(t, [NoCall EXCEPT !.at = "connect", !.op = op])
  /\ UNCHANGED shared

Retry(t) == Step(t, [NoCall EXCEPT !.at = "connect", !.op = call[t].op])

\* Without the daemon every request fails.
connect_usbmuxd_socket(t) ==
  /\ call[t].at = "connect" /\ ~daemon.up
  /\ Return(t) /\ UNCHANGED shared

\* The daemon is connected to and a request of this kind is made, in the format of
\* proto_version or as a plist.
Format(t, kind) == Step(t, [call[t] EXCEPT !.at = "format", !.kind = kind])
SendPlist(t, kind) == Step(t, [call[t] EXCEPT !.at = "send", !.kind = kind, !.plist = TRUE])

\* The version for the header is read. The answer may not come, or not in time.
send_packet(t) ==
  /\ \/ /\ call[t].at = "format"
        /\ Step(t, [call[t] EXCEPT !.at = "send", !.plist = (proto_version = 1)])
     \/ /\ call[t].at = "send"
        /\ LET r == [plist |-> call[t].plist, version |-> proto_version]
           IN  \E res \in {"none"} \cup (IF daemon.up THEN {Answer(call[t].kind, r)} ELSE {}) :
                 Step(t, [call[t] EXCEPT !.at = "result", !.res = res, !.plist = FALSE])
     \/ call[t].at = "send" /\ ~daemon.up /\ Return(t)
  /\ UNCHANGED shared

\* Mutant: ListDevices is tried again.
ListRefusedAgain(t) ==
  /\ proto_version' = IF call[t].res = "BADVERSION" THEN 0 ELSE proto_version
  /\ UNCHANGED try_list_devices
  /\ Retry(t)

\* ListDevices was refused, or not answered in time.
ListRefused(t) ==
  /\ proto_version' = IF call[t].res = "BADVERSION" THEN 0 ELSE proto_version
  /\ try_list_devices' = FALSE
  /\ Retry(t)

\* A Listen or a Connect that is refused for its version is made again.
Lower(t) ==
  \/ /\ call[t].res = "BADVERSION" /\ proto_version = 1
     /\ proto_version' = 0 /\ UNCHANGED try_list_devices
     /\ Retry(t)
  \/ /\ call[t].res # "BADVERSION" \/ proto_version # 1
     /\ Return(t) /\ UNCHANGED shared

\* With ListDevices, or with a Listen whose events are collected.
usbmuxd_get_device_list(t) ==
  /\ call[t].op = "list"
  /\ \/ /\ call[t].at = "connect" /\ daemon.up
        /\ IF proto_version = 1 /\ try_list_devices
             THEN SendPlist(t, "LIST")
             ELSE Format(t, "LISTEN")
        /\ UNCHANGED shared
     \/ /\ call[t].at = "result" /\ call[t].kind = "LIST"
        /\ \/ call[t].res # "LIST" /\ ListRefused(t)
           \/ call[t].res = "LIST" /\ Return(t) /\ UNCHANGED shared
     \/ call[t].at = "result" /\ call[t].kind = "LISTEN" /\ Lower(t)

usbmuxd_connect(t) ==
  /\ call[t].op = "connect"
  /\ \/ call[t].at = "connect" /\ daemon.up /\ Format(t, "CONNECT") /\ UNCHANGED shared
     \/ call[t].at = "result" /\ Lower(t)

\* The request was sent, and an answer is awaited that makes no difference here.
Await(t) == Step(t, [call[t] EXCEPT !.at = "result"])

\* And the requests for pair records: always with version 1, for every thread.
usbmuxd_read_buid(t) ==
  /\ call[t].op = "record"
  /\ \/ /\ call[t].at = "connect" /\ daemon.up
        /\ proto_version' = 1 /\ UNCHANGED try_list_devices
        /\ Await(t)
     \/ call[t].at = "result" /\ Return(t) /\ UNCHANGED shared

Request(t) ==
  /\ \/ connect_usbmuxd_socket(t) \/ send_packet(t)
     \/ usbmuxd_get_device_list(t) \/ usbmuxd_connect(t) \/ usbmuxd_read_buid(t)
  /\ UNCHANGED <<daemon, monVars, appVars>>

Next ==
  /\ ~crashed
  /\ \/ Monitor
     \/ usbmuxd_subscribe \/ usbmuxd_unsubscribe
     \/ \E t \in Callers : Begin(t) /\ UNCHANGED <<daemon, monVars, appVars>>
     \/ \E t \in Callers : Request(t)
     \/ AnswerListen \/ DaemonEvent \/ DaemonStarts \/ DaemonEnds

Spec == Init /\ [][Next]_vars

\* The threads run, the daemon answers, and usbmuxd_unsubscribe goes on once it
\* was called.
Fairness ==
  /\ WF_vars(~crashed /\ Monitor)
  /\ WF_vars(~crashed /\ app # "subscribed" /\ usbmuxd_unsubscribe)
  /\ \A t \in Callers : WF_vars(~crashed /\ Request(t))
  /\ WF_vars(~crashed /\ AnswerListen)

FairSpec == Spec /\ Fairness

-----------------------------------------------------------------------------

TypeOK ==
  /\ daemon \in [up : BOOLEAN, attached : SUBSET Devices, versions : SUBSET (0..1),
                 lists : BOOLEAN, events : 0..MaxEvents, ends : 0..MaxRestarts]
  /\ sock \in [open : BOOLEAN, listening : BOOLEAN, req : SUBSET Requests,
               queue : Seq(Messages)]
  /\ {event_cb, listenfd, try_list_devices, crashed} \subseteq BOOLEAN
  /\ devices \in Seq(Devices \cup {0})
  /\ known \in [Devices -> Nat]
  /\ mon \in [at : {"off", "start", "loop", "connect", "poll", "format", "send", "result",
                    "events", "call", "receive", "cleanup"},
              plist : BOOLEAN, cb : BOOLEAN]
  /\ app \in {"idle", "subscribed", "shutdown", "wait"}
  /\ call \in [Callers -> [at : {"idle", "connect", "format", "send", "result"},
                           op : {"none", "list", "connect", "record"}, plist : BOOLEAN,
                           kind : {"none", "LIST", "LISTEN", "CONNECT"},
                           res : Answers]]
  /\ proto_version \in 0..1

\* What a program that is subscribed was told is what the library has recorded:
\* every device that was reported as added, as often as it was reported, until it
\* is reported as removed. Also when the daemon is lost and found again.
Mirrored ==
  event_cb => \A d \in Devices : known[d] = Cardinality(Records(d))

\* While there is no connection to the daemon no device is recorded, so that what
\* the next daemon reports is not mixed with what the last one did; its handles
\* start again from 1.
FreshStart ==
  mon.at \in {"connect", "poll", "format", "send", "result"} =>
    \A i \in DOMAIN devices : devices[i] = 0

\* Why the two hold: a program is subscribed only while the monitor thread runs; the
\* callback that the thread has read is current unless the program has unsubscribed,
\* and then the thread will not connect again; and while the thread may report, the
\* program knows what is recorded.
ClientInv ==
  /\ TypeOK
  /\ event_cb <=> app = "subscribed"
  /\ app = "idle" => mon.at = "off" /\ \A d \in Devices : known[d] = 0
  /\ event_cb => mon.at \notin {"off", "cleanup"}
  /\ mon.at \in {"off", "start"} <=> devices = <<>>
  /\ mon.cb => mon.at = "receive"
  /\ event_cb /\ mon.at = "receive" => mon.cb
  /\ event_cb \/ mon.cb => \A d \in Devices : known[d] = Cardinality(Records(d))
  /\ FreshStart
  /\ event_cb /\ mon.at = "loop" => \A i \in DOMAIN devices : devices[i] = 0

\* A program that is subscribed and has been told everything that its daemon reported
\* knows every device that is attached: none is lost in a list that grows or has
\* empty slots, among the records of the daemon before, or while the answer to Listen
\* is late.
KnowsAttached ==
  (event_cb /\ sock.open /\ sock.listening /\ sock.queue = <<>>) =>
    \A d \in daemon.attached : Records(d) # {} /\ known[d] > 0

\* What is queued leaves d recorded: d is, and is not removed; or d is added, and not
\* removed after that.
Tracked(d) ==
  LET q == sock.queue
  IN  \/ Records(d) # {} /\ \A i \in DOMAIN q : q[i] # Removed(d)
      \/ \E i \in DOMAIN q : q[i] = Added(d) /\ \A j \in DOMAIN q : i < j => q[j] # Removed(d)

\* The thread is at a place from which it reads what the daemon sends, or is about to
\* close the socket.
Attending ==
  /\ mon.at \in {"result", "events", "call", "receive", "loop", "cleanup"}
  /\ mon.at \in {"loop", "cleanup"} => listenfd /\ ~event_cb

\* Why KnowsAttached holds: the thread does not leave a socket to which the daemon
\* reports, and what it skips there before the first event is the answer to Listen.
AttachedInv ==
  /\ sock.open /\ (sock.listening \/ sock.req # {}) => Attending
  /\ mon.at \in {"events", "call", "receive"} => listenfd
  /\ sock.open /\ mon.at \in {"format", "send"} => sock.queue = <<>>
  /\ sock.open /\ mon.at = "result" =>
       IF sock.queue = <<>> THEN ~sock.listening ELSE Head(sock.queue).type = "RESULT"
  /\ sock.open /\ sock.listening => \A d \in daemon.attached : Tracked(d)

\* A program is not called back after usbmuxd_unsubscribe has returned.
NoLateEvents == [][known' # known => app # "idle"]_vars

\* The comment of devices_find: "if the record is not found, NULL is returned".
NullIsReturned == ~crashed

\* Requests for records raise the version again and again, each time after somebody
\* has lowered it: then every retry may be refused.
Contended == []<><<proto_version' > proto_version>>_vars

\* usbmuxd_unsubscribe returns, wherever the monitor thread is when it is called:
\* waiting for the daemon, for its answer, or for the next event.
Unsubscribes ==
  \/ Contended
  \/ (app \in {"shutdown", "wait"}) ~> (app = "idle" \/ crashed)

\* A request returns, although the version and the way to list devices are tried
\* one after the other and other threads change them, as long as the others do not
\* keep undoing what it tries.
CallsReturn ==
  \/ Contended
  \/ \A t \in Callers : (call[t].at # "idle") ~> (call[t].at = "idle" \/ crashed)

\* The Listen was refused, but the answer came after the timeout.
Deaf == mon.at \in {"events", "call", "receive"} /\ sock.open /\ ~sock.listening /\ sock.req = {}

\* A program that is subscribed while a daemon runs is connected to it, whatever
\* version it speaks, unless the answer of the daemon came after the timeout and
\* refused the request.
Listens ==
  \/ Contended
  \/ (event_cb /\ daemon.up)
       ~> ((sock.open /\ sock.listening) \/ Deaf \/ ~event_cb \/ ~daemon.up \/ crashed)
=============================================================================
