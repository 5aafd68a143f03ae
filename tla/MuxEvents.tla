------------------------------ MODULE MuxEvents ------------------------------
(***************************************************************************)
(* Device events of usbmuxd: how a device becomes visible (device.c), how  *)
(* the preflight worker thread of that device announces it (preflight.c)   *)
(* and how the clients in state LISTEN are told (client.c). The main loop  *)
(* and every worker are threads; they share device_list, client_list and   *)
(* the clients' output buffers, under device_list_mutex, client_list_mutex *)
(* or no mutex at all.                                                     *)
(*                                                                         *)
(* A step runs up to the next point where another thread can interfere: a  *)
(* lock that must be waited for, or the next access to memory that another *)
(* thread writes. No mutex protects an output buffer against the main      *)
(* thread: send_pkt and process_send have a beginning and an end, and what *)
(* a buffer holds is not defined any more once two of them have overlapped *)
(* (torn). The connections of the clients are in MuxSession. What a worker *)
(* asks of lockdownd is reduced to the choice among its outcomes.          *)
(***************************************************************************)
EXTENDS Integers, Sequences, FiniteSets

CONSTANTS
  Devices,  \* device ids; a device that is plugged in again has a new id
  Clients   \* sockets that may connect and listen

Main == "main"

\* Stands for "no thread", "no device" and "no client".
Nobody == "nobody"

ASSUME EventsAssumption ==
  /\ Devices \cap {Main, Nobody} = {}
  /\ Nobody \notin Clients

\* A worker is named by its device.
Threads == Devices \cup {Main}

VARIABLES
  device,               \* state of a struct mux_device
  visible,              \* the devices with dev->visible set
  preflight_cb_data,    \* the devices with that pointer set
  worker,               \* where the worker thread of a device is
  np,                   \* the workers whose cbdata.np is not NULL
  is_device_connected,  \* the workers whose cbdata has that flag set
  adding,               \* where a thread is in client_device_add
  left,                 \* the clients that FOREACH has not done with there
  into,                 \* the client for which a thread is in send_pkt
  enlarging,            \* the threads that are in its realloc
  main,                 \* the operation that the main thread is in
  client,               \* state of a struct mux_client
  ob_buf,               \* events in the output buffer of a client
  freed,                \* the clients whose buffers are freed
  told,                 \* the events put into it so far, in order
  sent,                 \* the events that send() took from it
  torn,                 \* the clients with a buffer that is not defined:
                        \* their ob_buf and sent are what was last known
  stale,                \* freed objects that a thread used
  device_list_mutex,    \* the thread that holds it, or Nobody
  client_list_mutex

deviceVars == <<device, visible, preflight_cb_data>>
workerVars == <<worker, np, is_device_connected>>
addVars == <<adding, left, into, enlarging>>
clientVars == <<client, ob_buf, freed, told, sent, torn>>
mutexes == <<device_list_mutex, client_list_mutex>>
vars == <<deviceVars, workerVars, addVars, main, clientVars, stale, mutexes>>

Attached(d) == [msg |-> "Attached", dev |-> d]
Detached(d) == [msg |-> "Detached", dev |-> d]
Result == [msg |-> "Result", dev |-> Nobody]
Event == [msg : {"Attached", "Detached"}, dev : Devices] \cup {Result}

\* NEW: not plugged in; GONE: freed by device_remove; REAPED: its struct
\* usb_device, which holds the serial number, is freed as well.
DeviceStates == {"NEW", "INIT", "ACTIVE", "DEAD", "GONE", "REAPED"}

Listed(d) == device[d] \in {"INIT", "ACTIVE", "DEAD"}

\* In the states of Frame the struct cb_data is on the stack of the worker.
Frame == {"trusting", "waiting", "leaving"}
WorkerStates == {"none", "preflight", "arming", "adding", "done"} \cup Frame

\* NEW: not connected yet; CLOSED: freed.
ClientStates == {"NEW", "COMMAND", "LISTEN", "CLOSED"}

InList(c) == client[c] \in {"COMMAND", "LISTEN"}

\* todo, left: the devices at which device_get_list has not looked, and those it
\* found that start_listen has not reported.
MainThread ==
  [pc : {"poll", "add", "remove_notify", "remove_free", "process", "get_list", "list",
         "reply", "send", "close", "close_command"},
   dev : Devices \cup {Nobody}, client : Clients \cup {Nobody},
   todo : SUBSET Devices, left : SUBSET Devices]

Idle == [pc |-> "poll", dev |-> Nobody, client |-> Nobody, todo |-> {}, left |-> {}]

\* Between the two halves of client_close, called at the end of a connection or
\* by client_command.
Closing == {"close", "close_command"}

Init ==
  /\ device = [d \in Devices |-> "NEW"]
  /\ visible = {} /\ preflight_cb_data = {}
  /\ worker = [d \in Devices |-> "none"]
  /\ np = {} /\ is_device_connected = {}
  /\ adding = [t \in Threads |-> "no"]
  /\ left = [t \in Threads |-> {}]
  /\ into = [t \in Threads |-> Nobody] /\ enlarging = {}
  /\ main = Idle
  /\ client = [c \in Clients |-> "NEW"]
  /\ ob_buf = [c \in Clients |-> <<>>]
  /\ freed = {}
  /\ told = [c \in Clients |-> <<>>]
  /\ sent = [c \in Clients |-> <<>>]
  /\ torn = {} /\ stale = {}
  /\ device_list_mutex = Nobody /\ client_list_mutex = Nobody

-----------------------------------------------------------------------------
(* The output buffer of a client: ob_buf, ob_size and ob_capacity.         *)

InBuffer(t, c) ==
  \/ into[t] = c
  \/ t = Main /\ main.client = c /\ main.pc = "send"

Others(t, c) == {u \in Threads \ {t} : InBuffer(u, c)}

\* What becomes undefined when t begins to use the buffer of c.
Torn(t, c) == {x \in {c} : c \in freed \/ Others(t, c) # {}}

\* The freed memory that may be used when t does so; frees: t frees it or moves it.
Misused(t, c, frees) ==
  {x \in {"ob_buf"} : c \in freed}
  \cup {x \in {"enlarged"} : \E u \in Others(t, c) : frees \/ u \in enlarging}

\* send_pkt up to the copy; serial: what the caller has read from freed memory.
\* When the packet does not fit, realloc frees the buffer and the new pointer is
\* stored later. How full a buffer is, is left open.
send_pkt(t, c, serial) ==
  /\ into' = [into EXCEPT ![t] = c]
  /\ \E grows \in BOOLEAN :
       /\ enlarging' = enlarging \cup {x \in {t} : grows}
       /\ stale' = stale \cup serial \cup Misused(t, c, grows)
  /\ torn' = torn \cup Torn(t, c)
  /\ UNCHANGED <<client, ob_buf, freed, told, sent>>

\* realloc has returned and ob_buf points to the larger buffer.
Enlarged(t) ==
  /\ t \in enlarging
  /\ enlarging' = enlarging \ {t}
  /\ UNCHANGED <<deviceVars, workerVars, adding, left, into, main, clientVars, stale, mutexes>>

\* An event for every client of cs is in its buffer, and ob_size counts it.
Put(cs, event) ==
  /\ told' = [c \in Clients |-> IF c \in cs THEN Append(told[c], event) ELSE told[c]]
  /\ ob_buf' = [c \in Clients |->
                  IF c \in cs \ torn THEN Append(ob_buf[c], event) ELSE ob_buf[c]]

\* The rest of send_pkt: the copy and the update of ob_size.
PktDone(t, event) ==
  /\ into[t] # Nobody /\ t \notin enlarging
  /\ Put({into[t]}, event)
  /\ into' = [into EXCEPT ![t] = Nobody]
  /\ UNCHANGED enlarging

-----------------------------------------------------------------------------
(* client_device_add, called by a worker for its device, or by the main    *)
(* thread when the worker cannot be started.                               *)

Announced(t) == IF t = Main THEN main.dev ELSE t

\* Mutant: the listeners are collected before the device is made visible.
LockClientsEarly(t) ==
  /\ adding[t] = "lock"
  /\ client_list_mutex = Nobody
  /\ client_list_mutex' = t
  /\ adding' = [adding EXCEPT ![t] = "visible"]
  /\ left' = [left EXCEPT ![t] = {c \in Clients : client[c] = "LISTEN"}]
  /\ UNCHANGED <<deviceVars, workerVars, into, enlarging, main, clientVars, stale,
                 device_list_mutex>>

\* FOREACH will visit the clients in the list: it cannot change under the lock.
LockClients(t) ==
  /\ adding[t] = "lock"
  /\ client_list_mutex = Nobody
  /\ client_list_mutex' = t
  /\ adding' = [adding EXCEPT ![t] = "visible"]
  /\ left' = [left EXCEPT ![t] = {c \in Clients : InList(c)}]
  /\ UNCHANGED <<deviceVars, workerVars, into, enlarging, main, clientVars, stale,
                 device_list_mutex>>

\* The device may have left the list: then nothing is made visible.
device_set_visible(t) ==
  /\ adding[t] = "visible"
  /\ device_list_mutex = Nobody
  /\ visible' = visible \cup {d \in {Announced(t)} : Listed(d)}
  /\ adding' = [adding EXCEPT ![t] = "notify"]
  /\ UNCHANGED <<device, preflight_cb_data, workerVars, left, into, enlarging, main,
                 clientVars, stale, mutexes>>

SkipClient(t, c) ==
  /\ adding[t] = "notify"
  /\ c \in left[t]
  /\ client[c] # "LISTEN"
  /\ left' = [left EXCEPT ![t] = @ \ {c}]
  /\ UNCHANGED <<deviceVars, workerVars, adding, into, enlarging, main, clientVars, stale, mutexes>>

\* The serial number that is sent is read through a pointer into usb_device.
notify_device_add(t, c) ==
  /\ adding[t] = "notify" /\ into[t] = Nobody
  /\ c \in left[t]
  /\ client[c] = "LISTEN"
  /\ send_pkt(t, c, {x \in {"serial"} : device[Announced(t)] = "REAPED"})
  /\ UNCHANGED <<deviceVars, workerVars, adding, left, main, mutexes>>

Notified(t) ==
  /\ adding[t] = "notify"
  /\ PktDone(t, Attached(Announced(t)))
  /\ left' = [left EXCEPT ![t] = @ \ {into[t]}]
  /\ UNCHANGED <<deviceVars, workerVars, adding, main, client, freed, sent, torn, stale, mutexes>>

\* Mutant: client_list_mutex is not released.
UnlockClientsForgets(t) ==
  /\ adding[t] = "notify"
  /\ left[t] = {}
  /\ adding' = [adding EXCEPT ![t] = "no"]
  /\ UNCHANGED <<deviceVars, workerVars, left, into, enlarging, main, clientVars, stale, mutexes>>

UnlockClients(t) ==
  /\ adding[t] = "notify"
  /\ left[t] = {}
  /\ client_list_mutex' = Nobody
  /\ adding' = [adding EXCEPT ![t] = "no"]
  /\ UNCHANGED <<deviceVars, workerVars, left, into, enlarging, main, clientVars, stale,
                 device_list_mutex>>

client_device_add(t) ==
  \/ LockClients(t)
  \/ device_set_visible(t)
  \/ \E c \in Clients : SkipClient(t, c) \/ notify_device_add(t, c)
  \/ Enlarged(t)
  \/ Notified(t)
  \/ UnlockClients(t)

-----------------------------------------------------------------------------
(* preflight_worker_handle_device_add. Its early returns announce nothing; *)
(* most paths announce the device and return; the one that waits for the   *)
(* user's trust first registers cbdata with the device.                    *)

PreflightFails(d) ==
  /\ worker[d] = "preflight"
  /\ worker' = [worker EXCEPT ![d] = "done"]
  /\ UNCHANGED <<deviceVars, np, is_device_connected, addVars, main, clientVars, stale, mutexes>>

PreflightSucceeds(d) ==
  /\ worker[d] = "preflight"
  /\ worker' = [worker EXCEPT ![d] = "adding"]
  /\ adding' = [adding EXCEPT ![d] = "lock"]
  /\ UNCHANGED <<deviceVars, np, is_device_connected, left, into, enlarging, main,
                 clientVars, stale, mutexes>>

\* np_client_new may fail and leave np NULL.
AskForTrust(d) ==
  /\ worker[d] = "preflight"
  /\ worker' = [worker EXCEPT ![d] = "arming"]
  /\ np' \in {np, np \cup {d}}
  /\ is_device_connected' = is_device_connected \cup {d}
  /\ UNCHANGED <<deviceVars, addVars, main, clientVars, stale, mutexes>>

\* Mutant: the pointer is stored without looking the device up.
ArmRemovalUnchecked(d) ==
  /\ worker[d] = "arming"
  /\ device_list_mutex = Nobody
  /\ preflight_cb_data' = preflight_cb_data \cup {d}
  /\ worker' = [worker EXCEPT ![d] = "trusting"]
  /\ adding' = [adding EXCEPT ![d] = "lock"]
  /\ UNCHANGED <<device, visible, np, is_device_connected, left, into, enlarging, main,
                 clientVars, stale, mutexes>>

\* device_set_preflight_cb_data with &cbdata, then client_device_add.
ArmRemoval(d) ==
  /\ worker[d] = "arming"
  /\ device_list_mutex = Nobody
  /\ preflight_cb_data' = preflight_cb_data \cup {x \in {d} : Listed(x)}
  /\ worker' = [worker EXCEPT ![d] = "trusting"]
  /\ adding' = [adding EXCEPT ![d] = "lock"]
  /\ UNCHANGED <<device, visible, np, is_device_connected, left, into, enlarging, main,
                 clientVars, stale, mutexes>>

\* client_device_add returned: the worker ends, or starts to wait.
ReturnFromAdd(d) ==
  /\ worker[d] \in {"adding", "trusting"}
  /\ adding[d] = "no"
  /\ worker' = [worker EXCEPT ![d] = IF @ = "adding" THEN "done" ELSE "waiting"]
  /\ UNCHANGED <<deviceVars, np, is_device_connected, addVars, main, clientVars, stale, mutexes>>

\* An empty notification: the notification proxy is lost.
np_callback(d) ==
  /\ worker[d] \in Frame \cup {"arming"}
  /\ d \in np
  /\ np' = np \ {d}
  /\ UNCHANGED <<deviceVars, worker, is_device_connected, addVars, main, clientVars, stale, mutexes>>

\* Mutant: the worker waits until both conditions have ended.
StopWaitingBoth(d) ==
  /\ worker[d] = "waiting"
  /\ d \notin np \cup is_device_connected
  /\ worker' = [worker EXCEPT ![d] = "leaving"]
  /\ UNCHANGED <<deviceVars, np, is_device_connected, addVars, main, clientVars, stale, mutexes>>

StopWaiting(d) ==
  /\ worker[d] = "waiting"
  /\ d \notin np \cap is_device_connected
  /\ worker' = [worker EXCEPT ![d] = "leaving"]
  /\ UNCHANGED <<deviceVars, np, is_device_connected, addVars, main, clientVars, stale, mutexes>>

\* device_set_preflight_cb_data with NULL; a device that left the list is not
\* found.
DisarmRemoval(d) ==
  /\ worker[d] = "leaving"
  /\ device_list_mutex = Nobody
  /\ preflight_cb_data' = preflight_cb_data \ {x \in {d} : Listed(x)}
  /\ worker' = [worker EXCEPT ![d] = "done"]
  /\ UNCHANGED <<device, visible, np, is_device_connected, addVars, main, clientVars, stale, mutexes>>

-----------------------------------------------------------------------------
(* The main thread.                                                        *)

\* A device that could not be sent the version request is not added at all.
device_add(d) ==
  /\ main.pc = "poll"
  /\ device[d] = "NEW"
  /\ device_list_mutex = Nobody
  /\ device' = [device EXCEPT ![d] = "INIT"]
  /\ UNCHANGED <<visible, preflight_cb_data, workerVars, addVars, main, clientVars, stale, mutexes>>

\* A version that is not supported: the device is dropped from the list.
device_version_input_unknown(d) ==
  /\ main.pc = "poll"
  /\ device[d] = "INIT"
  /\ device_list_mutex = Nobody
  /\ device' = [device EXCEPT ![d] = "GONE"]
  /\ UNCHANGED <<visible, preflight_cb_data, workerVars, addVars, main, clientVars, stale, mutexes>>

\* preflight_worker_device_add starts the worker.
device_version_input(d) ==
  /\ main.pc = "poll"
  /\ device[d] = "INIT"
  /\ device' = [device EXCEPT ![d] = "ACTIVE"]
  /\ worker' = [worker EXCEPT ![d] = "preflight"]
  /\ UNCHANGED <<visible, preflight_cb_data, np, is_device_connected, addVars, main,
                 clientVars, stale, mutexes>>

\* pthread_create failed: the main thread calls client_device_add itself.
device_version_input_direct(d) ==
  /\ main.pc = "poll"
  /\ device[d] = "INIT"
  /\ device' = [device EXCEPT ![d] = "ACTIVE"]
  /\ adding' = [adding EXCEPT ![Main] = "lock"]
  /\ main' = [main EXCEPT !.pc = "add", !.dev = d]
  /\ UNCHANGED <<visible, preflight_cb_data, workerVars, left, into, enlarging, clientVars,
                 stale, mutexes>>

MainReturnsFromAdd ==
  /\ main.pc = "add"
  /\ adding[Main] = "no"
  /\ main' = Idle
  /\ UNCHANGED <<deviceVars, workerVars, addVars, clientVars, stale, mutexes>>

\* Mutant: device_list_mutex is not held while the clients are told.
device_removeUnlocked(d) ==
  /\ main.pc = "poll"
  /\ Listed(d)
  /\ device_list_mutex = Nobody
  /\ device' = [device EXCEPT ![d] = IF @ = "ACTIVE" THEN "DEAD" ELSE @]
  /\ main' = [main EXCEPT !.dev = d,
                  !.pc = IF device[d] = "ACTIVE" THEN "remove_notify" ELSE "remove_free"]
  /\ UNCHANGED <<visible, preflight_cb_data, workerVars, addVars, clientVars, stale, mutexes>>

\* device_remove holds device_list_mutex up to its last step; the clients are
\* told of a device that was ACTIVE, whether it was visible or not.
device_remove(d) ==
  /\ main.pc = "poll"
  /\ Listed(d)
  /\ device_list_mutex = Nobody
  /\ device_list_mutex' = Main
  /\ device' = [device EXCEPT ![d] = IF @ = "ACTIVE" THEN "DEAD" ELSE @]
  /\ main' = [main EXCEPT !.dev = d,
                  !.pc = IF device[d] = "ACTIVE" THEN "remove_notify" ELSE "remove_free"]
  /\ UNCHANGED <<visible, preflight_cb_data, workerVars, addVars, clientVars, stale,
                 client_list_mutex>>

\* No thread is in a buffer while the main thread holds client_list_mutex here: its
\* calls of send_pkt are one step.
client_device_remove ==
  /\ main.pc = "remove_notify"
  /\ client_list_mutex = Nobody
  /\ Put({c \in Clients : client[c] = "LISTEN"}, Detached(main.dev))
  /\ main' = [main EXCEPT !.pc = "remove_free"]
  /\ UNCHANGED <<deviceVars, workerVars, addVars, client, freed, sent, torn, stale, mutexes>>

\* preflight_device_remove_cb writes into the cb_data of the worker.
RemoveFree ==
  /\ main.pc = "remove_free"
  /\ is_device_connected' = is_device_connected \ ({main.dev} \cap preflight_cb_data)
  /\ device' = [device EXCEPT ![main.dev] = "GONE"]
  /\ visible' = visible \ {main.dev}
  /\ preflight_cb_data' = preflight_cb_data \ {main.dev}
  /\ device_list_mutex' = Nobody
  /\ main' = Idle
  /\ UNCHANGED <<worker, np, addVars, clientVars, stale, client_list_mutex>>

\* usb_disconnect frees the usb_device that device_remove has let go of.
reap_dead_devices(d) ==
  /\ main.pc = "poll"
  /\ device[d] = "GONE"
  /\ device_list_mutex = Nobody
  /\ device' = [device EXCEPT ![d] = "REAPED"]
  /\ UNCHANGED <<visible, preflight_cb_data, workerVars, addVars, main, clientVars, stale, mutexes>>

client_accept(c) ==
  /\ main.pc = "poll"
  /\ client[c] = "NEW"
  /\ client_list_mutex = Nobody
  /\ client' = [client EXCEPT ![c] = "COMMAND"]
  /\ UNCHANGED <<deviceVars, workerVars, addVars, main, ob_buf, freed, told, sent, torn,
                 stale, mutexes>>

\* client_process looks the client up under the mutex; what it then calls
\* (start_listen, process_send, client_close) works without it.
client_process(c) ==
  /\ main.pc = "poll"
  /\ InList(c)
  /\ client_list_mutex = Nobody
  /\ main' = [main EXCEPT !.pc = "process", !.client = c]
  /\ UNCHANGED <<deviceVars, workerVars, addVars, clientVars, stale, mutexes>>

\* The Listen command. The reply is put into the buffer before the client is
\* LISTEN, when no worker uses it.
start_listen ==
  /\ main.pc = "process"
  /\ client[main.client] = "COMMAND"
  /\ Put({main.client}, Result)
  /\ client' = [client EXCEPT ![main.client] = "LISTEN"]
  /\ main' = [main EXCEPT !.pc = "get_list"]
  /\ UNCHANGED <<deviceVars, workerVars, addVars, freed, sent, torn, stale, mutexes>>

\* The mutex is held for a copy of device_list that is not used.
device_get_list ==
  /\ main.pc = "get_list"
  /\ device_list_mutex = Nobody
  /\ main' = [main EXCEPT !.pc = "list", !.todo = {d \in Devices : Listed(d)}]
  /\ UNCHANGED <<deviceVars, workerVars, addVars, clientVars, stale, mutexes>>

\* One round of its loop over device_list, which only the main thread changes, while
\* workers change visible.
CollectDevice(d) ==
  /\ main.pc = "list"
  /\ d \in main.todo
  /\ main' = [main EXCEPT !.todo = @ \ {d},
                  !.left = @ \cup {x \in {d} : device[x] = "ACTIVE" /\ x \in visible}]
  /\ UNCHANGED <<deviceVars, workerVars, addVars, clientVars, stale, mutexes>>

ListDevice(d) ==
  /\ main.pc = "list" /\ main.todo = {} /\ into[Main] = Nobody
  /\ d \in main.left
  /\ send_pkt(Main, main.client, {})
  /\ main' = [main EXCEPT !.dev = d]
  /\ UNCHANGED <<deviceVars, workerVars, adding, left, mutexes>>

DeviceReported ==
  /\ main.pc = "list"
  /\ PktDone(Main, Attached(main.dev))
  /\ main' = [main EXCEPT !.left = @ \ {main.dev}]
  /\ UNCHANGED <<deviceVars, workerVars, adding, left, client, freed, sent, torn, stale, mutexes>>

ListDone ==
  /\ main.pc = "list" /\ main.todo = {}
  /\ main.left = {}
  /\ main' = Idle
  /\ UNCHANGED <<deviceVars, workerVars, addVars, clientVars, stale, mutexes>>

\* client_close frees the buffers before it takes the client off the list.
FreeBuffers(c) ==
  /\ freed' = freed \cup {c}
  /\ torn' = torn \cup Torn(Main, c)
  /\ stale' = stale \cup {x \in {"ob_buf"} : Others(Main, c) # {}}

\* A command of a client that is not in state COMMAND: it is told so and closed.
WrongState ==
  /\ main.pc = "process"
  /\ client[main.client] = "LISTEN"
  /\ send_pkt(Main, main.client, {})
  /\ main' = [main EXCEPT !.pc = "reply"]
  /\ UNCHANGED <<deviceVars, workerVars, adding, left, mutexes>>

Replied ==
  /\ main.pc = "reply"
  /\ PktDone(Main, Result)
  /\ FreeBuffers(main.client)
  /\ main' = [main EXCEPT !.pc = "close_command"]
  /\ UNCHANGED <<deviceVars, workerVars, adding, left, client, sent, mutexes>>

\* The test of ob_size, which may have any value when the buffer is torn.
process_send ==
  /\ main.pc = "process"
  /\ main.client \in torn \/ ob_buf[main.client] # <<>>
  /\ torn' = torn \cup Torn(Main, main.client)
  /\ stale' = stale \cup Misused(Main, main.client, FALSE)
  /\ main' = [main EXCEPT !.pc = "send"]
  /\ UNCHANGED <<deviceVars, workerVars, addVars, client, ob_buf, freed, told, sent, mutexes>>

NothingToSend ==
  /\ main.pc = "process"
  /\ main.client \in torn \/ ob_buf[main.client] = <<>>
  /\ main' = Idle
  /\ UNCHANGED <<deviceVars, workerVars, addVars, clientVars, stale, mutexes>>

\* Mutant: ob_size is reduced but the rest is not moved to the front.
SendOutputInPlace ==
  /\ main.pc = "send"
  /\ IF main.client \in torn
     THEN UNCHANGED <<sent, ob_buf>>
     ELSE LET b == ob_buf[main.client]
          IN  \E n \in 1..Len(b) :
                /\ sent' = [sent EXCEPT ![main.client] = @ \o SubSeq(b, 1, n)]
                /\ ob_buf' = [ob_buf EXCEPT ![main.client] = SubSeq(b, 1, Len(b) - n)]
  /\ main' = Idle
  /\ UNCHANGED <<deviceVars, workerVars, addVars, client, freed, told, torn, stale, mutexes>>

\* send() takes n events or, from a torn buffer, what nobody knows. The rest is moved
\* to the front; when nothing is left, ob_size is set to 0.
SendOutput ==
  /\ main.pc = "send"
  /\ IF main.client \in torn
     THEN UNCHANGED <<sent, ob_buf>>
     ELSE LET b == ob_buf[main.client]
          IN  \E n \in 1..Len(b) :
                /\ sent' = [sent EXCEPT ![main.client] = @ \o SubSeq(b, 1, n)]
                /\ ob_buf' = [ob_buf EXCEPT ![main.client] = SubSeq(b, n + 1, Len(b))]
  /\ main' = Idle
  /\ UNCHANGED <<deviceVars, workerVars, addVars, client, freed, told, torn, stale, mutexes>>

\* After an error of recv() or send(), or a message of a wrong length.
client_close ==
  /\ main.pc \in {"process", "send"}
  /\ FreeBuffers(main.client)
  /\ main' = [main EXCEPT !.pc = "close"]
  /\ UNCHANGED <<deviceVars, workerVars, addVars, client, ob_buf, told, sent, mutexes>>

\* Mutant: the client stays in client_list.
RemoveClientListed ==
  /\ main.pc \in Closing
  /\ client_list_mutex = Nobody
  /\ stale' = stale \cup {x \in {"client"} : main.pc = "close_command"}
  /\ main' = Idle
  /\ UNCHANGED <<deviceVars, workerVars, addVars, clientVars, mutexes>>

\* The client is freed, and with it what was recorded of it. process_recv sets
\* ib_size after client_command has closed the client.
RemoveClient ==
  LET cleared(f) == [f EXCEPT ![main.client] = <<>>]
  IN  /\ main.pc \in Closing
      /\ client_list_mutex = Nobody
      /\ client' = [client EXCEPT ![main.client] = "CLOSED"]
      /\ ob_buf' = cleared(ob_buf) /\ told' = cleared(told) /\ sent' = cleared(sent)
      /\ torn' = torn \ {main.client}
      /\ stale' = stale \cup {x \in {"client"} : main.pc = "close_command"}
      /\ main' = Idle
      /\ UNCHANGED <<deviceVars, workerVars, addVars, freed, mutexes>>

Preflight(d) ==
  \/ PreflightFails(d)
  \/ PreflightSucceeds(d)
  \/ AskForTrust(d)
  \/ ArmRemoval(d)
  \/ ReturnFromAdd(d)
  \/ StopWaiting(d)
  \/ DisarmRemoval(d)

\* The rest of an operation that the main thread has begun.
MainContinues ==
  \/ MainReturnsFromAdd
  \/ client_device_remove
  \/ RemoveFree
  \/ start_listen
  \/ device_get_list
  \/ \E d \in Devices : CollectDevice(d) \/ ListDevice(d)
  \/ DeviceReported
  \/ ListDone
  \/ WrongState
  \/ Replied
  \/ process_send
  \/ NothingToSend
  \/ SendOutput
  \/ client_close
  \/ RemoveClient

Next ==
  \/ \E t \in Threads : client_device_add(t)
  \/ \E d \in Devices :
       \/ Preflight(d)
       \/ np_callback(d)
       \/ device_add(d)
       \/ device_version_input_unknown(d)
       \/ device_version_input(d)
       \/ device_version_input_direct(d)
       \/ device_remove(d)
       \/ reap_dead_devices(d)
  \/ MainContinues
  \/ \E c \in Clients : client_accept(c) \/ client_process(c)

Spec == Init /\ [][Next]_vars

\* Threads are scheduled; the notification proxy of a device that is gone
\* reports the loss of its connection. Nothing obliges a device to leave.
FairSpec ==
  /\ Spec
  /\ WF_vars(MainContinues)
  /\ \A t \in Threads : WF_vars(client_device_add(t))
  /\ \A d \in Devices :
       WF_vars(Preflight(d)) /\ WF_vars(~Listed(d) /\ np_callback(d))

-----------------------------------------------------------------------------
TypeOK ==
  /\ device \in [Devices -> DeviceStates]
  /\ visible \subseteq Devices
  /\ preflight_cb_data \subseteq Devices
  /\ worker \in [Devices -> WorkerStates]
  /\ np \subseteq Devices
  /\ is_device_connected \subseteq Devices
  /\ adding \in [Threads -> {"no", "lock", "visible", "notify"}]
  /\ left \in [Threads -> SUBSET Clients]
  /\ into \in [Threads -> Clients \cup {Nobody}]
  /\ enlarging \subseteq Threads
  /\ main \in MainThread
  /\ client \in [Clients -> ClientStates]
  /\ ob_buf \in [Clients -> Seq(Event)]
  /\ freed \subseteq Clients
  /\ told \in [Clients -> Seq(Event)]
  /\ sent \in [Clients -> Seq(Event)]
  /\ torn \subseteq Clients
  /\ stale \subseteq {"ob_buf", "enlarged", "serial", "client"}
  /\ device_list_mutex \in {Main, Nobody}
  /\ client_list_mutex \in Threads \cup {Nobody}

\* The pointer that device_remove follows to tell a worker of the removal,
\* preflight_cb_data, points into the stack frame of that worker: it is never
\* set while the worker is outside the block that declares cbdata.
CbDataAlive == \A d \in preflight_cb_data : worker[d] \in Frame

\* The thread that still has to tell c of d.
StillToTell(c, d) ==
  \/ main.client = c /\ main.pc = "get_list"
  \/ main.client = c /\ main.pc = "list" /\ d \in main.todo \cup main.left
  \/ \E t \in Threads :
       Announced(t) = d /\ adding[t] = "notify" /\ c \in left[t]

\* No listening client is passed over: send_pkt has run for every visible device
\* unless a thread is on its way to it. (What then becomes of the event is the
\* matter of OutputInOrder and StaleConfined.) start_listen and client_device_add
\* run concurrently without a common mutex; what makes this true is that each
\* publishes its own change (state, visible) before it reads the other's.
NoneMissed ==
  \A c \in Clients, d \in Devices :
    (/\ client[c] = "LISTEN"
     /\ device[d] = "ACTIVE"
     /\ d \in visible
     /\ ~StillToTell(c, d))
    => \E i \in DOMAIN told[c] : told[c][i] = Attached(d)

\* The last thing c was told of d, if anything, is Detached.
LastIsDetached(c, d) ==
  \A i \in DOMAIN told[c] :
    told[c][i] = Attached(d) => \E j \in i+1..Len(told[c]) : told[c][j] = Detached(d)

\* When device_remove lets go of a device that was announced, every listening
\* client has been told of the removal, and told after the announcement: a
\* worker cannot slip an Attached in between client_device_remove and the end
\* of device_remove.
RemovalIsLast ==
  [][\A c \in Clients, d \in Devices :
       device[d] = "DEAD" /\ device'[d] = "GONE" /\ client[c] = "LISTEN"
       => LastIsDetached(c, d)]_vars

\* The circular wait of device_remove (which holds device_list_mutex) and
\* client_device_add (which holds client_list_mutex).
CircularWait ==
  /\ main.pc = "remove_notify"
  /\ \E d \in Devices : client_list_mutex = d /\ adding[d] = "visible"

\* The main thread gets back to ppoll from whatever it does: no other order of
\* locking than the one of CircularWait makes it wait for ever for a mutex.
MainReturns == main.pc # "poll" ~> main.pc = "poll" \/ CircularWait

\* A listener whose buffer was never used by two threads at once receives exactly
\* what the threads reported, in that order: what was sent and what is in the
\* buffer are, together, what send_pkt was given, whatever part of it each send()
\* took and whoever appended between two of them. Of a buffer that is torn nothing
\* is said: an event can be lost, sent twice or cut there.
OutputInOrder == \A c \in Clients \ torn : sent[c] \o ob_buf[c] = told[c]

\* d is announcing itself and has not done with c.
Visits(d, c) == adding[d] = "notify" /\ c \in left[d]

\* Where the main thread uses the buffer of main.client.
Using == {"list", "reply", "send"}

\* Freed memory is met in four windows only: a worker visits a client of which
\* client_close frees the buffers, before it is off client_list; a worker and the
\* main thread use the same buffer and one of them enlarges it; a worker announces
\* a device that has left device_list; client_command closed the client that
\* process_recv goes on with.
StaleStep ==
  \A x \in stale' \ stale :
    \/ /\ x = "ob_buf"
       /\ \E d \in Devices : Visits(d, main.client)
       /\ main'.pc \in Closing
    \/ /\ x = "enlarged"
       /\ \E d \in Devices : Visits(d, main.client) /\ enlarging' \cap {d, Main} # {}
       /\ main'.pc \in Using
    \/ x = "serial" /\ \E d \in Devices : adding[d] = "notify" /\ ~Listed(d)
    \/ x = "client" /\ main.pc = "close_command"

\* A buffer is torn by one worker and the main thread, while the latter serves that
\* very client.
TornStep ==
  \A c \in torn' \ torn :
    /\ \E d \in Devices : Visits(d, c)
    /\ main.client = c /\ main'.pc \in Using \cup Closing

\* Memory that is freed or shared is misused in the windows of StaleStep and
\* TornStep and nowhere else. In particular no client is used by a worker after
\* RemoveClient, no usb_device is freed while its mux_device is listed, two workers
\* never meet in a buffer, and device_remove never meets a worker in one.
StaleConfined == [][StaleStep /\ TornStep]_vars

\* The worker of a device that is gone ends, so its thread and its struct
\* device_info are not kept for ever: preflight_device_remove_cb or the loss of
\* the notification proxy ends the wait. A daemon that has locked up is excepted.
WorkerEnds ==
  \A d \in Devices :
    device[d] = "GONE" ~> worker[d] \in {"none", "done"} \/ CircularWait

-----------------------------------------------------------------------------
(* The inductive invariant behind the theorems of MuxEventsProofs.         *)

Removing == {"remove_notify", "remove_free"}

Serving == {"process", "get_list", "list", "reply", "send"} \cup Closing

\* Who holds which mutex, and what an operation in progress works on.
Locking ==
  /\ device_list_mutex = Main <=> main.pc \in Removing
  /\ \A t \in Threads : client_list_mutex = t <=> adding[t] \in {"visible", "notify"}
  /\ main.pc \in Removing \cup {"add"} => main.dev \in Devices
  /\ main.pc \in Serving => main.client \in Clients
  /\ main.pc # "add" => adding[Main] = "no"
  /\ \A d \in Devices : worker[d] \notin {"adding", "trusting"} => adding[d] = "no"

\* The life of a device: what its state says of its worker and of the threads
\* that announce or remove it.
Living ==
  /\ main.pc = "add" => device[main.dev] = "ACTIVE"
  /\ \A d \in Devices :
       /\ device[d] \in {"NEW", "INIT"} => worker[d] = "none" /\ d \notin visible
       /\ ~Listed(d) => d \notin preflight_cb_data
       /\ device[d] = "DEAD" => main.pc \in Removing /\ main.dev = d
  /\ main.pc = "remove_notify" => device[main.dev] = "DEAD"

\* Between Detached and the end of device_remove nobody announces the device.
Retired ==
  main.pc = "remove_free" /\ device[main.dev] = "DEAD" =>
    /\ \A t \in Threads : ~(adding[t] = "notify" /\ Announced(t) = main.dev)
    /\ \A c \in Clients : client[c] = "LISTEN" => LastIsDetached(c, main.dev)

\* A worker that is about to make its device visible will visit every client.
AllToVisit ==
  \A t \in Threads, c \in Clients :
    adding[t] = "visible" /\ InList(c) => c \in left[t]

\* A thread that is in send_pkt is in the loop that called it, for a client that
\* stays in state LISTEN until it has returned; the client that the main thread
\* serves is in the list.
InPacket ==
  /\ main.pc \in Serving => InList(main.client)
  /\ main.pc \in {"get_list", "list", "reply"} => client[main.client] = "LISTEN"
  /\ main.pc = "reply" => into[Main] = main.client
  /\ enlarging \subseteq {t \in Threads : into[t] # Nobody}
  /\ \A t \in Threads : into[t] # Nobody =>
       \/ adding[t] = "notify" /\ into[t] \in left[t] /\ client[into[t]] = "LISTEN"
       \/ /\ t = Main /\ into[t] = main.client
          /\ \/ main.pc = "list" /\ main.todo = {} /\ main.dev \in main.left
             \/ main.pc = "reply"

\* Threads hold what their place in the code says, a device that is being
\* announced or removed is in a matching state, and the two orders of
\* publishing and reading in start_listen and client_device_add leave no gap.
ThreadsInv ==
  TypeOK /\ Locking /\ Living /\ CbDataAlive /\ NoneMissed /\ AllToVisit /\ Retired

EventsInv == ThreadsInv /\ InPacket

\* Two threads in the same buffer: it is torn.
NoOverlap ==
  \A c \in Clients \ torn, t, u \in Threads : InBuffer(t, c) /\ InBuffer(u, c) => t = u

\* A client whose buffers are freed is off the list, or client_close is about to
\* take it off.
FreedLeaves ==
  \A c \in freed : client[c] = "CLOSED" \/ (main.pc \in Closing /\ main.client = c)

\* What EventsInv says of threads and devices, together with the order of the output
\* and the life of the buffers.
MuxEventsInv == EventsInv /\ OutputInOrder /\ NoOverlap /\ FreedLeaves
=============================================================================
