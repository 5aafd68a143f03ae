------------------------------- MODULE MuxUsb -------------------------------
(***************************************************************************)
(* The USB side of usbmuxd (usb.c): finding devices, the transfers that    *)
(* are under way for each of them, and how a device that failed or left is *)
(* reaped while libusb still calls back.                                   *)
(*                                                                         *)
(* All of it runs in the main thread. Callbacks run while the thread is in *)
(* libusb: in libusb_handle_events_timeout, called by usb_process and by   *)
(* the loop of usb_disconnect, and in the synchronous requests of          *)
(* usb_device_add. libusb and the bus are external: which transfers end,   *)
(* and how, which submissions fail and when devices come and go is free.   *)
(***************************************************************************)
EXTENDS Integers, Sequences, FiniteSets

CONSTANTS
  Addrs,        \* bus and address of a device
  NumRxLoops,   \* NUM_RX_LOOPS: 3
  MaxFailures,  \* 5: failures of libusb_get_device_list in a row
  MaxEvents,    \* bound: hotplug events that libusb has not delivered
  MaxObjs,      \* bound: struct usb_device at a time
  MaxTx         \* bound: TX transfers of a device under way

ASSUME UsbAssumption ==
  /\ Addrs # {}
  /\ {NumRxLoops, MaxFailures, MaxEvents, MaxObjs, MaxTx} \subseteq Nat \ {0}

VARIABLES
  bus,          \* addresses at which a device is plugged in
  hotplug,      \* hotplug events that libusb has not delivered
  mode,         \* "hotplug", "polling" or "manual" (usb_autodiscover(0))
  device_list,  \* the usb_devices; 0: a free slot
  usbdev,       \* the struct usb_device; not allocated unless in device_list
  mux,          \* those that have a mux_device (device.c)
  todo,         \* addresses that usb_discover still has to look at
  devlist_failures,
  broken,       \* libusb_handle_events_timeout has failed in usb_disconnect
  pc            \* where the main thread is

devVars == <<device_list, usbdev, mux>>
scanVars == <<todo, devlist_failures>>
vars == <<bus, hotplug, mode, devVars, scanVars, broken, pc>>

Objs == 1..MaxObjs

\* here: what was opened is still plugged in. Of the RX transfers in rx_xfers, rx
\* are under way, rxc too but cancelled, and rxs were not submitted again; tx TX
\* transfers are under way.
UsbDevice ==
  [addr : Addrs, here : BOOLEAN, alive : BOOLEAN, rx : 0..NumRxLoops,
   rxc : 0..NumRxLoops, rxs : 0..NumRxLoops, tx : 0..MaxTx]

\* at "poll": in ppoll; "events": in libusb_handle_events_timeout; "reap": at slot
\* i of reap_dead_devices; "wait": in the loop of usb_disconnect for slot i;
\* "discover": in usb_discover; "shutdown": at slot i of usb_shutdown. then: what
\* comes after reaping, the rest of usb_process, the end of usb_discover, the
\* loop of usb_process_timeout, or (from "shutdown") the exit.
PC ==
  [at : {"poll", "events", "reap", "wait", "discover", "shutdown", "exit"},
   i : Nat, then : {"process", "discover", "timeout", "exit"}]

Blank ==
  [addr |-> CHOOSE a \in Addrs : TRUE, here |-> FALSE, alive |-> FALSE,
   rx |-> 0, rxc |-> 0, rxs |-> 0, tx |-> 0]

Goto(at, i, then) == pc' = [at |-> at, i |-> i, then |-> then]

Init ==
  /\ bus = {} /\ hotplug = <<>>
  /\ mode \in {"hotplug", "polling", "manual"}
  /\ device_list = <<>> /\ usbdev = [o \in Objs |-> Blank] /\ mux = {}
  /\ todo = {} /\ devlist_failures = 0
  /\ broken = FALSE
  /\ pc = [at |-> "poll", i |-> 0, then |-> "process"]

Listed == {device_list[i] : i \in DOMAIN device_list} \ {0}

InFlight(o) == usbdev[o].rx + usbdev[o].rxc + usbdev[o].tx

\* collection_count(&rx_xfers) + collection_count(&tx_xfers)
Outstanding(o) == InFlight(o) + usbdev[o].rxs

-----------------------------------------------------------------------------
(* Adding devices.                                                           *)

\* collection_add: the first free slot.
Added(o) ==
  IF \E i \in DOMAIN device_list : device_list[i] = 0
    THEN LET i == CHOOSE i \in DOMAIN device_list :
                    /\ device_list[i] = 0
                    /\ \A j \in 1..(i - 1) : device_list[j] # 0
         IN  [device_list EXCEPT ![i] = o]
    ELSE Append(device_list, o)

\* k of the RX loops could be started. The check that k is not 0 tests a loop
\* variable that is 0 in any case.
NewDevice(a, k) ==
  \E o \in Objs :
    /\ o \notin Listed /\ \A p \in 1..(o - 1) : p \in Listed
    /\ usbdev' = [usbdev EXCEPT ![o] = [addr |-> a, here |-> TRUE, alive |-> TRUE, rx |-> k,
                                       rxc |-> 0, rxs |-> 0, tx |-> 1]]
    /\ device_list' = Added(o)
    /\ mux' = mux \cup {o}

At(a) == {o \in Listed : usbdev[o].addr = a}

\* Nothing is left of a device of which a request, or the version request of
\* device_add, fails.
usb_device_add(a) ==
  \/ /\ At(a) # {}
     /\ usbdev' = [o \in Objs |->
                     IF o \in At(a) THEN [usbdev[o] EXCEPT !.alive = TRUE] ELSE usbdev[o]]
     /\ UNCHANGED <<device_list, mux>>
  \/ At(a) = {} /\ UNCHANGED devVars
  \/ At(a) = {} /\ a \in bus /\ \E k \in 0..NumRxLoops : NewDevice(a, k)

-----------------------------------------------------------------------------
(* Callbacks.                                                                *)

\* usb_discover: in the requests to a device that is new.
InLibusb ==
  \/ pc.at \in {"events", "wait"}
  \/ pc.at = "discover" /\ \E a \in todo : At(a) = {}

\* usb_send for a device submits the packet, and an empty transfer after it when
\* its length is a multiple of wMaxPacketSize; either may fail. u is the device
\* before.
usb_send(o, u) ==
  {[u EXCEPT !.tx = u.tx + n] : n \in IF usbdev[o].here THEN {0, 1, 2} ELSE {0}}

Bounded(u) == u.tx <= MaxTx

\* device_data_input may send, and removes a device of an unknown version.
DataInput(o, u) ==
  /\ \/ o \in mux /\ \E v \in usb_send(o, u) : Bounded(v) /\ usbdev' = [usbdev EXCEPT ![o] = v]
     \/ usbdev' = [usbdev EXCEPT ![o] = u]
  /\ mux' \in {mux, mux \ {o}}

\* u with one transfer less: any of those under way.
OneEnded(u) ==
  (IF u.rx > 0 THEN {[u EXCEPT !.rx = @ - 1]} ELSE {}) \cup
  (IF u.rxc > 0 THEN {[u EXCEPT !.rxc = @ - 1]} ELSE {})

\* The result of submitting the transfer again is not looked at.
RxCompleted(o) ==
  \E u \in OneEnded(usbdev[o]) :
    \/ usbdev[o].here /\ DataInput(o, [u EXCEPT !.rx = @ + 1])
    \/ DataInput(o, [u EXCEPT !.rxs = @ + 1])

RxFailed(o) ==
  /\ \E u \in OneEnded(usbdev[o]) :
       usbdev' = [usbdev EXCEPT ![o] = [u EXCEPT !.alive = FALSE]]
  /\ UNCHANGED mux

rx_callback(o) ==
  /\ InLibusb
  /\ RxCompleted(o) \/ RxFailed(o)
  /\ UNCHANGED <<bus, hotplug, mode, device_list, scanVars, broken, pc>>

tx_callback(o) ==
  /\ InLibusb
  /\ usbdev[o].tx > 0
  /\ \E ok \in BOOLEAN :
       usbdev' = [usbdev EXCEPT ![o].tx = @ - 1, ![o].alive = ok /\ @]
  /\ UNCHANGED <<bus, hotplug, mode, device_list, mux, scanVars, broken, pc>>

\* Sends nothing: the connections are torn down after the device was marked.
device_remove(o) == mux' = mux \ {o}

\* Delivered until usb_shutdown deregisters the callback.
usb_hotplug_cb ==
  /\ InLibusb /\ pc.then # "exit"
  /\ hotplug # <<>>
  /\ hotplug' = Tail(hotplug)
  /\ LET a == Head(hotplug).addr
     IN  \/ Head(hotplug).event = "ARRIVED" /\ mode = "hotplug" /\ usb_device_add(a)
         \/ Head(hotplug).event = "ARRIVED" /\ mode = "manual" /\ UNCHANGED devVars
         \/ /\ Head(hotplug).event = "LEFT" /\ At(a) # {}
            /\ \E o \in At(a) :
                 usbdev' = [usbdev EXCEPT ![o].alive = FALSE] /\ device_remove(o)
            /\ UNCHANGED device_list
         \/ Head(hotplug).event = "LEFT" /\ At(a) = {} /\ UNCHANGED devVars
  /\ UNCHANGED <<bus, mode, scanVars, broken, pc>>

-----------------------------------------------------------------------------
(* The main thread.                                                          *)

usb_process ==
  /\ pc.at = "poll"
  /\ Goto("events", 0, "process")
  /\ UNCHANGED <<bus, hotplug, mode, devVars, scanVars, broken>>

\* libusb has no more events, or has failed, which ends the main loop.
EventsDone ==
  /\ pc.at = "events"
  /\ \/ Goto("reap", 1, pc.then)
     \/ pc.then = "process" /\ Goto("events", 0, "timeout")
     \/ pc.then = "timeout" /\ Goto("shutdown", 1, "exit")
  /\ UNCHANGED <<bus, hotplug, mode, devVars, scanVars, broken>>

\* u after all its transfers were cancelled; that of one that is not under way
\* has no effect.
Cancelled(u) == [u EXCEPT !.rx = 0, !.rxc = u.rx + u.rxc]

\* device_remove and the beginning of usb_disconnect.
Reap(o) ==
  /\ device_remove(o)
  /\ usbdev' = [usbdev EXCEPT ![o] = Cancelled(@)]

\* Mutant: a device that has been removed from the mux is passed over.
DeadInMux(i) ==
  device_list[i] # 0 /\ ~usbdev[device_list[i]].alive /\ device_list[i] \in mux

Dead(i) == device_list[i] # 0 /\ ~usbdev[device_list[i]].alive

reap_dead_devices ==
  /\ pc.at = "reap" /\ pc.i \in DOMAIN device_list
  /\ \/ /\ Dead(pc.i)
        /\ Reap(device_list[pc.i])
        /\ Goto("wait", pc.i, pc.then)
     \/ /\ ~Dead(pc.i)
        /\ Goto("reap", pc.i + 1, pc.then)
        /\ UNCHANGED <<usbdev, mux>>
  /\ UNCHANGED <<bus, hotplug, mode, device_list, scanVars, broken>>

\* Mutant: only the RX transfers are waited for.
FinishedRx(o) == usbdev[o].rx + usbdev[o].rxc + usbdev[o].rxs = 0

Finished(o) == Outstanding(o) = 0

\* The end of usb_disconnect: all transfers have ended, or libusb has failed and
\* the transfers are left with a device that is freed; the model ends there.
usb_disconnect ==
  /\ pc.at = "wait"
  /\ LET o == device_list[pc.i]
     IN  \/ /\ Finished(o)
            /\ usbdev' = [usbdev EXCEPT ![o].addr = Blank.addr, ![o].here = FALSE, ![o].alive = FALSE]
            /\ Goto(IF pc.then = "exit" THEN "shutdown" ELSE "reap", pc.i + 1, pc.then)
            /\ UNCHANGED broken
         \/ /\ ~Finished(o)
            /\ broken' = TRUE
            /\ Goto("exit", 0, "exit")
            /\ UNCHANGED usbdev
  /\ device_list' = [device_list EXCEPT ![pc.i] = 0]
  /\ UNCHANGED <<bus, hotplug, mode, mux, scanVars>>

\* The rest of usb_process, of usb_discover and of usb_process_timeout.
ReapDone ==
  /\ pc.at = "reap" /\ pc.i \notin DOMAIN device_list
  /\ \/ pc.then \in {"process", "discover"} /\ Goto("poll", 0, "process")
     \/ pc.then = "timeout" /\ Goto("events", 0, "timeout")
     \/ pc.then = "timeout" /\ Goto("shutdown", 1, "exit")
  /\ UNCHANGED <<bus, hotplug, mode, devVars, scanVars, broken>>

\* Polling, or a signal that interrupts ppoll. Polling: after reaping.
usb_discover ==
  /\ \/ pc.at = "poll"
     \/ /\ pc.at = "reap" /\ pc.i \notin DOMAIN device_list
        /\ pc.then = "process" /\ mode = "polling"
  /\ \/ /\ devlist_failures' = devlist_failures + 1
        /\ IF devlist_failures' > MaxFailures /\ pc.at = "reap"
             THEN Goto("events", 0, "timeout")
             ELSE Goto("poll", 0, "process")
        /\ devlist_failures <= MaxFailures
        /\ UNCHANGED <<todo, usbdev>>
     \/ /\ devlist_failures' = 0
        /\ usbdev' = [o \in Objs |-> IF o \in Listed THEN [usbdev[o] EXCEPT !.alive = FALSE]
                                    ELSE usbdev[o]]
        /\ todo' = bus
        /\ Goto("discover", 0, "discover")
  /\ UNCHANGED <<bus, hotplug, mode, device_list, mux, broken>>

DiscoverAdd ==
  /\ pc.at = "discover"
  /\ \E a \in todo : usb_device_add(a) /\ todo' = todo \ {a}
  /\ UNCHANGED <<bus, hotplug, mode, devlist_failures, broken, pc>>

DiscoverDone ==
  /\ pc.at = "discover" /\ todo = {}
  /\ Goto("reap", 1, "discover")
  /\ UNCHANGED <<bus, hotplug, mode, devVars, scanVars, broken>>

\* A signal ends main_loop; device_kill_connections lets USB send for a while.
Terminate ==
  /\ pc.at = "poll"
  /\ Goto("events", 0, "timeout")
  /\ UNCHANGED <<bus, hotplug, mode, devVars, scanVars, broken>>

usb_shutdown ==
  /\ pc.at = "shutdown"
  /\ \/ /\ pc.i \in DOMAIN device_list /\ device_list[pc.i] # 0
        /\ Reap(device_list[pc.i])
        /\ Goto("wait", pc.i, "exit")
     \/ /\ pc.i \in DOMAIN device_list /\ device_list[pc.i] = 0
        /\ Goto("shutdown", pc.i + 1, "exit")
        /\ UNCHANGED <<usbdev, mux>>
     \/ /\ pc.i \notin DOMAIN device_list
        /\ Goto("exit", 0, "exit")
        /\ UNCHANGED <<usbdev, mux>>
  /\ UNCHANGED <<bus, hotplug, mode, device_list, scanVars, broken>>

-----------------------------------------------------------------------------
(* The bus, and packets that clients cause to be sent.                       *)

Notify(event, a) ==
  \/ mode = "polling" /\ UNCHANGED hotplug
  \/ /\ mode # "polling" /\ Len(hotplug) < MaxEvents
     /\ hotplug' = Append(hotplug, [event |-> event, addr |-> a])

Plug(a) ==
  /\ pc.at # "exit" /\ a \notin bus
  /\ bus' = bus \cup {a}
  /\ Notify("ARRIVED", a)
  /\ UNCHANGED <<mode, devVars, scanVars, broken, pc>>

Unplug(a) ==
  /\ pc.at # "exit" /\ a \in bus
  /\ bus' = bus \ {a}
  /\ usbdev' = [o \in Objs |-> IF o \in At(a)
                                 THEN [usbdev[o] EXCEPT !.here = FALSE] ELSE usbdev[o]]
  /\ Notify("LEFT", a)
  /\ UNCHANGED <<mode, device_list, mux, scanVars, broken, pc>>

send_packet(o) ==
  /\ pc.at = "poll" /\ o \in mux
  /\ \E v \in usb_send(o, usbdev[o]) : Bounded(v) /\ usbdev' = [usbdev EXCEPT ![o] = v]
  /\ UNCHANGED <<bus, hotplug, mode, device_list, mux, scanVars, broken, pc>>

Main ==
  \/ usb_process \/ EventsDone \/ reap_dead_devices \/ usb_disconnect \/ ReapDone
  \/ usb_discover \/ DiscoverAdd \/ DiscoverDone \/ Terminate \/ usb_shutdown

Next ==
  \/ Main
  \/ usb_hotplug_cb
  \/ \E o \in Listed : rx_callback(o) \/ tx_callback(o) \/ send_packet(o)
  \/ \E a \in Addrs : Plug(a) \/ Unplug(a)

Spec == Init /\ [][Next]_vars

-----------------------------------------------------------------------------

\* A transfer that was cancelled, or whose device is gone, calls back.
RxEnds(o) ==
  /\ o \in Listed
  /\ rx_callback(o)
  /\ IF usbdev[o].here THEN usbdev'[o].rxc < usbdev[o].rxc
     ELSE usbdev'[o].rx + usbdev'[o].rxc < usbdev[o].rx + usbdev[o].rxc

TxEnds(o) == o \in Listed /\ tx_callback(o)

\* The timer of polling runs out again and again, and the list can be had.
Poll == pc.at = "reap" /\ usb_discover /\ pc'.at = "discover"

\* The main thread goes on, libusb delivers what has happened, and it is not
\* required that libusb fails or that the daemon is asked to stop. Signals do not
\* interrupt ppoll for ever.
Fairness ==
  /\ SF_vars(usb_process) /\ WF_vars(EventsDone)
  /\ WF_vars(reap_dead_devices) /\ WF_vars(ReapDone)
  /\ WF_vars(usb_disconnect /\ UNCHANGED broken)
  /\ WF_vars(DiscoverAdd) /\ WF_vars(DiscoverDone) /\ WF_vars(usb_shutdown)
  /\ SF_vars(Poll) /\ SF_vars(usb_hotplug_cb)
  /\ SF_vars(ReapDone /\ pc'.at = "shutdown")
  /\ \A o \in Objs : SF_vars(RxEnds(o)) /\ SF_vars(TxEnds(o))

FairSpec == Spec /\ Fairness

-----------------------------------------------------------------------------

TypeOK ==
  /\ bus \subseteq Addrs
  /\ hotplug \in Seq([event : {"ARRIVED", "LEFT"}, addr : Addrs])
  /\ mode \in {"hotplug", "polling", "manual"}
  /\ device_list \in Seq(0..MaxObjs)
  /\ usbdev \in [Objs -> UsbDevice]
  /\ mux \subseteq Objs
  /\ todo \subseteq Addrs
  /\ devlist_failures \in 0..(MaxFailures + 1)
  /\ broken \in BOOLEAN
  /\ pc \in PC

\* usb_disconnect frees a device only when no transfer is left that libusb would
\* call back with it, unless libusb itself has failed; whatever callbacks run
\* while it waits, those that submit transfers again included.
TransfersOwned == \A o \in Objs \ Listed : Outstanding(o) > 0 => broken

\* A mux_device never outlives its usb_device, on none of the ways a device can
\* end: an error, an unplug event, a scan, the shutdown.
MuxBacked == mux \subseteq Listed

\* There is one usb_device for an address, also when a device is added while
\* another one is being reaped, and when events and scans report it twice.
AddressUnique ==
  \A o, p \in Listed : usbdev[o].addr = usbdev[p].addr => o = p

\* Every RX transfer is in one of the three counts.
RxCounted == \A o \in Objs : usbdev[o].rx + usbdev[o].rxc + usbdev[o].rxs <= NumRxLoops

\* A usb_device is in one slot.
SlotsUnique ==
  \A i, j \in DOMAIN device_list : device_list[i] = device_list[j] /\ device_list[i] # 0 => i = j

\* What usb_disconnect waits for is still in the slot and not in the mux any more.
Waiting ==
  pc.at = "wait" =>
    pc.i \in DOMAIN device_list /\ device_list[pc.i] # 0 /\ device_list[pc.i] \notin mux

\* The above is inductive together: the slot at which reap_dead_devices stands stays
\* what it is while callbacks add devices, fail them and submit transfers, so that
\* usb_disconnect frees the device it has waited for, and that one only.
UsbInv ==
  /\ TypeOK /\ TransfersOwned /\ MuxBacked /\ AddressUnique
  /\ RxCounted /\ SlotsUnique /\ Waiting

\* The main thread is in the loop of usb_disconnect for a device that keeps a
\* transfer which nobody has cancelled or which is not under way any more.
Stuck ==
  /\ pc.at = "wait"
  /\ LET u == usbdev[device_list[pc.i]] IN u.rx + u.rxs > 0

\* The device counts as alive and no RX transfer of it is under way that could end
\* with an error. usb_device_add leaves one like that when no RX loop could be
\* started (its test for that never holds), and turns a usb_device into one that it
\* finds at the address of another device, or in a list made before the device left.
Mistaken(o) == usbdev[o].alive /\ usbdev[o].rx + usbdev[o].rxc = 0

\* A usb_device of which the device is gone is freed, unless the daemon ends, or
\* waits for a transfer that could not be submitted again, or mistakes it for a
\* device that is there.
Reaped ==
  \A o \in Objs :
    (o \in Listed /\ ~usbdev[o].here)
      ~> (o \notin Listed \/ Stuck \/ pc.at = "exit" \/ Mistaken(o))
=============================================================================
