---------------------------- MODULE MuxUsbProofs ----------------------------
(***************************************************************************)
(* For any number of addresses, usb_devices, RX loops and transfers: no    *)
(* usb_device is freed under a transfer, no mux_device outlives its        *)
(* usb_device, and there is one usb_device for an address.                 *)
(*                                                                         *)
(* The invariant is UsbInv. Most steps change the records of usb_devices   *)
(* that are listed and neither the list nor their addresses: Pointwise.    *)
(* The others add a device to the first free slot (AddedIs, AddKeeps) or   *)
(* empty the slot that usb_disconnect has waited for.                      *)
(***************************************************************************)
EXTENDS MuxUsb, WellFoundedInduction, TLAPS

\* A set of numbers that is not empty has a least element.
LEMMA LeastSlot ==
  ASSUME NEW S, S \subseteq Nat, S # {}
  PROVE  \E z \in S : \A y \in S : z <= y
<1>1. PICK z \in S : \A y \in S : <<y, z>> \notin OpToRel(<, Nat)
  BY NatLessThanWellFounded, WFMin, Zenon
<1>2. \A y \in S : ~(y < z)
  BY Zenon, <1>1 DEF OpToRel
<1> QED
  BY <1>2

\* Queues of anything.
LEMMA QueueTypes ==
  ASSUME NEW S, NEW q \in Seq(S)
  PROVE  /\ q # <<>> => Head(q) \in S /\ Tail(q) \in Seq(S)
         /\ \A e \in S : Append(q, e) \in Seq(S)
  OBVIOUS

\* The constants, each by itself.
LEMMA Consts ==
  /\ NumRxLoops \in Nat /\ MaxFailures \in Nat /\ MaxObjs \in Nat /\ MaxTx \in Nat
  /\ Blank \in UsbDevice /\ Blank.addr \in Addrs
<1>1. NumRxLoops \in Nat /\ MaxFailures \in Nat /\ MaxObjs \in Nat /\ MaxTx \in Nat
  BY Zenon, UsbAssumption
<1>2. Blank.addr \in Addrs
  BY Zenon, UsbAssumption DEF Blank
<1> QED
  BY <1>1, <1>2 DEF Blank, UsbDevice

\* The RX transfers of a record.
Sum(u) == u.rx + u.rxc + u.rxs

\* What the records of usb_devices do that leaves the invariant alone: they keep
\* their addresses and get no RX transfers, and those that are not listed keep what
\* they have.
Harmless ==
  /\ usbdev' \in [Objs -> UsbDevice]
  /\ \A o \in Objs : usbdev'[o].addr = usbdev[o].addr
  /\ \A o \in Objs : Sum(usbdev'[o]) <= Sum(usbdev[o])
  /\ \A o \in Objs \ Listed : Sum(usbdev'[o]) = Sum(usbdev[o]) /\ usbdev'[o].tx = usbdev[o].tx

\* The slots hold usb_devices.
LEMMA ListedObjs ==
  ASSUME TypeOK PROVE Listed \subseteq Objs
<1>0. device_list \in Seq(0..MaxObjs)
  BY Zenon DEF TypeOK
<1>1. \A i \in DOMAIN device_list : device_list[i] \in 0..MaxObjs
  BY <1>0, Consts
<1> QED
  BY <1>1, Consts DEF Listed, Objs

\* A step that changes only records, harmlessly, and takes devices out of the mux.
LEMMA Pointwise ==
  ASSUME UsbInv, Harmless, device_list' = device_list, mux' \subseteq mux, broken' = broken
  PROVE  /\ TransfersOwned' /\ MuxBacked' /\ AddressUnique' /\ RxCounted' /\ SlotsUnique'
         /\ mux' \subseteq Objs
<1> USE Consts
<1>1. Listed' = Listed
  BY Zenon DEF Listed
<1>2. Listed \subseteq Objs
  BY Zenon, ListedObjs DEF UsbInv
<1>3. MuxBacked' /\ mux' \subseteq Objs
  BY Zenon, <1>1, <1>2 DEF UsbInv, MuxBacked
<1>4. AddressUnique'
  BY <1>1, <1>2 DEF UsbInv, AddressUnique, Harmless
<1>5. RxCounted'
  <2> SUFFICES ASSUME NEW o \in Objs PROVE Sum(usbdev'[o]) <= NumRxLoops
    BY Zenon DEF RxCounted, Sum
  <2>1. usbdev[o] \in UsbDevice /\ usbdev'[o] \in UsbDevice
    BY Zenon DEF UsbInv, TypeOK, Harmless
  <2>2. Sum(usbdev[o]) \in Int /\ Sum(usbdev'[o]) \in Int
    BY <2>1 DEF UsbDevice, Sum
  <2> QED
    BY <2>2 DEF UsbInv, RxCounted, Harmless, Sum
<1>6. SlotsUnique'
  BY Zenon DEF UsbInv, SlotsUnique
<1>7. TransfersOwned'
  <2> SUFFICES ASSUME NEW o \in Objs, o \notin Listed, Outstanding(o)' > 0
               PROVE  broken'
    BY Zenon, <1>1 DEF TransfersOwned
  <2>1. usbdev[o] \in UsbDevice /\ usbdev'[o] \in UsbDevice
    BY Zenon DEF UsbInv, TypeOK, Harmless
  <2>a. Sum(usbdev'[o]) = Sum(usbdev[o]) /\ usbdev'[o].tx = usbdev[o].tx
    BY Zenon DEF Harmless
  <2>b. /\ Outstanding(o) = Sum(usbdev[o]) + usbdev[o].tx
        /\ Outstanding(o)' = Sum(usbdev'[o]) + usbdev'[o].tx
    BY <2>1 DEF Outstanding, InFlight, UsbDevice, Sum
  <2>2. Outstanding(o)' = Outstanding(o)
    BY Zenon, <2>a, <2>b
  <2> QED
    BY Zenon, <2>2 DEF UsbInv, TransfersOwned
<1> QED
  BY Zenon, <1>3, <1>4, <1>5, <1>6, <1>7

\* collection_add puts a device that is not listed into one slot and moves none.
LEMMA AddedIs ==
  ASSUME NEW o \in Objs, o \notin Listed, device_list \in Seq(0..MaxObjs), SlotsUnique,
         device_list' = Added(o)
  PROVE  /\ device_list' \in Seq(0..MaxObjs)
         /\ \A i \in DOMAIN device_list :
              device_list[i] # 0 => i \in DOMAIN device_list' /\ device_list'[i] = device_list[i]
         /\ Listed' = Listed \cup {o}
         /\ SlotsUnique'
<1> USE Consts
<1>o. o \in 0..MaxObjs /\ o # 0
  BY DEF Objs
<1>d. \A i \in DOMAIN device_list : device_list[i] # o
  BY Zenon, <1>o DEF Listed
<1>1. CASE \E i \in DOMAIN device_list : device_list[i] = 0
  <2> DEFINE first(i) == /\ device_list[i] = 0
                         /\ \A j \in 1..(i - 1) : device_list[j] # 0
             k == CHOOSE i \in DOMAIN device_list : first(i)
  <2>1. device_list' = [device_list EXCEPT ![k] = o]
    BY Zenon, <1>1 DEF Added
  <2> HIDE DEF k
  <2>2. \A i \in DOMAIN device_list : i # k => device_list'[i] = device_list[i]
    BY Zenon, <2>1
  <2>3. DOMAIN device_list' = DOMAIN device_list
    BY Zenon, <2>1
  <2>4. CASE \E i \in DOMAIN device_list : first(i)
    <3>1. k \in DOMAIN device_list /\ device_list[k] = 0
      BY Zenon, <2>4 DEF k
    <3>2. device_list'[k] = o
      BY Zenon, <2>1, <3>1
    <3>3. device_list' \in Seq(0..MaxObjs)
      BY <2>1, <3>1, <1>o
    <3>4. Listed' = Listed \cup {o}
      BY Zenon, <2>2, <2>3, <3>1, <3>2, <1>o DEF Listed
    <3>5. SlotsUnique'
      BY <2>2, <2>3, <3>1, <3>2, <1>o, <1>d DEF SlotsUnique
    <3> QED
      BY Zenon, <3>1, <3>3, <3>4, <3>5, <2>2, <2>3
  <2>5. \E i \in DOMAIN device_list : first(i)
    <3> DEFINE Z == {i \in DOMAIN device_list : device_list[i] = 0}
    <3>1. Z # {} /\ Z \subseteq Nat
      BY <1>1
    <3>2. PICK z \in Z : \A y \in Z : z <= y
      BY Zenon, <3>1, LeastSlot
    <3>3. z \in DOMAIN device_list /\ device_list[z] = 0
      BY Zenon, <3>2
    <3>4. ASSUME NEW j \in 1..(z - 1) PROVE device_list[j] # 0
      <4>1. j \in DOMAIN device_list /\ j < z
        BY <3>3
      <4> QED
        BY <4>1, <3>2, <3>3
    <3> QED
      BY Zenon, <3>3, <3>4
  <2> QED
    BY Zenon, <2>4, <2>5
<1>2. CASE ~ \E i \in DOMAIN device_list : device_list[i] = 0
  <2>1. device_list' = Append(device_list, o)
    BY Zenon, <1>2 DEF Added
  <2> DEFINE n == Len(device_list)
  <2>2. /\ DOMAIN device_list = 1..n /\ DOMAIN device_list' = 1..(n + 1) /\ n \in Nat
        /\ \A i \in 1..n : device_list'[i] = device_list[i]
        /\ device_list'[n + 1] = o
        /\ device_list' \in Seq(0..MaxObjs)
    BY <2>1, <1>o
  <2> HIDE DEF n
  <2>3. Listed' = Listed \cup {o}
    <3>1. \A x : (\E i \in 1..(n + 1) : device_list'[i] = x)
                   <=> (\E i \in 1..n : device_list[i] = x) \/ x = o
      BY SMTT(40), <2>2
    <3> QED
      BY SMTT(40), <3>1, <2>2, <1>o DEF Listed
  <2>4. SlotsUnique'
    <3> SUFFICES ASSUME NEW i \in 1..(n + 1), NEW j \in 1..(n + 1),
                        device_list'[i] = device_list'[j], device_list'[i] # 0
                 PROVE  i = j
      BY Zenon, <2>2 DEF SlotsUnique
    <3>1. CASE i \in 1..n /\ j \in 1..n
      BY Zenon, <3>1, <2>2 DEF SlotsUnique
    <3>2. CASE i = n + 1 /\ j \in 1..n
      BY Zenon, <3>2, <2>2, <1>d
    <3>3. CASE j = n + 1 /\ i \in 1..n
      BY Zenon, <3>3, <2>2, <1>d
    <3> QED
      BY <3>1, <3>2, <3>3, <2>2
  <2> QED
    BY <2>2, <2>3, <2>4
<1> QED
  BY Zenon, <1>1, <1>2

\* usb_device_add leaves a device alone, marks it as alive or adds it; what is
\* waited for stays in its slot and outside the mux.
LEMMA AddKeeps ==
  ASSUME UsbInv, NEW a \in Addrs, usb_device_add(a), broken' = broken, pc' = pc
  PROVE  /\ device_list' \in Seq(0..MaxObjs) /\ usbdev' \in [Objs -> UsbDevice] /\ mux' \subseteq Objs
         /\ TransfersOwned' /\ MuxBacked' /\ AddressUnique' /\ RxCounted' /\ SlotsUnique'
         /\ Waiting'
<1> USE Consts
<1>t. /\ device_list \in Seq(0..MaxObjs) /\ usbdev \in [Objs -> UsbDevice] /\ mux \subseteq Objs
      /\ Listed \subseteq Objs
  BY Zenon, ListedObjs DEF UsbInv, TypeOK
<1>1. CASE UNCHANGED <<device_list, mux>> /\ Harmless
  BY Zenon, <1>1, <1>t, Pointwise DEF UsbInv, Waiting, Harmless
<1>s. \A o \in Objs : Sum(usbdev[o]) \in Int
  BY SMTT(40), <1>t DEF UsbDevice, Sum
<1>2. CASE At(a) # {} /\ UNCHANGED <<device_list, mux>>
             /\ usbdev' = [o \in Objs |->
                     IF o \in At(a) THEN [usbdev[o] EXCEPT !.alive = TRUE] ELSE usbdev[o]]
  <2>1. Harmless
    <3>1. ASSUME NEW o \in Objs
          PROVE  /\ usbdev'[o] \in UsbDevice /\ usbdev'[o].addr = usbdev[o].addr
                 /\ Sum(usbdev'[o]) = Sum(usbdev[o]) /\ usbdev'[o].tx = usbdev[o].tx
      BY Zenon, <1>2, <1>t DEF UsbDevice, Sum
    <3> QED
      BY <3>1, <1>2, <1>s DEF Harmless
  <2> QED
    BY Zenon, <2>1, <1>1, <1>2
<1>3. CASE UNCHANGED devVars
  <2>1. Harmless
    BY <1>3, <1>t, <1>s DEF Harmless, devVars
  <2> QED
    BY Zenon, <2>1, <1>1, <1>3 DEF devVars
<1>4. CASE At(a) = {} /\ \E k \in 0..NumRxLoops : NewDevice(a, k)
  <2>k. PICK k \in 0..NumRxLoops : NewDevice(a, k)
    BY Zenon, <1>4
  <2>1. PICK o \in Objs :
          /\ o \notin Listed
          /\ usbdev' = [usbdev EXCEPT ![o] = [addr |-> a, here |-> TRUE, alive |-> TRUE, rx |-> k,
                                              rxc |-> 0, rxs |-> 0, tx |-> 1]]
          /\ device_list' = Added(o)
          /\ mux' = mux \cup {o}
    BY Zenon, <2>k DEF NewDevice
  <2> DEFINE new == [addr |-> a, here |-> TRUE, alive |-> TRUE, rx |-> k,
                     rxc |-> 0, rxs |-> 0, tx |-> 1]
  <2>2. new \in UsbDevice
    <3>1. 1 \in 0..MaxTx /\ 0 \in 0..NumRxLoops
      BY UsbAssumption
    <3> QED
      BY Zenon, <3>1 DEF UsbDevice
  <2>3. usbdev' \in [Objs -> UsbDevice] /\ usbdev'[o] = new
        /\ \A p \in Objs : p # o => usbdev'[p] = usbdev[p]
    BY Zenon, <2>1, <2>2, <1>t
  <2>4. /\ device_list' \in Seq(0..MaxObjs)
        /\ \A i \in DOMAIN device_list :
             device_list[i] # 0 => i \in DOMAIN device_list' /\ device_list'[i] = device_list[i]
        /\ Listed' = Listed \cup {o}
        /\ SlotsUnique'
    BY Zenon, <2>1, <1>t, AddedIs DEF UsbInv
  <2>5. mux' \subseteq Objs /\ MuxBacked'
    BY Zenon, <2>1, <2>4, <1>t DEF UsbInv, MuxBacked
  <2>6. RxCounted'
    <3>1. new.rx + new.rxc + new.rxs <= NumRxLoops
      OBVIOUS
    <3> QED
      BY Zenon, <3>1, <2>3 DEF UsbInv, RxCounted
  <2>7. AddressUnique'
    <3>1. \A p \in Listed : usbdev[p].addr # a
      BY Zenon, <1>4 DEF At
    <3>2. new.addr = a
      BY Zenon
    <3> QED
      BY <3>1, <3>2, <2>1, <2>3, <2>4, <1>t DEF UsbInv, AddressUnique
  <2>8. TransfersOwned'
    <3> SUFFICES ASSUME NEW p \in Objs \ Listed', Outstanding(p)' > 0
                 PROVE  broken'
      BY Zenon DEF TransfersOwned
    <3>1. p \notin Listed /\ usbdev'[p] = usbdev[p]
      BY Zenon, <2>3, <2>4
    <3>2. Outstanding(p)' = Outstanding(p)
      BY Zenon, <3>1 DEF Outstanding, InFlight
    <3> QED
      BY Zenon, <3>1, <3>2 DEF UsbInv, TransfersOwned
  <2>9. Waiting'
    <3> SUFFICES ASSUME pc.at = "wait"
                 PROVE  pc.i \in DOMAIN device_list' /\ device_list'[pc.i] # 0
                        /\ device_list'[pc.i] \notin mux'
      BY Zenon DEF Waiting
    <3>1. pc.i \in DOMAIN device_list /\ device_list[pc.i] # 0 /\ device_list[pc.i] \notin mux
      BY Zenon DEF UsbInv, Waiting
    <3>2. device_list[pc.i] \in Listed
      BY Zenon, <3>1 DEF Listed
    <3> QED
      BY Zenon, <3>1, <3>2, <2>1, <2>4
  <2> QED
    BY Zenon, <2>3, <2>4, <2>5, <2>6, <2>7, <2>8, <2>9
<1> QED
  BY Zenon, <1>2, <1>3, <1>4 DEF usb_device_add
\* A new record for a usb_device that is listed.
LEMMA OneRecord ==
  ASSUME UsbInv, NEW o \in Listed, NEW u \in UsbDevice,
         u.addr = usbdev[o].addr, Sum(u) <= Sum(usbdev[o]),
         usbdev' = [usbdev EXCEPT ![o] = u]
  PROVE  Harmless
<1>1. o \in Objs /\ usbdev \in [Objs -> UsbDevice]
  BY Zenon, ListedObjs DEF UsbInv, TypeOK
<1>2. usbdev' \in [Objs -> UsbDevice] /\ usbdev'[o] = u
      /\ \A p \in Objs : p # o => usbdev'[p] = usbdev[p]
  BY Zenon, <1>1
<1>3. \A p \in Objs : Sum(usbdev[p]) \in Int
  BY <1>1, Consts DEF UsbDevice, Sum
<1>4. \A p \in Objs : Sum(usbdev'[p]) <= Sum(usbdev[p])
  BY <1>2, <1>3
<1> QED
  BY Zenon, <1>1, <1>2, <1>4 DEF Harmless

\* A record of which one transfer has ended has room for it.
LEMMA EndedHasRoom ==
  ASSUME NEW w \in UsbDevice, Sum(w) <= NumRxLoops, NEW u \in OneEnded(w)
  PROVE  /\ u \in UsbDevice /\ u.addr = w.addr
         /\ Sum(u) = Sum(w) - 1
         /\ [u EXCEPT !.rx = @ + 1] \in UsbDevice /\ [u EXCEPT !.rxs = @ + 1] \in UsbDevice
<1> USE Consts
<1>1. /\ w = [addr |-> w.addr, here |-> w.here, alive |-> w.alive, rx |-> w.rx,
              rxc |-> w.rxc, rxs |-> w.rxs, tx |-> w.tx]
      /\ w.rx \in 0..NumRxLoops /\ w.rxc \in 0..NumRxLoops /\ w.rxs \in 0..NumRxLoops
      /\ w.addr \in Addrs /\ w.here \in BOOLEAN /\ w.alive \in BOOLEAN /\ w.tx \in 0..MaxTx
  BY Zenon DEF UsbDevice
<1>2. CASE w.rx > 0 /\ u = [w EXCEPT !.rx = @ - 1]
  <2>1. /\ u.rx = w.rx - 1 /\ u.rxc = w.rxc /\ u.rxs = w.rxs /\ u.addr = w.addr
        /\ u \in UsbDevice
    BY <1>1, <1>2 DEF UsbDevice
  <2>2. u.rx + 1 \in 0..NumRxLoops /\ u.rxs + 1 \in 0..NumRxLoops
    BY <1>1, <1>2, <2>1 DEF Sum
  <2>3. [u EXCEPT !.rx = @ + 1] \in UsbDevice /\ [u EXCEPT !.rxs = @ + 1] \in UsbDevice
    BY Zenon, <2>1, <2>2 DEF UsbDevice
  <2> QED
    BY <1>1, <2>1, <2>3 DEF Sum
<1>3. CASE w.rxc > 0 /\ u = [w EXCEPT !.rxc = @ - 1]
  <2>1. /\ u.rx = w.rx /\ u.rxc = w.rxc - 1 /\ u.rxs = w.rxs /\ u.addr = w.addr
        /\ u \in UsbDevice
    BY <1>1, <1>3 DEF UsbDevice
  <2>2. u.rx + 1 \in 0..NumRxLoops /\ u.rxs + 1 \in 0..NumRxLoops
    BY <1>1, <1>3, <2>1 DEF Sum
  <2>3. [u EXCEPT !.rx = @ + 1] \in UsbDevice /\ [u EXCEPT !.rxs = @ + 1] \in UsbDevice
    BY Zenon, <2>1, <2>2 DEF UsbDevice
  <2> QED
    BY <1>1, <2>1, <2>3 DEF Sum
<1> QED
  BY Zenon, <1>2, <1>3 DEF OneEnded

\* device_data_input with the record that rx_callback has made.
LEMMA DataInputHarmless ==
  ASSUME UsbInv, NEW o \in Listed, NEW u \in UsbDevice,
         u.addr = usbdev[o].addr, Sum(u) = Sum(usbdev[o]), DataInput(o, u)
  PROVE  Harmless /\ mux' \subseteq mux
<1>0. Sum(u) \in Int /\ Sum(u) <= Sum(usbdev[o])
  BY Consts DEF UsbDevice, Sum
<1>m. mux' \subseteq mux
  BY Zenon DEF DataInput
<1>1. CASE usbdev' = [usbdev EXCEPT ![o] = u]
  BY Zenon, <1>0, <1>1, <1>m, OneRecord
<1>2. CASE \E v \in usb_send(o, u) : Bounded(v) /\ usbdev' = [usbdev EXCEPT ![o] = v]
  <2>1. PICK v \in usb_send(o, u) : Bounded(v) /\ usbdev' = [usbdev EXCEPT ![o] = v]
    BY Zenon, <1>2
  <2>2. v \in UsbDevice /\ v.addr = u.addr /\ Sum(v) = Sum(u)
    BY <2>1, Consts DEF usb_send, Bounded, UsbDevice, Sum
  <2> QED
    BY Zenon, <1>0, <1>m, <2>1, <2>2, OneRecord
<1> QED
  BY Zenon, <1>1, <1>2 DEF DataInput

\* A transfer that failed is freed and not submitted again; another one may be.
LEMMA RxHarmless ==
  ASSUME UsbInv, NEW o \in Listed, rx_callback(o)
  PROVE  Harmless /\ mux' \subseteq mux
<1>1. usbdev[o] \in UsbDevice /\ Sum(usbdev[o]) <= NumRxLoops
  BY Zenon, ListedObjs DEF UsbInv, TypeOK, RxCounted, Sum
<1>2. CASE RxCompleted(o)
  <2>1. PICK u \in OneEnded(usbdev[o]) :
          DataInput(o, [u EXCEPT !.rx = @ + 1]) \/ DataInput(o, [u EXCEPT !.rxs = @ + 1])
    BY Zenon, <1>2 DEF RxCompleted
  <2> DEFINE v == [u EXCEPT !.rx = @ + 1]
             w == [u EXCEPT !.rxs = @ + 1]
  <2>2. /\ u \in UsbDevice /\ u.addr = usbdev[o].addr /\ Sum(u) = Sum(usbdev[o]) - 1
        /\ v \in UsbDevice /\ w \in UsbDevice
    BY Zenon, <1>1, EndedHasRoom
  <2>3. v.addr = u.addr /\ Sum(v) = Sum(u) + 1 /\ w.addr = u.addr /\ Sum(w) = Sum(u) + 1
    BY <2>2, Consts DEF UsbDevice, Sum
  <2>4. Sum(usbdev[o]) \in Int
    BY <1>1, Consts DEF UsbDevice, Sum
  <2>5. Sum(v) = Sum(usbdev[o]) /\ Sum(w) = Sum(usbdev[o])
    BY <2>2, <2>3, <2>4
  <2> HIDE DEF v, w
  <2> QED
    BY Zenon, <2>1, <2>2, <2>3, <2>5, DataInputHarmless DEF v, w
<1>3. CASE RxFailed(o)
  <2>1. PICK u \in OneEnded(usbdev[o]) :
          usbdev' = [usbdev EXCEPT ![o] = [u EXCEPT !.alive = FALSE]]
    BY Zenon, <1>3 DEF RxFailed
  <2> DEFINE v == [u EXCEPT !.alive = FALSE]
  <2>2. u \in UsbDevice /\ u.addr = usbdev[o].addr /\ Sum(u) = Sum(usbdev[o]) - 1
    BY Zenon, <1>1, EndedHasRoom
  <2>3. v \in UsbDevice /\ v.addr = u.addr /\ Sum(v) = Sum(u)
    BY Zenon, <2>2, Consts DEF UsbDevice, Sum
  <2>4. Sum(usbdev[o]) \in Int
    BY <1>1, Consts DEF UsbDevice, Sum
  <2>5. Sum(v) <= Sum(usbdev[o])
    BY <2>2, <2>3, <2>4
  <2> HIDE DEF v
  <2>6. usbdev' = [usbdev EXCEPT ![o] = v]
    BY Zenon, <2>1 DEF v
  <2> QED
    BY Zenon, <2>2, <2>3, <2>5, <2>6, <1>3, OneRecord DEF RxFailed
<1> QED
  BY Zenon, <1>2, <1>3 DEF rx_callback
\* tx_callback counts the transfer as ended and may mark the device.
LEMMA TxHarmless ==
  ASSUME UsbInv, NEW o \in Listed, tx_callback(o)
  PROVE  Harmless
<1>1. o \in Objs /\ usbdev \in [Objs -> UsbDevice] /\ usbdev[o] \in UsbDevice
  BY Zenon, ListedObjs DEF UsbInv, TypeOK
<1>2. PICK ok \in BOOLEAN : usbdev' = [usbdev EXCEPT ![o].tx = @ - 1, ![o].alive = ok /\ @]
  BY Zenon DEF tx_callback
<1> DEFINE u == [usbdev[o] EXCEPT !.tx = @ - 1, !.alive = ok /\ @]
<1>3. usbdev' = [usbdev EXCEPT ![o] = u]
  BY <1>1, <1>2, Zenon
<1>4. usbdev[o].tx - 1 \in 0..MaxTx
  BY <1>1, Consts DEF UsbDevice, tx_callback
<1>5. u \in UsbDevice /\ u.addr = usbdev[o].addr /\ Sum(u) = Sum(usbdev[o])
  BY Zenon, <1>1, <1>4 DEF UsbDevice, Sum
<1>6. Sum(usbdev[o]) \in Int
  BY <1>1, Consts DEF UsbDevice, Sum
<1>7. Sum(u) <= Sum(usbdev[o])
  BY <1>5, <1>6
<1> HIDE DEF u
<1> QED
  BY Zenon, <1>3, <1>5, <1>7, OneRecord

\* usb_send adds TX transfers of a device that is listed.
LEMMA SendHarmless ==
  ASSUME UsbInv, NEW o \in Listed, send_packet(o)
  PROVE  Harmless
<1>1. usbdev[o] \in UsbDevice
  BY Zenon, ListedObjs DEF UsbInv, TypeOK
<1>2. PICK v \in usb_send(o, usbdev[o]) : Bounded(v) /\ usbdev' = [usbdev EXCEPT ![o] = v]
  BY Zenon DEF send_packet
<1>3. v \in UsbDevice /\ v.addr = usbdev[o].addr /\ Sum(v) = Sum(usbdev[o])
  BY <1>1, <1>2, Consts DEF usb_send, Bounded, UsbDevice, Sum
<1>4. Sum(usbdev[o]) \in Int
  BY <1>1, Consts DEF UsbDevice, Sum
<1>5. Sum(v) <= Sum(usbdev[o])
  BY <1>3, <1>4
<1> QED
  BY Zenon, <1>2, <1>3, <1>5, OneRecord

\* Cancelled transfers are still counted.
LEMMA ReapHarmless ==
  ASSUME UsbInv, NEW o \in Listed, Reap(o)
  PROVE  Harmless /\ mux' = mux \ {o}
<1> USE Consts
<1>1. usbdev[o] \in UsbDevice /\ Sum(usbdev[o]) <= NumRxLoops
  BY Zenon, ListedObjs DEF UsbInv, TypeOK, RxCounted, Sum
<1> DEFINE u == Cancelled(usbdev[o])
<1>2. usbdev' = [usbdev EXCEPT ![o] = u] /\ mux' = mux \ {o}
  BY Zenon DEF Reap, device_remove
<1>3. usbdev[o].rx + usbdev[o].rxc \in 0..NumRxLoops
  BY <1>1 DEF UsbDevice, Sum
<1>4. u \in UsbDevice /\ u.addr = usbdev[o].addr
  <2>1. 0 \in 0..NumRxLoops
    OBVIOUS
  <2>2. \A w \in UsbDevice, x, y \in 0..NumRxLoops :
          [w EXCEPT !.rx = x, !.rxc = y] \in UsbDevice
          /\ [w EXCEPT !.rx = x, !.rxc = y].addr = w.addr
    BY Zenon DEF UsbDevice
  <2> QED
    BY Zenon, <1>1, <1>3, <2>1, <2>2 DEF Cancelled
<1>5. u.rx = 0 /\ u.rxc = usbdev[o].rx + usbdev[o].rxc /\ u.rxs = usbdev[o].rxs
  BY Zenon, <1>1 DEF UsbDevice, Cancelled
<1>6. Sum(u) <= Sum(usbdev[o])
  BY <1>1, <1>5 DEF UsbDevice, Sum
<1> HIDE DEF u
<1> QED
  BY Zenon, <1>2, <1>4, <1>6, OneRecord

\* Records of which only here or alive changes.
LEMMA FlagsHarmless ==
  ASSUME UsbInv, usbdev' \in [Objs -> UsbDevice],
         \A o \in Objs : /\ usbdev'[o].addr = usbdev[o].addr /\ usbdev'[o].rx = usbdev[o].rx
                         /\ usbdev'[o].rxc = usbdev[o].rxc /\ usbdev'[o].rxs = usbdev[o].rxs
                         /\ usbdev'[o].tx = usbdev[o].tx
  PROVE  Harmless
<1>1. \A o \in Objs : Sum(usbdev[o]) \in Int
  BY SMTT(40), Consts DEF UsbInv, TypeOK, UsbDevice, Sum
<1> QED
  BY <1>1 DEF Harmless, Sum
\* What is left to show of a step that is harmless and does not move the slots.
LEMMA Calm ==
  ASSUME UsbInv, Harmless, device_list' = device_list, mux' \subseteq mux, broken' = broken,
         bus' \subseteq Addrs, hotplug' \in Seq([event : {"ARRIVED", "LEFT"}, addr : Addrs]),
         mode' = mode, todo' \subseteq Addrs, devlist_failures' \in 0..(MaxFailures + 1), pc' \in PC,
         pc' = pc \/ pc'.at # "wait"
  PROVE  UsbInv'
<1>1. /\ TransfersOwned' /\ MuxBacked' /\ AddressUnique' /\ RxCounted' /\ SlotsUnique'
      /\ mux' \subseteq Objs
  BY Zenon, Pointwise
<1>2. TypeOK'
  BY Zenon, <1>1 DEF UsbInv, TypeOK, Harmless
<1>3. Waiting'
  BY Zenon DEF UsbInv, Waiting
<1> QED
  BY Zenon, <1>1, <1>2, <1>3 DEF UsbInv

\* The records do not change.
LEMMA SameHarmless ==
  ASSUME UsbInv, usbdev' = usbdev PROVE Harmless
<1>1. usbdev \in [Objs -> UsbDevice]
  BY Zenon DEF UsbInv, TypeOK
<1> QED
  BY Zenon, <1>1, FlagsHarmless

\* There is no device at first.
LEMMA UsbInit ==
  ASSUME Init PROVE UsbInv
<1> USE Consts
<1>1. Listed = {} /\ device_list = <<>> /\ usbdev = [o \in Objs |-> Blank]
  BY DEF Init, Listed
<1>2. TypeOK
  <2>1. device_list \in Seq(0..MaxObjs) /\ usbdev \in [Objs -> UsbDevice]
    BY <1>1
  <2>2. hotplug \in Seq([event : {"ARRIVED", "LEFT"}, addr : Addrs])
    BY DEF Init
  <2>3. pc \in PC
    BY Zenon DEF Init, PC
  <2>4. broken \in BOOLEAN /\ mode \in {"hotplug", "polling", "manual"}
    BY Zenon DEF Init
  <2>5. devlist_failures \in 0..(MaxFailures + 1)
    BY DEF Init
  <2>6. bus \subseteq Addrs /\ mux \subseteq Objs /\ todo \subseteq Addrs
    BY Zenon DEF Init
  <2> QED
    BY Zenon, <2>1, <2>2, <2>3, <2>4, <2>5, <2>6 DEF TypeOK
<1>3. \A o \in Objs : Outstanding(o) = 0 /\ usbdev[o].rx + usbdev[o].rxc + usbdev[o].rxs = 0
  BY <1>1 DEF Outstanding, InFlight, Blank
<1>4. TransfersOwned /\ RxCounted
  BY <1>3 DEF TransfersOwned, RxCounted
<1>5. MuxBacked /\ AddressUnique /\ SlotsUnique /\ Waiting
  BY <1>1 DEF Init, MuxBacked, AddressUnique, SlotsUnique, Waiting
<1> QED
  BY Zenon, <1>2, <1>4, <1>5 DEF UsbInv

\* Reaping puts the main thread into the wait for a device that has left the mux.
LEMMA ReapKeeps ==
  ASSUME UsbInv, NEW i \in DOMAIN device_list, device_list[i] # 0, Reap(device_list[i]),
         NEW then \in {"process", "discover", "timeout", "exit"}, Goto("wait", i, then),
         UNCHANGED <<bus, hotplug, mode, device_list, scanVars, broken>>
  PROVE  UsbInv'
<1> DEFINE o == device_list[i]
<1>1. o \in Listed
  BY Zenon DEF Listed
<1>2. Harmless /\ mux' = mux \ {o}
  BY Zenon, <1>1, ReapHarmless
<1>3. /\ TransfersOwned' /\ MuxBacked' /\ AddressUnique' /\ RxCounted' /\ SlotsUnique'
      /\ mux' \subseteq Objs
  BY Zenon, <1>2, Pointwise
<1>4. i \in Nat
  BY DEF UsbInv, TypeOK
<1>5. pc' \in PC
  BY Zenon, <1>4 DEF Goto, PC
<1>6. TypeOK'
  BY Zenon, <1>2, <1>3, <1>5 DEF UsbInv, TypeOK, Harmless, scanVars
<1>7. Waiting'
  BY Zenon, <1>2 DEF Goto, Waiting
<1> QED
  BY Zenon, <1>3, <1>6, <1>7 DEF UsbInv

\* usb_disconnect frees the device in its slot, and no other usb_device.
LEMMA DisconnectKeeps ==
  ASSUME UsbInv, usb_disconnect
  PROVE  UsbInv'
<1> USE Consts
<1> DEFINE o == device_list[pc.i]
<1>1. /\ pc.at = "wait" /\ pc.i \in DOMAIN device_list /\ o # 0 /\ o \notin mux
      /\ device_list \in Seq(0..MaxObjs) /\ usbdev \in [Objs -> UsbDevice]
      /\ pc \in PC /\ pc.i \in Nat /\ mux \subseteq Objs
  BY SMTT(40) DEF UsbInv, TypeOK, Waiting, usb_disconnect
<1>2. o \in Listed /\ Listed \subseteq Objs /\ o \in Objs
  BY Zenon, <1>1, ListedObjs DEF Listed, UsbInv
<1>3. /\ device_list' \in Seq(0..MaxObjs) /\ DOMAIN device_list' = DOMAIN device_list
      /\ device_list'[pc.i] = 0
      /\ \A j \in DOMAIN device_list : j # pc.i => device_list'[j] = device_list[j]
  <2>1. device_list' = [device_list EXCEPT ![pc.i] = 0] /\ 0 \in 0..MaxObjs
    BY DEF usb_disconnect
  <2> QED
    BY <2>1, <1>1
<1>4. Listed' = Listed \ {o}
  <2>1. \A j \in DOMAIN device_list : j # pc.i => device_list[j] # o
    BY Zenon, <1>1 DEF UsbInv, SlotsUnique
  <2> HIDE DEF o
  <2> QED
    BY SMTT(40), <1>1, <1>3, <2>1 DEF Listed, o
<1>5. SlotsUnique'
  BY SMTT(40), <1>1, <1>3 DEF UsbInv, SlotsUnique
<1>6. MuxBacked'
  BY Zenon, <1>1, <1>4 DEF usb_disconnect, UsbInv, MuxBacked
<1>7. CASE /\ Finished(o)
           /\ usbdev' = [usbdev EXCEPT ![o].addr = Blank.addr, ![o].here = FALSE, ![o].alive = FALSE]
           /\ Goto(IF pc.then = "exit" THEN "shutdown" ELSE "reap", pc.i + 1, pc.then)
           /\ UNCHANGED broken
  <2> DEFINE u == [usbdev[o] EXCEPT !.addr = Blank.addr, !.here = FALSE, !.alive = FALSE]
  <2>1. usbdev' = [usbdev EXCEPT ![o] = u]
    BY <1>1, <1>2, <1>7, Zenon
  <2>2. /\ u \in UsbDevice /\ u.rx = usbdev[o].rx /\ u.rxc = usbdev[o].rxc
        /\ u.rxs = usbdev[o].rxs /\ u.tx = usbdev[o].tx
    BY Zenon, <1>1, <1>2 DEF UsbDevice
  <2> HIDE DEF u
  <2>3. /\ usbdev' \in [Objs -> UsbDevice] /\ usbdev'[o] = u
        /\ \A p \in Objs : p # o => usbdev'[p] = usbdev[p]
    BY Zenon, <2>1, <2>2, <1>1, <1>2
  <2>4. RxCounted'
    BY Zenon, <2>2, <2>3 DEF UsbInv, RxCounted
  <2>5. AddressUnique'
    BY <2>3, <1>2, <1>4 DEF UsbInv, AddressUnique
  <2>6. TransfersOwned'
    <3> SUFFICES ASSUME NEW p \in Objs \ Listed', Outstanding(p)' > 0 PROVE broken'
      BY Zenon DEF TransfersOwned
    <3>1. CASE p = o
      <4>1. Outstanding(p)' = Outstanding(o)
        BY Zenon, <3>1, <2>2, <2>3 DEF Outstanding, InFlight
      <4>2. Outstanding(o) = 0
        BY Zenon, <1>7 DEF Finished
      <4> QED
        BY SMTT(40), <4>1, <4>2
    <3>2. CASE p # o
      <4>1. p \notin Listed /\ Outstanding(p)' = Outstanding(p)
        BY Zenon, <3>2, <2>3, <1>4 DEF Outstanding, InFlight
      <4> QED
        BY Zenon, <4>1, <1>7 DEF UsbInv, TransfersOwned
    <3> QED
      BY Zenon, <3>1, <3>2
  <2>7. pc' \in PC /\ pc'.at # "wait"
    BY <1>1, <1>7 DEF Goto, PC
  <2>8. TypeOK' /\ Waiting'
    BY Zenon, <2>3, <2>7, <1>3, <1>7 DEF UsbInv, TypeOK, Waiting, usb_disconnect, scanVars
  <2> QED
    BY Zenon, <2>4, <2>5, <2>6, <2>8, <1>5, <1>6 DEF UsbInv
<1>8. CASE broken' = TRUE /\ Goto("exit", 0, "exit") /\ UNCHANGED usbdev
  <2>1. RxCounted' /\ AddressUnique' /\ TransfersOwned'
    BY Zenon, <1>4, <1>8 DEF UsbInv, RxCounted, AddressUnique, TransfersOwned
  <2>2. pc' \in PC /\ pc'.at # "wait"
    BY Zenon, <1>8 DEF Goto, PC
  <2>3. TypeOK' /\ Waiting'
    BY Zenon, <2>2, <1>3, <1>8 DEF UsbInv, TypeOK, Waiting, usb_disconnect, scanVars
  <2> QED
    BY Zenon, <2>1, <2>3, <1>5, <1>6 DEF UsbInv
<1> QED
  BY Zenon, <1>7, <1>8 DEF usb_disconnect
\* One step per action.
LEMMA UsbStep ==
  ASSUME UsbInv, [Next]_vars PROVE UsbInv'
<1> USE Consts
<1>t. /\ bus \subseteq Addrs /\ hotplug \in Seq([event : {"ARRIVED", "LEFT"}, addr : Addrs])
      /\ todo \subseteq Addrs /\ devlist_failures \in 0..(MaxFailures + 1) /\ pc \in PC
      /\ usbdev \in [Objs -> UsbDevice] /\ Listed \subseteq Objs /\ pc.i \in Nat
      /\ pc.then \in {"process", "discover", "timeout", "exit"}
  BY Zenon, ListedObjs DEF UsbInv, TypeOK, PC
<1>g. ASSUME NEW at \in {"poll", "events", "reap", "discover", "shutdown", "exit"},
             NEW i \in Nat, NEW then \in {"process", "discover", "timeout", "exit"},
             Goto(at, i, then)
      PROVE  pc' \in PC /\ pc'.at # "wait"
  BY Zenon, <1>g DEF Goto, PC
<1>1. CASE usb_process
  <2>1. pc' \in PC /\ pc'.at # "wait"
    BY Zenon, <1>1, <1>g DEF usb_process
  <2> QED
    BY Zenon, <1>1, <1>t, <2>1, SameHarmless, Calm DEF usb_process, devVars, scanVars
<1>2. CASE EventsDone
  <2>1. pc' \in PC /\ pc'.at # "wait"
    BY Zenon, <1>2, <1>t, <1>g DEF EventsDone
  <2> QED
    BY Zenon, <1>2, <1>t, <2>1, SameHarmless, Calm DEF EventsDone, devVars, scanVars
<1>3. CASE reap_dead_devices
  <2>1. CASE Dead(pc.i) /\ Reap(device_list[pc.i]) /\ Goto("wait", pc.i, pc.then)
    BY Zenon, <1>3, <1>t, <2>1, ReapKeeps DEF reap_dead_devices, Dead
  <2>2. CASE Goto("reap", pc.i + 1, pc.then) /\ UNCHANGED <<usbdev, mux>>
    <3>1. pc' \in PC /\ pc'.at # "wait"
      BY <2>2, <1>t, <1>g
    <3> QED
      BY Zenon, <1>3, <2>2, <1>t, <3>1, SameHarmless, Calm DEF reap_dead_devices, scanVars
  <2> QED
    BY Zenon, <1>3, <2>1, <2>2 DEF reap_dead_devices
<1>4. CASE usb_disconnect
  BY Zenon, <1>4, DisconnectKeeps
<1>5. CASE ReapDone
  <2>1. pc' \in PC /\ pc'.at # "wait"
    BY Zenon, <1>5, <1>g DEF ReapDone
  <2> QED
    BY Zenon, <1>5, <1>t, <2>1, SameHarmless, Calm DEF ReapDone, devVars, scanVars
<1>6. CASE usb_discover
  <2>u. UNCHANGED <<bus, hotplug, mode, device_list, mux, broken>>
    BY Zenon, <1>6 DEF usb_discover
  <2>1. CASE /\ devlist_failures' = devlist_failures + 1 /\ devlist_failures <= MaxFailures
             /\ IF devlist_failures' > MaxFailures /\ pc.at = "reap"
                  THEN Goto("events", 0, "timeout") ELSE Goto("poll", 0, "process")
             /\ UNCHANGED <<todo, usbdev>>
    <3>1. pc' \in PC /\ pc'.at # "wait"
      BY Zenon, <2>1, <1>g
    <3>2. devlist_failures' \in 0..(MaxFailures + 1)
      BY <2>1, <1>t
    <3> QED
      BY Zenon, <2>1, <2>u, <1>t, <3>1, <3>2, SameHarmless, Calm
  <2>2. CASE /\ devlist_failures' = 0 /\ todo' = bus /\ Goto("discover", 0, "discover")
             /\ usbdev' = [o \in Objs |-> IF o \in Listed THEN [usbdev[o] EXCEPT !.alive = FALSE]
                                           ELSE usbdev[o]]
    <3>1. pc' \in PC /\ pc'.at # "wait"
      BY Zenon, <2>2, <1>g
    <3>2. Harmless
      <4>1. ASSUME NEW o \in Objs
            PROVE  /\ usbdev'[o] \in UsbDevice
                   /\ usbdev'[o].addr = usbdev[o].addr /\ usbdev'[o].rx = usbdev[o].rx
                   /\ usbdev'[o].rxc = usbdev[o].rxc /\ usbdev'[o].rxs = usbdev[o].rxs
                   /\ usbdev'[o].tx = usbdev[o].tx
        BY Zenon, <2>2, <1>t DEF UsbDevice
      <4>2. usbdev' \in [Objs -> UsbDevice]
        BY Zenon, <2>2, <4>1
      <4> QED
        BY Zenon, <4>1, <4>2, FlagsHarmless
    <3>3. devlist_failures' \in 0..(MaxFailures + 1)
      BY <2>2
    <3> QED
      BY Zenon, <2>2, <2>u, <1>t, <3>1, <3>2, <3>3, Calm
  <2> QED
    BY Zenon, <1>6, <2>1, <2>2 DEF usb_discover
<1>7. CASE DiscoverAdd
  <2>1. PICK a \in todo : usb_device_add(a) /\ todo' = todo \ {a}
    BY Zenon, <1>7 DEF DiscoverAdd
  <2>2. a \in Addrs /\ UNCHANGED <<bus, hotplug, mode, devlist_failures, broken, pc>>
    BY Zenon, <1>7, <1>t DEF DiscoverAdd
  <2>3. /\ device_list' \in Seq(0..MaxObjs) /\ usbdev' \in [Objs -> UsbDevice] /\ mux' \subseteq Objs
        /\ TransfersOwned' /\ MuxBacked' /\ AddressUnique' /\ RxCounted' /\ SlotsUnique'
        /\ Waiting'
    BY Zenon, <2>1, <2>2, AddKeeps
  <2>4. TypeOK'
    BY Zenon, <2>1, <2>2, <2>3, <1>t DEF UsbInv, TypeOK
  <2> QED
    BY Zenon, <2>3, <2>4 DEF UsbInv
<1>8. CASE DiscoverDone
  <2>1. pc' \in PC /\ pc'.at # "wait"
    BY Zenon, <1>8, <1>g DEF DiscoverDone
  <2> QED
    BY Zenon, <1>8, <1>t, <2>1, SameHarmless, Calm DEF DiscoverDone, devVars, scanVars
<1>9. CASE Terminate
  <2>1. pc' \in PC /\ pc'.at # "wait"
    BY Zenon, <1>9, <1>g DEF Terminate
  <2> QED
    BY Zenon, <1>9, <1>t, <2>1, SameHarmless, Calm DEF Terminate, devVars, scanVars
<1>10. CASE usb_shutdown
  <2>1. CASE /\ pc.i \in DOMAIN device_list /\ device_list[pc.i] # 0
             /\ Reap(device_list[pc.i]) /\ Goto("wait", pc.i, "exit")
    BY Zenon, <1>10, <1>t, <2>1, ReapKeeps DEF usb_shutdown
  <2>2. CASE /\ Goto("shutdown", pc.i + 1, "exit") \/ Goto("exit", 0, "exit")
             /\ UNCHANGED <<usbdev, mux>>
    <3>1. pc' \in PC /\ pc'.at # "wait"
      BY <2>2, <1>t, <1>g
    <3> QED
      BY Zenon, <1>10, <2>2, <1>t, <3>1, SameHarmless, Calm DEF usb_shutdown, scanVars
  <2> QED
    BY Zenon, <1>10, <2>1, <2>2 DEF usb_shutdown
<1>11. CASE usb_hotplug_cb
  <2> DEFINE a == Head(hotplug).addr
  <2>1. /\ hotplug # <<>> /\ hotplug' = Tail(hotplug)
        /\ UNCHANGED <<bus, mode, scanVars, broken, pc>>
    BY Zenon, <1>11 DEF usb_hotplug_cb
  <2>2. /\ hotplug' \in Seq([event : {"ARRIVED", "LEFT"}, addr : Addrs])
        /\ Head(hotplug) \in [event : {"ARRIVED", "LEFT"}, addr : Addrs]
    BY <2>1, <1>t, QueueTypes, Zenon
  <2>3. a \in Addrs
    BY Zenon, <2>2
  <2> HIDE DEF a
  <2>4. CASE usb_device_add(a)
    <3>1. /\ device_list' \in Seq(0..MaxObjs) /\ usbdev' \in [Objs -> UsbDevice] /\ mux' \subseteq Objs
          /\ TransfersOwned' /\ MuxBacked' /\ AddressUnique' /\ RxCounted' /\ SlotsUnique'
          /\ Waiting'
      BY Zenon, <2>1, <2>3, <2>4, AddKeeps
    <3>2. TypeOK'
      BY Zenon, <2>1, <2>2, <3>1, <1>t DEF UsbInv, TypeOK, scanVars
    <3> QED
      BY Zenon, <3>1, <3>2 DEF UsbInv
  <2>5. CASE UNCHANGED devVars
    BY Zenon, <2>1, <2>2, <2>5, <1>t, SameHarmless, Calm DEF devVars, scanVars
  <2>6. CASE /\ \E o \in At(a) : usbdev' = [usbdev EXCEPT ![o].alive = FALSE] /\ device_remove(o)
             /\ UNCHANGED device_list
    <3>1. PICK o \in At(a) : usbdev' = [usbdev EXCEPT ![o].alive = FALSE] /\ device_remove(o)
      BY Zenon, <2>6
    <3>2. o \in Objs /\ mux' \subseteq mux
      BY Zenon, <3>1, <1>t DEF At, device_remove
    <3>3. Harmless
      <4>1. ASSUME NEW p \in Objs
            PROVE  /\ usbdev'[p] \in UsbDevice
                   /\ usbdev'[p].addr = usbdev[p].addr /\ usbdev'[p].rx = usbdev[p].rx
                   /\ usbdev'[p].rxc = usbdev[p].rxc /\ usbdev'[p].rxs = usbdev[p].rxs
                   /\ usbdev'[p].tx = usbdev[p].tx
        BY Zenon, <3>1, <3>2, <1>t DEF UsbDevice
      <4>2. usbdev' \in [Objs -> UsbDevice]
        BY Zenon, <3>1, <4>1, <1>t
      <4> QED
        BY Zenon, <4>1, <4>2, FlagsHarmless
    <3> QED
      BY Zenon, <2>1, <2>2, <2>6, <3>2, <3>3, <1>t, Calm DEF scanVars
  <2> QED
    BY Zenon, <1>11, <2>4, <2>5, <2>6 DEF usb_hotplug_cb, a
<1>12. ASSUME NEW o \in Listed, rx_callback(o) \/ tx_callback(o) \/ send_packet(o)
       PROVE  UsbInv'
  <2>1. CASE rx_callback(o)
    BY Zenon, <2>1, <1>t, RxHarmless, Calm DEF rx_callback, scanVars
  <2>2. CASE tx_callback(o)
    BY Zenon, <2>2, <1>t, TxHarmless, Calm DEF tx_callback, scanVars
  <2>3. CASE send_packet(o)
    BY Zenon, <2>3, <1>t, SendHarmless, Calm DEF send_packet, scanVars
  <2> QED
    BY Zenon, <1>12, <2>1, <2>2, <2>3
<1>n. ASSUME NEW a \in Addrs, NEW event \in {"ARRIVED", "LEFT"}, Notify(event, a)
      PROVE  hotplug' \in Seq([event : {"ARRIVED", "LEFT"}, addr : Addrs])
  <2>1. [event |-> event, addr |-> a] \in [event : {"ARRIVED", "LEFT"}, addr : Addrs]
    BY Zenon
  <2>2. Append(hotplug, [event |-> event, addr |-> a])
          \in Seq([event : {"ARRIVED", "LEFT"}, addr : Addrs])
    BY <1>t, <2>1, QueueTypes, Zenon
  <2>3. hotplug' = hotplug \/ hotplug' = Append(hotplug, [event |-> event, addr |-> a])
    BY Zenon, <1>n DEF Notify
  <2> QED
    BY <1>t, <2>2, <2>3, Zenon
<1>13. ASSUME NEW a \in Addrs, Plug(a)
       PROVE  UsbInv'
  <2>1. hotplug' \in Seq([event : {"ARRIVED", "LEFT"}, addr : Addrs])
    BY Zenon, <1>13, <1>n DEF Plug
  <2> QED
    BY Zenon, <1>13, <2>1, <1>t, SameHarmless, Calm DEF Plug, devVars, scanVars
<1>14. ASSUME NEW a \in Addrs, Unplug(a)
       PROVE  UsbInv'
  <2>1. hotplug' \in Seq([event : {"ARRIVED", "LEFT"}, addr : Addrs])
    BY Zenon, <1>14, <1>n DEF Unplug
  <2>2. usbdev' = [o \in Objs |-> IF o \in At(a) THEN [usbdev[o] EXCEPT !.here = FALSE]
                                 ELSE usbdev[o]]
    BY Zenon, <1>14 DEF Unplug
  <2>3. ASSUME NEW o \in Objs
        PROVE  /\ usbdev'[o] \in UsbDevice
               /\ usbdev'[o].addr = usbdev[o].addr /\ usbdev'[o].rx = usbdev[o].rx
               /\ usbdev'[o].rxc = usbdev[o].rxc /\ usbdev'[o].rxs = usbdev[o].rxs
               /\ usbdev'[o].tx = usbdev[o].tx
    BY Zenon, <2>2, <1>t DEF UsbDevice
  <2>4. usbdev' \in [Objs -> UsbDevice]
    BY Zenon, <2>2, <2>3
  <2>5. Harmless
    BY Zenon, <2>3, <2>4, FlagsHarmless
  <2> QED
    BY Zenon, <1>14, <2>1, <2>5, <1>t, Calm DEF Unplug, scanVars
<1>15. CASE UNCHANGED vars
  BY Zenon, <1>15, <1>t, SameHarmless, Calm DEF vars, devVars, scanVars
<1> QED
  BY Zenon, <1>1, <1>2, <1>3, <1>4, <1>5, <1>6, <1>7, <1>8, <1>9, <1>10, <1>11, <1>12, <1>13, <1>14,
     <1>15 DEF Next, Main

\* The list of usb_devices, their transfers and the mux stay consistent, whatever
\* callbacks run while usb_disconnect waits and however devices come and go.
THEOREM UsbInvariance == Spec => []UsbInv
<1>1. Init => UsbInv
  BY Zenon, UsbInit
<1>2. UsbInv /\ [Next]_vars => UsbInv'
  BY Zenon, UsbStep
<1> QED
  BY <1>1, <1>2, PTL DEF Spec

\* usb_disconnect frees no usb_device with which libusb would still call back.
THEOREM NoTransferOrphaned == Spec => []TransfersOwned
<1>1. UsbInv => TransfersOwned
  BY Zenon DEF UsbInv
<1> QED
  BY <1>1, UsbInvariance, PTL

\* No mux_device outlives its usb_device.
THEOREM MuxDevicesBacked == Spec => []MuxBacked
<1>1. UsbInv => MuxBacked
  BY Zenon DEF UsbInv
<1> QED
  BY <1>1, UsbInvariance, PTL

\* usb_device_add keeps one usb_device for an address.
THEOREM OneDevicePerAddress == Spec => []AddressUnique
<1>1. UsbInv => AddressUnique
  BY Zenon DEF UsbInv
<1> QED
  BY <1>1, UsbInvariance, PTL
=============================================================================
