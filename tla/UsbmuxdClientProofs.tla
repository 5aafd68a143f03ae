------------------------ MODULE UsbmuxdClientProofs ------------------------
(***************************************************************************)
(* Proofs about UsbmuxdClient, for any finite set of devices, any threads  *)
(* that make requests, and any number of events and restarts.              *)
(***************************************************************************)
EXTENDS UsbmuxdClient, FiniteSetTheorems, SequenceTheorems, WellFoundedInduction, TLAPS

-----------------------------------------------------------------------------
(* The list of devices.                                                      *)

\* A set of slots has a first one: the CHOOSE of First is defined.
LEMMA FirstIn ==
  ASSUME NEW S, S \subseteq Nat, S # {}
  PROVE  First(S) \in S
<1>1. \E x \in S : \A y \in S : ~(<<y, x>> \in OpToRel(<, Nat))
  BY NatLessThanWellFounded, WFMin, Zenon
<1>2. PICK x \in S : \A y \in S : ~(<<y, x>> \in OpToRel(<, Nat)) BY Zenon, <1>1
<1>3. \A y \in S : x <= y
  <2> TAKE y \in S
  <2>1. ~(y < x) BY Zenon, <1>2 DEF OpToRel
  <2> QED BY <2>1
<1> QED BY <1>3, Zenon DEF First

\* The slots of a list.
Slots(s, d) == {i \in DOMAIN s : s[i] = d}

\* They can be counted.
LEMMA SlotsFinite ==
  ASSUME NEW s \in Seq(Devices \cup {0}), NEW d
  PROVE  IsFiniteSet(Slots(s, d)) /\ Cardinality(Slots(s, d)) \in Nat
<1>1. IsFiniteSet(1..Len(s)) BY FS_Interval
<1>2. Slots(s, d) \subseteq 1..Len(s) BY DEF Slots
<1>3. IsFiniteSet(Slots(s, d)) BY <1>1, <1>2, FS_Subset, Zenon
<1> QED BY <1>3, FS_CardinalityType, Zenon

\* Writing one slot that held another value counts one more for the new value.
LEMMA SlotFilled ==
  ASSUME NEW s \in Seq(Devices \cup {0}), NEW t \in Seq(Devices \cup {0}), NEW d \in Nat, NEW e \in Nat, NEW i,
         i \notin Slots(s, e),
         Slots(t, e) = IF e = d THEN Slots(s, e) \cup {i} ELSE Slots(s, e)
  PROVE  Cardinality(Slots(t, e)) =
           IF e = d THEN Cardinality(Slots(s, e)) + 1 ELSE Cardinality(Slots(s, e))
<1>1. IsFiniteSet(Slots(s, e)) BY Zenon, SlotsFinite
<1> QED BY Zenon, <1>1, FS_AddElement

\* collection_add adds one record of d and leaves the others.
LEMMA CollectionAdd ==
  ASSUME devices \in Seq(Devices \cup {0}), devices # <<>>, NEW d \in Devices
  PROVE  /\ collection_add(d) \in Seq(Devices \cup {0})
         /\ collection_add(d) # <<>>
         /\ \A e \in Devices : Cardinality(Slots(collection_add(d), e)) =
              IF e = d THEN Cardinality(Records(e)) + 1 ELSE Cardinality(Records(e))
<1> DEFINE new == collection_add(d)
<1>0. Devices \subseteq Nat /\ 0 \notin Devices BY Zenon, ClientAssumption
<1>1. devices \in Seq(Devices \cup {0}) BY Zenon, <1>0
<1>2. \A e : Records(e) = Slots(devices, e) BY Zenon DEF Records, Slots
<1>3. Len(devices) \in Nat /\ Len(devices) > 0 BY <1>1
<1>4. CASE NullSlots # {}
  <2> DEFINE k == First(NullSlots)
  <2>1. k \in DOMAIN devices /\ devices[k] = 0
    <3>1. NullSlots \subseteq Nat BY <1>1 DEF NullSlots, Records
    <3> HIDE DEF k
    <3>2. k \in NullSlots BY Zenon, <3>1, <1>4, FirstIn DEF k
    <3> QED BY Zenon, <3>2 DEF NullSlots, Records
  <2>2. new = [devices EXCEPT ![k] = d] BY Zenon, <1>4 DEF collection_add
  <2> HIDE DEF k, new
  <2>3. new \in Seq(Devices \cup {0}) /\ Len(new) = Len(devices) BY <2>1, <2>2
  <2>4. ASSUME NEW e \in Devices
        PROVE  Cardinality(Slots(new, e)) =
                 IF e = d THEN Cardinality(Records(e)) + 1 ELSE Cardinality(Records(e))
    <3>1. k \notin Slots(devices, e) BY Zenon, <2>1, <1>0 DEF Slots
    <3>2. Slots(new, e) = IF e = d THEN Slots(devices, e) \cup {k} ELSE Slots(devices, e)
      BY Zenon, <2>1, <2>2, <1>0 DEF Slots
    <3>3. new \in Seq(Devices \cup {0}) BY Zenon, <2>3, <1>0
    <3> QED BY ZenonT(40), <3>1, <3>2, <3>3, <1>0, <1>1, <1>2, SlotFilled
  <2> QED BY <2>3, <2>4, <1>3 DEF new
<1>5. CASE NullSlots = {}
  <2> DEFINE n == Len(devices)
  <2>1. new = [i \in 1..(2 * n) |-> CASE i <= n -> devices[i] [] i = n + 1 -> d [] OTHER -> 0]
    BY Zenon, <1>5 DEF collection_add
  <2>2. n \in Nat /\ n > 0 BY Zenon, <1>3
  <2>3. DOMAIN devices = 1..n BY <1>1
  <2>4. \A i \in 1..n : devices[i] \in Devices \cup {0} BY <2>3
  <2> HIDE DEF n, new
  <2>5. new \in Seq(Devices \cup {0}) /\ Len(new) = 2 * n
    <3>1. \A i \in 1..(2 * n) : new[i] \in Devices \cup {0} BY <2>1, <2>2, <2>4
    <3>2. new \in [1..(2 * n) -> Devices \cup {0}] BY <3>1, <2>1, Zenon
    <3>3. 2 * n \in Nat BY <2>2
    <3> HIDE DEF new
    <3> QED BY <3>2, <3>3, SMT
  <2>6. ASSUME NEW e \in Devices
        PROVE  Cardinality(Slots(new, e)) =
                 IF e = d THEN Cardinality(Records(e)) + 1 ELSE Cardinality(Records(e))
    <3>1. (n + 1) \notin Slots(devices, e) BY <2>3, <2>2 DEF Slots
    <3>2. \A i \in 1..n : i \in 1..(2 * n) /\ new[i] = devices[i] BY <2>1, <2>2
    <3>3. (n + 1) \in 1..(2 * n) /\ new[n + 1] = d BY <2>1, <2>2
    <3>4. \A i \in 1..(2 * n) : i \in 1..n \/ i = n + 1 \/ new[i] = 0 BY <2>1, <2>2
    <3>5. DOMAIN new = 1..(2 * n) BY Zenon, <2>1
    <3>6. Slots(new, e) = IF e = d THEN Slots(devices, e) \cup {n + 1} ELSE Slots(devices, e)
      BY Zenon, <3>2, <3>3, <3>4, <3>5, <2>3, <1>0 DEF Slots
    <3>7. new \in Seq(Devices \cup {0}) BY Zenon, <2>5, <1>0
    <3> QED BY ZenonT(40), <3>1, <3>6, <3>7, <1>0, <1>1, <1>2, SlotFilled
  <2> QED BY <2>5, <2>6, <2>2 DEF new
<1> QED BY Zenon, <1>4, <1>5

\* Clearing a slot takes one record of its device away and leaves the others.
LEMMA CollectionRemove ==
  ASSUME devices \in Seq(Devices \cup {0}), NEW d \in Devices,
         FindEnds(d) # {}, ~FindCrashes(d),
         NEW new, new = [devices EXCEPT ![First(FindEnds(d))] = 0]
  PROVE  /\ new \in Seq(Devices \cup {0}) /\ Len(new) = Len(devices)
         /\ \A e \in Devices :
              /\ Cardinality(Records(e)) \in Nat
              /\ e = d => Cardinality(Records(e)) > 0
              /\ Cardinality(Slots(new, e)) =
                   IF e = d THEN Cardinality(Records(e)) - 1 ELSE Cardinality(Records(e))
<1> DEFINE k == First(FindEnds(d))
<1>0. Devices \subseteq Nat /\ 0 \notin Devices BY Zenon, ClientAssumption
<1>1. devices \in Seq(Devices \cup {0}) BY Zenon, <1>0
<1>2. \A e : Records(e) = Slots(devices, e) BY Zenon DEF Records, Slots
<1>3. k \in DOMAIN devices /\ devices[k] = d
  <2>1. FindEnds(d) \subseteq Nat BY <1>1 DEF FindEnds
  <2>2. devices[k] # 0 BY Zenon DEF FindCrashes
  <2> HIDE DEF k
  <2>3. k \in FindEnds(d) BY Zenon, <2>1, FirstIn DEF k
  <2> QED BY Zenon, <2>2, <2>3 DEF FindEnds
<1> HIDE DEF k
<1>4. new \in Seq(Devices \cup {0}) /\ Len(new) = Len(devices) BY <1>3 DEF k
<1>5. ASSUME NEW e \in Devices
      PROVE  /\ Cardinality(Records(e)) \in Nat
             /\ e = d => Cardinality(Records(e)) > 0
             /\ Cardinality(Slots(new, e)) =
                  IF e = d THEN Cardinality(Records(e)) - 1 ELSE Cardinality(Records(e))
  <2>1. IsFiniteSet(Slots(devices, e)) /\ Cardinality(Slots(devices, e)) \in Nat
    BY Zenon, <1>1, SlotsFinite
  <2>2. Slots(new, e) = IF e = d THEN Slots(devices, e) \ {k} ELSE Slots(devices, e)
    BY Zenon, <1>3, <1>0 DEF Slots, k
  <2>3. CASE e = d
    <3>1. k \in Slots(devices, e) BY Zenon, <1>3, <2>3 DEF Slots
    <3>2. Cardinality(Slots(devices, e) \ {k}) = Cardinality(Slots(devices, e)) - 1
      BY Zenon, <2>1, <3>1, FS_RemoveElement
    <3>3. Cardinality(Slots(devices, e)) # 0 BY Zenon, <2>1, <3>1, FS_EmptySet
    <3>4. Slots(new, e) = Slots(devices, e) \ {k} BY Zenon, <2>2, <2>3
    <3>5. Records(e) = Slots(devices, e) BY Zenon, <1>2
    <3>6. Cardinality(Records(e)) \in Nat /\ Cardinality(Records(e)) # 0 BY Zenon, <2>1, <3>3, <3>5
    <3>7. Cardinality(Slots(new, e)) = Cardinality(Records(e)) - 1 BY <3>2, <3>4, <3>5, Zenon
    <3>8. Cardinality(Records(e)) > 0 BY <3>6
    <3> QED BY <2>3, <3>6, <3>7, <3>8, Zenon
  <2>4. CASE e # d
    <3>1. Slots(new, e) = Slots(devices, e) BY Zenon, <2>2, <2>4
    <3>2. Records(e) = Slots(devices, e) BY Zenon, <1>2
    <3> QED BY Zenon, <2>1, <2>4, <3>1, <3>2
  <2> QED BY Zenon, <2>3, <2>4
<1> QED BY Zenon, <1>4, <1>5

\* A list of NULLs holds no record.
LEMMA NoRecords ==
  ASSUME NEW s, \A i \in DOMAIN s : s[i] = 0, NEW e \in Devices
  PROVE  Cardinality(Slots(s, e)) = 0
<1>1. 0 \notin Devices BY Zenon, ClientAssumption
<1>2. Slots(s, e) = {} BY Zenon, <1>1 DEF Slots
<1> QED BY Zenon, <1>2, FS_EmptySet

-----------------------------------------------------------------------------
(* The invariant.                                                            *)

\* What the monitor thread, the program and the list have to do with each other;
\* what the daemon and the callers change is not part of it.
Thread == <<event_cb, devices, known, mon, app>>

\* A step that leaves the monitor thread, its list and the program alone keeps the
\* invariant.
LEMMA Undisturbed ==
  ASSUME ClientInv, UNCHANGED Thread, TypeOK'
  PROVE  ClientInv'
BY Zenon DEF ClientInv, Thread, FreshStart, Records

\* Before the first subscription there is no thread and no list.
LEMMA InitInv == Init => ClientInv
<1> SUFFICES ASSUME Init PROVE ClientInv BY Zenon
<1>1. TypeOK
  <2>1. daemon \in [up : BOOLEAN, attached : SUBSET Devices, versions : SUBSET (0..1),
                    lists : BOOLEAN, events : 0..MaxEvents, ends : 0..MaxRestarts]
    <3>1. PICK versions \in {{0}, {0, 1}}, lists \in BOOLEAN :
            daemon = [up |-> FALSE, attached |-> {}, versions |-> versions,
                      lists |-> lists, events |-> 0, ends |-> 0]
      BY ZenonT(40) DEF Init
    <3>2. versions \in SUBSET (0..1) BY <3>1
    <3>3. 0 \in 0..MaxEvents /\ 0 \in 0..MaxRestarts BY ClientAssumption
    <3> QED BY <3>1, <3>2, <3>3, Zenon
  <2>2. call \in [Callers -> [at : {"idle", "connect", "format", "send", "result"},
                           op : {"none", "list", "connect", "record"}, plist : BOOLEAN,
                           kind : {"none", "LIST", "LISTEN", "CONNECT"},
                           res : Answers]]
    BY DEF Init, NoCall, Answers
  <2>3. <<>> \in Seq(Messages) /\ <<>> \in Seq(Devices \cup {0}) OBVIOUS
  <2>4. sock \in [open : BOOLEAN, listening : BOOLEAN, req : SUBSET Requests, queue : Seq(Messages)]
    BY Zenon, <2>3 DEF Init
  <2>5. known \in [Devices -> Nat] BY Zenon DEF Init
  <2>6. proto_version \in 0..1 BY DEF Init
  <2> QED BY <2>1, <2>2, <2>3, <2>4, <2>5, <2>6, Zenon DEF Init, TypeOK
<1> QED BY Zenon, <1>1 DEF Init, ClientInv, FreshStart

-----------------------------------------------------------------------------
(* The daemon.                                                               *)

\* The daemon gives one of the results the library knows.
LEMMA AnswerIsAnswer == ASSUME NEW kind, NEW r PROVE Answer(kind, r) \in Answers
BY Zenon DEF Answer, Answers

\* The daemon's answer to Listen only fills the socket.
LEMMA AnswerListenKeeps == ASSUME ClientInv, AnswerListen PROVE ClientInv'
<1>1. PICK r \in sock.req, l \in Listings(daemon.attached) :
        LET res == Answer("LISTEN", r)
            adds == IF res = "OK" THEN [i \in DOMAIN l |-> Added(l[i])] ELSE <<>>
        IN  sock' = [sock EXCEPT
                       !.req = {}, !.listening = (res = "OK"),
                       !.queue = Append(@, [type |-> "RESULT", res |-> res]) \o adds]
  BY Zenon DEF AnswerListen
<1> DEFINE res == Answer("LISTEN", r)
           adds == IF res = "OK" THEN [i \in DOMAIN l |-> Added(l[i])] ELSE <<>>
<1>2. TypeOK BY Zenon DEF ClientInv
<1>3. adds \in Seq(Messages)
  <2>1. daemon.attached \subseteq Devices BY Zenon, <1>2 DEF TypeOK
  <2>2. Cardinality(daemon.attached) \in Nat
    BY <2>1, ClientAssumption, FS_Subset, FS_CardinalityType, Zenon
  <2>3. l \in [1..Cardinality(daemon.attached) -> daemon.attached] BY Zenon DEF Listings
  <2>4. \A i \in DOMAIN l : Added(l[i]) \in Messages BY Zenon, <2>1, <2>3 DEF Added, Messages
  <2>5. [i \in DOMAIN l |-> Added(l[i])] \in [1..Cardinality(daemon.attached) -> Messages]
    BY <2>3, <2>4, Zenon
  <2>6. [i \in DOMAIN l |-> Added(l[i])] \in Seq(Messages) BY <2>2, <2>5, SMT
  <2>7. <<>> \in Seq(Messages) OBVIOUS
  <2> QED BY <2>6, <2>7, Zenon
<1>4. [type |-> "RESULT", res |-> res] \in Messages BY Zenon, AnswerIsAnswer DEF Messages
<1> HIDE DEF adds, res
<1>5. sock.queue \in Seq(Messages) BY Zenon, <1>2 DEF TypeOK
<1>6. Append(sock.queue, [type |-> "RESULT", res |-> res]) \o adds \in Seq(Messages)
  BY <1>3, <1>4, <1>5
<1>7. sock' \in [open : BOOLEAN, listening : BOOLEAN, req : SUBSET Requests, queue : Seq(Messages)]
  BY ZenonT(40), <1>1, <1>2, <1>6 DEF TypeOK, adds, res
<1>8. TypeOK' BY ZenonT(40), <1>2, <1>7 DEF AnswerListen, callVars, shared, TypeOK
<1> QED BY Zenon, <1>8, Undisturbed DEF AnswerListen, Thread

\* An event for the listening socket is a message.
LEMMA TellKeeps ==
  ASSUME TypeOK, NEW ms \in Seq(Messages), Tell(ms)
  PROVE  sock' \in [open : BOOLEAN, listening : BOOLEAN, req : SUBSET Requests, queue : Seq(Messages)]
<1>1. sock.queue \o ms \in Seq(Messages) BY DEF TypeOK
<1> QED BY <1>1, Zenon DEF Tell, TypeOK

\* A device that comes, goes or is paired only fills the socket.
LEMMA DaemonEventKeeps == ASSUME ClientInv, DaemonEvent PROVE ClientInv'
<1> DEFINE Sock == [open : BOOLEAN, listening : BOOLEAN, req : SUBSET Requests, queue : Seq(Messages)]
           Daemon == [up : BOOLEAN, attached : SUBSET Devices, versions : SUBSET (0..1),
                      lists : BOOLEAN, events : 0..MaxEvents, ends : 0..MaxRestarts]
<1>1. TypeOK BY Zenon DEF ClientInv
<1>2. daemon.events + 1 \in 0..MaxEvents BY SMTT(40), <1>1, ClientAssumption DEF TypeOK, DaemonEvent
<1>3. PICK d \in Devices :
       \/ /\ daemon' = [daemon EXCEPT !.attached = @ \cup {d}, !.events = @ + 1]
          /\ \E n \in 1..2 : Tell([i \in 1..n |-> Added(d)])
       \/ /\ daemon' = [daemon EXCEPT !.attached = @ \ {d}, !.events = @ + 1]
          /\ Tell(<<Removed(d)>>)
       \/ /\ daemon' = [daemon EXCEPT !.events = @ + 1]
          /\ Tell(<<[type |-> "PAIRED", dev |-> d]>>)
  BY Zenon DEF DaemonEvent
<1>4. daemon' \in Daemon
  <2>1. daemon \in Daemon BY Zenon, <1>1 DEF TypeOK
  <2>2. daemon.attached \cup {d} \in SUBSET Devices /\ daemon.attached \ {d} \in SUBSET Devices
    BY Zenon, <2>1
  <2> QED BY <1>2, <1>3, <2>1, <2>2, Zenon
<1>5. sock' \in Sock
  <2>1. ASSUME NEW n \in 1..2 PROVE [i \in 1..n |-> Added(d)] \in Seq(Messages)
    <3>1. Added(d) \in Messages BY Zenon DEF Added, Messages
    <3> QED BY <3>1, SMT
  <2>2. /\ <<Removed(d)>> \in Seq(Messages)
        /\ <<[type |-> "PAIRED", dev |-> d]>> \in Seq(Messages)
    BY DEF Messages, Removed
  <2> QED BY <1>1, <1>3, <2>1, <2>2, TellKeeps, Zenon
<1>6. TypeOK' BY Zenon, <1>1, <1>4, <1>5 DEF DaemonEvent, callVars, shared, TypeOK
<1> QED BY Zenon, <1>6, Undisturbed DEF DaemonEvent, Thread

\* Neither the end of the daemon nor its start touches the list.
LEMMA DaemonRestartKeeps == ASSUME ClientInv, DaemonStarts \/ DaemonEnds PROVE ClientInv'
<1>1. TypeOK BY Zenon DEF ClientInv
<1>2. CASE DaemonStarts
  <2>1. TypeOK' BY ZenonT(40), <1>1, <1>2
    DEF DaemonStarts, monVars, appVars, callVars, shared, TypeOK
  <2> QED BY Zenon, <1>2, <2>1, Undisturbed DEF DaemonStarts, monVars, appVars, Thread
<1>3. CASE DaemonEnds
  <2>1. daemon.ends + 1 \in 0..MaxRestarts BY <1>1, <1>3, ClientAssumption DEF TypeOK, DaemonEnds
  <2>2. TypeOK' BY ZenonT(40), <1>1, <1>3, <2>1 DEF DaemonEnds, callVars, shared, TypeOK
  <2> QED BY Zenon, <1>3, <2>2, Undisturbed DEF DaemonEnds, Thread
<1> QED BY Zenon, <1>2, <1>3

-----------------------------------------------------------------------------
(* Requests of other threads.                                                *)

Call ==
  [at : {"idle", "connect", "format", "send", "result"},
   op : {"none", "list", "connect", "record"}, plist : BOOLEAN,
   kind : {"none", "LIST", "LISTEN", "CONNECT"}, res : Answers]

\* A step of a thread that makes a request leaves the monitor alone.
LEMMA StepKeeps ==
  ASSUME ClientInv, NEW t \in Callers, NEW c \in Call, Step(t, c),
         proto_version' \in 0..1, try_list_devices' \in BOOLEAN,
         UNCHANGED <<daemon, monVars, appVars>>
  PROVE  ClientInv'
<1>1. TypeOK BY Zenon DEF ClientInv
<1>2. call' \in [Callers -> Call] BY <1>1, Zenon DEF Step, TypeOK, Call
<1>3. TypeOK' BY <1>1, <1>2 DEF TypeOK, Call, monVars, appVars
<1> QED BY Zenon, <1>3, Undisturbed DEF monVars, appVars, Thread

\* What a thread may be after a step of a request.
LEMMA CallTypes ==
  ASSUME TypeOK, NEW t \in Callers
  PROVE  /\ call[t] \in Call /\ NoCall \in Call
         /\ [NoCall EXCEPT !.at = "connect", !.op = call[t].op] \in Call
         /\ \A kind \in {"LISTEN", "CONNECT"} :
              [call[t] EXCEPT !.at = "format", !.kind = kind] \in Call
         /\ [call[t] EXCEPT !.at = "send", !.kind = "LIST", !.plist = TRUE] \in Call
         /\ [call[t] EXCEPT !.at = "send", !.plist = (proto_version = 1)] \in Call
         /\ [call[t] EXCEPT !.at = "result"] \in Call
         /\ \A res \in Answers :
              [call[t] EXCEPT !.at = "result", !.res = res, !.plist = FALSE] \in Call
         /\ \A op \in {"list", "connect", "record"} :
              [NoCall EXCEPT !.at = "connect", !.op = op] \in Call
<1>1. call[t] \in Call BY Zenon DEF TypeOK, Call
<1>2. NoCall \in Call BY Zenon DEF Call, NoCall, Answers
<1>3. call[t].op \in {"none", "list", "connect", "record"} BY Zenon, <1>1 DEF Call
<1>4. [NoCall EXCEPT !.at = "connect", !.op = call[t].op] \in Call
  BY Zenon, <1>2, <1>3 DEF Call
<1>5. /\ [call[t] EXCEPT !.at = "send", !.kind = "LIST", !.plist = TRUE] \in Call
      /\ [call[t] EXCEPT !.at = "result"] \in Call
  BY Zenon, <1>1 DEF Call
<1>6. (proto_version = 1) \in BOOLEAN BY Zenon
<1>7. [call[t] EXCEPT !.at = "send", !.plist = (proto_version = 1)] \in Call
  BY Zenon, <1>1, <1>6 DEF Call
<1>8. ASSUME NEW kind \in {"LISTEN", "CONNECT"}
      PROVE  [call[t] EXCEPT !.at = "format", !.kind = kind] \in Call
  BY Zenon, <1>1 DEF Call
<1>9. ASSUME NEW res \in Answers
      PROVE  [call[t] EXCEPT !.at = "result", !.res = res, !.plist = FALSE] \in Call
  BY Zenon, <1>1 DEF Call
<1>10. ASSUME NEW op \in {"list", "connect", "record"}
       PROVE  [NoCall EXCEPT !.at = "connect", !.op = op] \in Call
  BY Zenon, <1>2 DEF Call
<1> QED BY <1>1, <1>2, <1>4, <1>5, <1>7, <1>8, <1>9, <1>10, Zenon

\* No request of another thread, with its downgrade, breaks the invariant.
LEMMA RequestKeeps ==
  ASSUME ClientInv, NEW t \in Callers,
         (Begin(t) /\ UNCHANGED <<daemon, monVars, appVars>>) \/ Request(t)
  PROVE  ClientInv'
<1>1. TypeOK BY Zenon DEF ClientInv
<1>2. proto_version \in 0..1 /\ try_list_devices \in BOOLEAN BY Zenon, <1>1 DEF TypeOK
<1>3. UNCHANGED <<daemon, monVars, appVars>> BY Zenon DEF Request
<1> DEFINE Done == \E c \in Call : Step(t, c)
           Shared == proto_version' \in 0..1 /\ try_list_devices' \in BOOLEAN
<1>4. Return(t) => Done BY Zenon, <1>1, CallTypes DEF Return
<1>5. Retry(t) => Done BY ZenonT(40), <1>1, CallTypes DEF Retry
<1>6. ASSUME NEW kind \in {"LISTEN", "CONNECT"}
      PROVE  Format(t, kind) => Done
  BY Zenon, <1>1, CallTypes DEF Format
<1>6a. (SendPlist(t, "LIST") => Done) /\ (Await(t) => Done)
  BY Zenon, <1>1, CallTypes DEF SendPlist, Await
<1>7. UNCHANGED shared => Shared BY Zenon, <1>2 DEF shared
<1>8. Lower(t) => Done /\ Shared BY <1>2, <1>4, <1>5, <1>7 DEF Lower
<1>9. ListRefused(t) => Done /\ Shared
  <2> SUFFICES ASSUME ListRefused(t) PROVE Done /\ Shared BY Zenon
  <2>1. proto_version' \in 0..1 BY <1>2 DEF ListRefused
  <2>2. try_list_devices' \in BOOLEAN BY Zenon DEF ListRefused
  <2>3. Retry(t) BY Zenon DEF ListRefused
  <2> QED BY <1>5, <2>1, <2>2, <2>3, Zenon
<1> HIDE DEF Done, Shared
<1>10. Begin(t) => Done /\ Shared
  <2> SUFFICES ASSUME Begin(t) PROVE Done /\ Shared BY Zenon
  <2>1. PICK op \in {"list", "connect", "record"} :
          Step(t, [NoCall EXCEPT !.at = "connect", !.op = op])
    BY Zenon DEF Begin
  <2>2. Shared BY Zenon, <1>7 DEF Begin
  <2> QED BY Zenon, <1>1, <2>1, <2>2, CallTypes DEF Done
<1>11. connect_usbmuxd_socket(t) => Done /\ Shared BY Zenon, <1>4, <1>7 DEF connect_usbmuxd_socket
<1>12. send_packet(t) => Done /\ Shared
  <2> SUFFICES ASSUME send_packet(t) PROVE Done BY ZenonT(40), <1>7 DEF send_packet
  <2>1. CASE Step(t, [call[t] EXCEPT !.at = "send", !.plist = (proto_version = 1)])
    BY ZenonT(40), <1>1, <2>1, CallTypes DEF Done
  <2>2. CASE \E res \in Answers :
               Step(t, [call[t] EXCEPT !.at = "result", !.res = res, !.plist = FALSE])
    BY Zenon, <1>1, <2>2, CallTypes DEF Done
  <2>3. CASE Return(t) BY Zenon, <2>3, <1>4
  <2>4. "none" \in Answers BY Zenon DEF Answers
  <2> QED BY ZenonT(40), <2>1, <2>2, <2>3, <2>4, AnswerIsAnswer DEF send_packet
<1>13. usbmuxd_get_device_list(t) => Done /\ Shared
  BY Zenon, <1>4, <1>6, <1>7, <1>8, <1>9, <1>6a DEF usbmuxd_get_device_list
<1>14. usbmuxd_connect(t) => Done /\ Shared BY Zenon, <1>6, <1>7, <1>8 DEF usbmuxd_connect
<1>15. usbmuxd_read_buid(t) => Done /\ Shared
  BY <1>2, <1>4, <1>7, <1>6a DEF usbmuxd_read_buid, Shared
<1>16. Done /\ Shared BY Zenon, <1>10, <1>11, <1>12, <1>13, <1>14, <1>15 DEF Request
<1> QED BY Zenon, <1>3, <1>16, StepKeeps DEF Done, Shared

-----------------------------------------------------------------------------
(* The monitor thread.                                                       *)

Sock == [open : BOOLEAN, listening : BOOLEAN, req : SUBSET Requests, queue : Seq(Messages)]

Places ==
  {"off", "start", "loop", "connect", "poll", "format", "send", "result",
   "events", "call", "receive", "cleanup"}

\* A step of the thread on which the list and what the program knows stay as they are.
LEMMA MonitorMoves ==
  ASSUME ClientInv, sock' \in Sock, listenfd' \in BOOLEAN, proto_version' \in 0..1,
         NEW place \in Places, NEW plist \in BOOLEAN, NEW cb \in BOOLEAN,
         mon' = [at |-> place, plist |-> plist, cb |-> cb],
         UNCHANGED <<daemon, event_cb, app, call, try_list_devices, devices, known, crashed>>,
         place \notin {"off", "start"}, mon.at \notin {"off", "start"},
         app # "idle",
         place = "cleanup" => ~event_cb,
         cb => place = "receive" /\ event_cb,
         event_cb /\ place = "receive" => cb,
         place \in {"connect", "poll", "format", "send", "result"} =>
           \A i \in DOMAIN devices : devices[i] = 0,
         event_cb /\ place = "loop" => \A i \in DOMAIN devices : devices[i] = 0
  PROVE  ClientInv'
<1>1. TypeOK BY Zenon DEF ClientInv
<1>2. mon' \in [at : Places, plist : BOOLEAN, cb : BOOLEAN] BY Zenon
<1>3. TypeOK' BY Zenon, <1>1, <1>2 DEF TypeOK, Sock, Places
<1>4. mon'.at = place /\ mon'.cb = cb BY Zenon
<1> QED BY Zenon, <1>3, <1>4 DEF ClientInv, FreshStart, Records

\* The loops of device_monitor.
LEMMA device_monitorKeeps == ASSUME ClientInv, device_monitor PROVE ClientInv'
<1>1. TypeOK BY Zenon DEF ClientInv
<1>2. sock' \in Sock /\ listenfd' \in BOOLEAN /\ proto_version' \in 0..1
  BY <1>1, Zenon DEF device_monitor, quiet, shared, TypeOK, Sock
<1>3. UNCHANGED <<daemon, event_cb, app, call, try_list_devices, known, crashed>>
  BY Zenon DEF device_monitor, quiet, appVars, callVars, shared
<1>4. event_cb \in BOOLEAN BY Zenon, <1>1 DEF TypeOK
<1>5. CASE At("start") /\ devices' = <<0>> /\ Goto("loop")
  <2>1. /\ mon'.at = "loop" /\ mon'.cb = FALSE /\ mon.at = "start" /\ devices' = <<0>>
        /\ mon' \in [at : Places, plist : BOOLEAN, cb : BOOLEAN]
    BY Zenon, <1>5 DEF Goto, At, Places
  <2>2. TypeOK' BY <1>1, <1>2, <1>3, <2>1 DEF TypeOK, Sock, Places
  <2>3. devices = <<>> /\ app # "idle" BY Zenon, <2>1 DEF ClientInv
  <2>4. ASSUME NEW d \in Devices
        PROVE  Cardinality(Records(d)) = 0 /\ Cardinality(Records(d))' = 0
    <3>1. Records(d) = Slots(devices, d) /\ Records(d)' = Slots(devices', d) BY Zenon
      DEF Records, Slots
    <3>2. \A i \in DOMAIN devices : devices[i] = 0 BY <2>3
    <3>3. \A i \in DOMAIN devices' : devices'[i] = 0 BY <2>1
    <3> QED BY <3>1, <3>2, <3>3, NoRecords, Zenon
  <2> QED BY <1>3, <2>1, <2>2, <2>3, <2>4 DEF ClientInv, FreshStart
<1>6. CASE UNCHANGED devices
  <2>1. CASE At("loop") /\ event_cb /\ Goto("connect")
    BY Zenon, <1>2, <1>3, <1>6, <2>1, MonitorMoves DEF ClientInv, Goto, At, Places
  <2>2. CASE At("loop") /\ ~event_cb /\ Goto("cleanup")
    BY Zenon, <1>2, <1>3, <1>6, <2>2, MonitorMoves DEF ClientInv, Goto, At, Places
  <2>3. CASE At("events") /\ event_cb /\ Goto("call")
    BY Zenon, <1>2, <1>3, <1>6, <2>3, MonitorMoves DEF ClientInv, Goto, At, Places
  <2>4. CASE At("events") /\ ~event_cb /\ Goto("loop")
    BY Zenon, <1>2, <1>3, <1>6, <2>4, MonitorMoves DEF ClientInv, Goto, At, Places
  <2>5. CASE At("call") /\ mon' = [mon EXCEPT !.at = "receive", !.cb = event_cb]
    <3>1. mon' = [at |-> "receive", plist |-> mon.plist, cb |-> event_cb] /\ mon.plist \in BOOLEAN
      BY Zenon, <1>1, <2>5 DEF TypeOK
    <3> QED BY Zenon, <1>2, <1>3, <1>4, <1>6, <2>5, <3>1, MonitorMoves DEF ClientInv, At, Places
  <2> QED BY Zenon, <1>5, <2>1, <2>2, <2>3, <2>4, <2>5 DEF device_monitor
<1> QED BY Zenon, <1>5, <1>6 DEF device_monitor

\* Waiting for the daemon.
LEMMA usbmuxd_listen_pollKeeps == ASSUME ClientInv, usbmuxd_listen_poll PROVE ClientInv'
<1>1. TypeOK BY Zenon DEF ClientInv
<1>2. UNCHANGED <<daemon, event_cb, app, call, try_list_devices, proto_version, devices, known, crashed>>
  BY Zenon DEF usbmuxd_listen_poll, quiet, appVars, callVars, shared
<1>3. proto_version' \in 0..1 BY Zenon, <1>1, <1>2 DEF TypeOK
<1>4. mon.at \in {"connect", "poll"} BY Zenon DEF usbmuxd_listen_poll, At
<1>5. app # "idle" /\ \A i \in DOMAIN devices : devices[i] = 0
  BY Zenon, <1>4 DEF ClientInv, FreshStart
<1>6. sock' \in Sock /\ listenfd' \in BOOLEAN
  <2>1. sock \in Sock /\ listenfd \in BOOLEAN BY Zenon, <1>1 DEF TypeOK, Sock
  <2>2. CASE Connected
    <3>1. <<>> \in Seq(Messages) OBVIOUS
    <3> QED BY Zenon, <2>2, <3>1 DEF Connected, Sock
  <2>3. CASE UNCHANGED sock /\ listenfd' \in {listenfd, FALSE} BY Zenon, <2>1, <2>3
  <2> QED BY Zenon, <2>2, <2>3 DEF usbmuxd_listen_poll
<1>7. CASE Goto("format")
  BY Zenon, <1>2, <1>3, <1>4, <1>5, <1>6, <1>7, MonitorMoves DEF Goto, Places
<1>8. CASE Goto("poll")
  BY Zenon, <1>2, <1>3, <1>4, <1>5, <1>6, <1>8, MonitorMoves DEF Goto, Places
<1>9. CASE Goto("loop")
  BY Zenon, <1>2, <1>3, <1>4, <1>5, <1>6, <1>9, MonitorMoves DEF Goto, Places
<1> QED BY Zenon, <1>7, <1>8, <1>9 DEF usbmuxd_listen_poll, Connected

\* Sending Listen.
LEMMA send_listen_packetKeeps == ASSUME ClientInv, send_listen_packet PROVE ClientInv'
<1>1. TypeOK BY Zenon DEF ClientInv
<1>2. UNCHANGED <<daemon, event_cb, app, call, try_list_devices, proto_version, devices, known, crashed>>
  BY Zenon DEF send_listen_packet, quiet, appVars, callVars, shared
<1>3. proto_version \in 0..1 /\ proto_version' \in 0..1 BY Zenon, <1>1, <1>2 DEF TypeOK
<1>4. mon.at \in {"format", "send"} BY Zenon DEF send_listen_packet, At
<1>5. app # "idle" /\ ~mon.cb /\ \A i \in DOMAIN devices : devices[i] = 0
  BY Zenon, <1>4 DEF ClientInv, FreshStart
<1>6. mon \in [at : Places, plist : BOOLEAN, cb : BOOLEAN] BY Zenon, <1>1 DEF TypeOK, Places
<1>7. sock' \in Sock /\ listenfd' \in BOOLEAN
  <2>1. sock \in Sock /\ listenfd \in BOOLEAN BY Zenon, <1>1 DEF TypeOK, Sock
  <2>2. {[plist |-> mon.plist, version |-> proto_version]} \in SUBSET Requests
    BY <1>3, <1>6 DEF Requests
  <2> QED BY Zenon, <2>1, <2>2 DEF send_listen_packet, Sock
<1>8. CASE mon' = [mon EXCEPT !.at = "send", !.plist = (proto_version = 1)]
  <2>1. mon' = [at |-> "send", plist |-> (proto_version = 1), cb |-> FALSE]
    BY Zenon, <1>5, <1>6, <1>8
  <2>2. (proto_version = 1) \in BOOLEAN BY Zenon
  <2> QED BY Zenon, <1>2, <1>3, <1>4, <1>5, <1>7, <2>1, <2>2, MonitorMoves DEF Places
<1>9. CASE Goto("result")
  BY Zenon, <1>2, <1>3, <1>4, <1>5, <1>7, <1>9, MonitorMoves DEF Goto, Places
<1>10. CASE Goto("loop")
  BY Zenon, <1>2, <1>3, <1>4, <1>5, <1>7, <1>10, MonitorMoves DEF Goto, Places
<1> QED BY Zenon, <1>8, <1>9, <1>10 DEF send_listen_packet

\* Reading the answer to Listen.
LEMMA usbmuxd_listenKeeps == ASSUME ClientInv, usbmuxd_listen PROVE ClientInv'
<1>1. TypeOK BY Zenon DEF ClientInv
<1>2. UNCHANGED <<daemon, event_cb, app, call, try_list_devices, devices, known, crashed>>
  BY Zenon DEF usbmuxd_listen, appVars, callVars
<1>3. mon.at = "result" BY Zenon DEF usbmuxd_listen, At
<1>4. app # "idle" /\ \A i \in DOMAIN devices : devices[i] = 0 BY Zenon, <1>3
  DEF ClientInv, FreshStart
<1>5. proto_version' \in 0..1 /\ listenfd' \in BOOLEAN
  <2>1. proto_version \in 0..1 /\ listenfd \in BOOLEAN BY Zenon, <1>1 DEF TypeOK
  <2>2. proto_version' \in {proto_version, 0} BY Zenon DEF usbmuxd_listen, Downgrade
  <2>3. listenfd' = listenfd \/ listenfd' = TRUE \/ listenfd' = FALSE
    BY Zenon DEF usbmuxd_listen, Downgrade
  <2>4. listenfd' \in BOOLEAN BY <2>1, <2>3, Zenon
  <2> QED BY <2>1, <2>2, <2>4
<1>6. sock' \in Sock
  <2>1. sock \in Sock BY Zenon, <1>1 DEF TypeOK, Sock
  <2>2. <<>> \in Seq(Messages) OBVIOUS
  <2>3. sock.queue # <<>> => Tail(sock.queue) \in Seq(Messages) BY <2>1 DEF Sock
  <2> QED BY Zenon, <2>1, <2>2, <2>3 DEF usbmuxd_listen, Sock
<1>7. CASE Goto("events")
  BY Zenon, <1>2, <1>3, <1>4, <1>5, <1>6, <1>7, MonitorMoves DEF Goto, Places
<1>8. CASE Goto("connect")
  BY Zenon, <1>2, <1>3, <1>4, <1>5, <1>6, <1>8, MonitorMoves DEF Goto, Places
<1>9. CASE Goto("loop")
  BY Zenon, <1>2, <1>3, <1>4, <1>5, <1>6, <1>9, MonitorMoves DEF Goto, Places
<1> QED BY Zenon, <1>7, <1>8, <1>9 DEF usbmuxd_listen, Downgrade

\* A step of the thread that changes the list: as long as what the program knows
\* follows it, if the program is to be told.
LEMMA ListChanges ==
  ASSUME ClientInv, mon.at = "receive", sock' \in Sock, crashed' \in BOOLEAN,
         devices' \in Seq(Devices \cup {0}), devices' # <<>>, known' \in [Devices -> Nat],
         mon.cb => \A d \in Devices : known'[d] = Cardinality(Records(d)'),
         UNCHANGED <<quiet, listenfd>>,
         Goto("events") \/ (Goto("loop") /\ \A i \in DOMAIN devices' : devices'[i] = 0)
  PROVE  ClientInv'
<1>1. TypeOK /\ app # "idle" /\ (event_cb => mon.cb) BY Zenon DEF ClientInv
<1>2. UNCHANGED <<daemon, event_cb, app, call, try_list_devices, proto_version, listenfd>>
  BY Zenon DEF quiet, appVars, callVars, shared
<1>3. /\ mon' \in [at : Places, plist : BOOLEAN, cb : BOOLEAN]
      /\ mon'.at \in {"events", "loop"} /\ mon'.cb = FALSE
      /\ mon'.at = "loop" => \A i \in DOMAIN devices' : devices'[i] = 0
  <2>1. CASE Goto("events")
    <3>1. mon'.at = "events" /\ mon'.cb = FALSE /\ mon' \in [at : Places, plist : BOOLEAN, cb : BOOLEAN]
      BY Zenon, <2>1 DEF Goto, Places
    <3> QED BY Zenon, <3>1
  <2>2. CASE Goto("loop") /\ \A i \in DOMAIN devices' : devices'[i] = 0
    <3>1. mon'.at = "loop" /\ mon'.cb = FALSE /\ mon' \in [at : Places, plist : BOOLEAN, cb : BOOLEAN]
      BY Zenon, <2>2 DEF Goto, Places
    <3> QED BY Zenon, <2>2, <3>1
  <2> QED BY Zenon, <2>1, <2>2
<1>4. TypeOK' BY <1>1, <1>2, <1>3 DEF TypeOK, Sock, Places
<1> QED BY Zenon, <1>1, <1>2, <1>3, <1>4 DEF ClientInv, FreshStart

\* The daemon is lost: every record is given up and reported.
LEMMA LostKeepsInv ==
  ASSUME ClientInv, mon.at = "receive", Lost
  PROVE  /\ devices' \in Seq(Devices \cup {0}) /\ devices' # <<>>
         /\ \A i \in DOMAIN devices' : devices'[i] = 0
         /\ known' \in [Devices -> Nat]
         /\ mon.cb => \A d \in Devices : known'[d] = Cardinality(Records(d)')
<1>1. TypeOK /\ devices # <<>> BY Zenon DEF ClientInv
<1>2. devices \in Seq(Devices \cup {0}) /\ known \in [Devices -> Nat] /\ mon.cb \in BOOLEAN
  BY Zenon, <1>1 DEF TypeOK
<1>3. devices' = [i \in 1..Len(devices) |-> 0] /\ Len(devices) \in Nat /\ Len(devices) # 0
  BY <1>1, <1>2 DEF Lost
<1>4. /\ devices' \in Seq(Devices \cup {0}) /\ devices' # <<>>
      /\ \A i \in DOMAIN devices' : devices'[i] = 0
  BY <1>3
<1>5. ASSUME NEW d \in Devices
      PROVE  /\ known'[d] \in Nat
             /\ mon.cb => known'[d] = Cardinality(Records(d)')
  <2>1. Records(d)' = Slots(devices', d) BY Zenon DEF Records, Slots
  <2>2. Cardinality(Records(d)') = 0 BY <1>4, <2>1, NoRecords, Zenon
  <2>3. CASE mon.cb
    <3>1. known'[d] = known[d] - Cardinality(Records(d)) BY <2>3, Zenon DEF Lost
    <3>2. known[d] = Cardinality(Records(d)) BY Zenon, <2>3 DEF ClientInv
    <3>3. known[d] \in Nat BY Zenon, <1>2
    <3> QED BY SMTT(40), <2>2, <3>1, <3>2, <3>3
  <2>4. CASE ~mon.cb
    <3>1. known'[d] = known[d] BY <2>4, Zenon DEF Lost
    <3> QED BY Zenon, <1>2, <2>4, <3>1
  <2> QED BY Zenon, <2>3, <2>4
<1>6. known' \in [Devices -> Nat]
  <2>1. known' = [d \in Devices |->
                   IF mon.cb THEN known[d] - Cardinality(Records(d)) ELSE known[d]]
    BY Zenon DEF Lost
  <2> QED BY <1>5, <2>1, Zenon
<1> QED BY <1>4, <1>5, <1>6, Zenon

\* An event on d after which its records and the others are counted as they should.
LEMMA ReportKeeps ==
  ASSUME ClientInv, mon.at = "receive", NEW d \in Devices, NEW n \in Int, Report(d, n),
         \A e \in Devices : /\ Cardinality(Records(e)') \in Nat
                            /\ Cardinality(Records(e)') =
                                 IF e = d THEN Cardinality(Records(e)) + n
                                 ELSE Cardinality(Records(e))
  PROVE  /\ known' \in [Devices -> Nat]
         /\ mon.cb => \A e \in Devices : known'[e] = Cardinality(Records(e)')
<1>1. known \in [Devices -> Nat] /\ mon.cb \in BOOLEAN BY Zenon DEF ClientInv, TypeOK
<1>2. CASE mon.cb
  <2>1. known' = [known EXCEPT ![d] = @ + n] BY Zenon, <1>2 DEF Report
  <2>2. \A e \in Devices : known[e] = Cardinality(Records(e)) BY Zenon, <1>2 DEF ClientInv
  <2>3. \A e \in Devices : known'[e] = IF e = d THEN known[e] + n ELSE known[e]
    BY Zenon, <1>1, <2>1
  <2>4. \A e \in Devices : known'[e] = Cardinality(Records(e)') BY Zenon, <2>2, <2>3
  <2>5. \A e \in Devices : known'[e] \in Nat BY Zenon, <2>4
  <2>6. known' = [e \in Devices |-> known'[e]] BY Zenon, <1>1, <2>1
  <2>7. known' \in [Devices -> Nat] BY <2>5, <2>6, Zenon
  <2> QED BY Zenon, <2>4, <2>7
<1>3. CASE ~mon.cb
  <2>1. known' = known BY Zenon, <1>3 DEF Report
  <2> QED BY Zenon, <1>1, <1>3, <2>1
<1> QED BY Zenon, <1>2, <1>3

\* One message of the daemon, applied to the list and reported.
LEMMA get_next_eventKeeps == ASSUME ClientInv, get_next_event PROVE ClientInv'
<1>1. TypeOK /\ mon.at = "receive" /\ devices # <<>> BY Zenon DEF ClientInv, get_next_event, At
<1>2. devices \in Seq(Devices \cup {0}) /\ known \in [Devices -> Nat] /\ crashed \in BOOLEAN
  BY Zenon, <1>1 DEF TypeOK
<1>3. UNCHANGED <<quiet, listenfd>> BY Zenon DEF get_next_event
<1>4. sock \in Sock BY Zenon, <1>1 DEF TypeOK, Sock
<1>5. CASE Lost /\ Goto("loop") /\ UNCHANGED <<sock, crashed>>
  BY <1>1, <1>2, <1>3, <1>4, <1>5, LostKeepsInv, ListChanges, Zenon
<1>6. CASE /\ sock.queue # <<>>
           /\ sock' = [sock EXCEPT !.queue = Tail(@)]
           /\ Goto("events")
           /\ LET m == Head(sock.queue)
              IN  \/ m.type = "ADD" /\ DeviceAdd(m.dev)
                  \/ m.type = "REMOVE" /\ DeviceRemove(m.dev)
                  \/ m.type = "PAIRED" /\ DevicePaired(m.dev)
                  \/ m.type = "RESULT" /\ UNCHANGED <<devices, known, crashed>>
  <2> DEFINE m == Head(sock.queue)
  <2>1. m \in Messages /\ Tail(sock.queue) \in Seq(Messages) BY <1>4, <1>6 DEF Sock
  <2>2. sock' \in Sock BY Zenon, <1>4, <1>6, <2>1 DEF Sock
  <2>3. Goto("events") BY Zenon, <1>6
  <2>4. \A e : Records(e) = Slots(devices, e) /\ Records(e)' = Slots(devices', e)
    BY Zenon DEF Records, Slots
  <2> HIDE DEF m
  <2>5. CASE UNCHANGED <<devices, known>> /\ crashed' \in BOOLEAN
    <3>1. mon.cb => \A d \in Devices : known'[d] = Cardinality(Records(d)')
      BY Zenon, <2>4, <2>5 DEF ClientInv
    <3> QED BY <1>1, <1>2, <1>3, <2>2, <2>3, <2>5, <3>1, ListChanges, Zenon
  <2>6. CASE m.type = "ADD" /\ DeviceAdd(m.dev)
    <3>1. m.dev \in Devices BY Zenon, <2>1, <2>6 DEF Messages
    <3>2. devices' = collection_add(m.dev) /\ Report(m.dev, 1) /\ crashed' = crashed
      BY Zenon, <2>6 DEF DeviceAdd
    <3>3. devices' \in Seq(Devices \cup {0}) /\ devices' # <<>>
      BY Zenon, <1>1, <1>2, <3>1, <3>2, CollectionAdd
    <3>4. \A e \in Devices :
            Cardinality(Records(e)') = IF e = m.dev THEN Cardinality(Records(e)) + 1
                                       ELSE Cardinality(Records(e))
      BY <1>1, <1>2, <2>4, <3>1, <3>2, CollectionAdd, Zenon
    <3>5. \A e \in Devices : Cardinality(Records(e)') \in Nat
      BY <2>4, <3>3, SlotsFinite, Zenon
    <3>6. 1 \in Int OBVIOUS
    <3>7. /\ known' \in [Devices -> Nat]
          /\ mon.cb => \A e \in Devices : known'[e] = Cardinality(Records(e)')
      BY <1>1, <3>1, <3>2, <3>4, <3>5, <3>6, ReportKeeps, Zenon
    <3> QED BY <1>1, <1>2, <1>3, <2>2, <2>3, <3>2, <3>3, <3>7, ListChanges, Zenon
  <2>7. CASE m.type = "REMOVE" /\ DeviceRemove(m.dev)
    <3>1. m.dev \in Devices BY Zenon, <2>1, <2>7 DEF Messages
    <3>2. CASE UNCHANGED <<devices, known>> /\ crashed' \in BOOLEAN BY Zenon, <2>5, <3>2
    <3>3. CASE /\ FindEnds(m.dev) # {} /\ ~FindCrashes(m.dev)
               /\ devices' = [devices EXCEPT ![First(FindEnds(m.dev))] = 0]
               /\ Report(m.dev, -1)
               /\ crashed' = crashed
      <4>1. devices' \in Seq(Devices \cup {0}) /\ Len(devices') = Len(devices)
        BY Zenon, <1>2, <3>1, <3>3, CollectionRemove
      <4>2. devices' # <<>> BY <1>1, <1>2, <4>1
      <4>3. \A e \in Devices :
              /\ Cardinality(Records(e)) \in Nat
              /\ Cardinality(Records(e)') = IF e = m.dev THEN Cardinality(Records(e)) - 1
                                            ELSE Cardinality(Records(e))
        BY ZenonT(40), <1>2, <2>4, <3>1, <3>3, CollectionRemove
      <4>4. \A e \in Devices :
              Cardinality(Records(e)') = IF e = m.dev THEN Cardinality(Records(e)) + (-1)
                                         ELSE Cardinality(Records(e))
        BY Zenon, <4>3
      <4>5. \A e \in Devices : Cardinality(Records(e)') \in Nat
        BY <2>4, <4>1, SlotsFinite, Zenon
      <4>6. -1 \in Int OBVIOUS
      <4>7. /\ known' \in [Devices -> Nat]
            /\ mon.cb => \A e \in Devices : known'[e] = Cardinality(Records(e)')
        BY <1>1, <3>1, <3>3, <4>4, <4>5, <4>6, ReportKeeps, Zenon
      <4> QED BY <1>1, <1>2, <1>3, <2>2, <2>3, <3>3, <4>1, <4>2, <4>7, ListChanges, Zenon
    <3>4. CASE FindCrashes(m.dev) /\ crashed' = TRUE /\ UNCHANGED <<devices, known>>
      BY Zenon, <3>2, <3>4
    <3>5. CASE UNCHANGED <<devices, known, crashed>> BY Zenon, <1>2, <3>2, <3>5
    <3> QED BY Zenon, <2>7, <3>3, <3>4, <3>5 DEF DeviceRemove
  <2>8. CASE m.type = "PAIRED" /\ DevicePaired(m.dev)
    <3>1. crashed' = FindCrashes(m.dev) /\ UNCHANGED <<devices, known>> BY Zenon, <2>8
      DEF DevicePaired
    <3>2. FindCrashes(m.dev) \in BOOLEAN BY Zenon DEF FindCrashes
    <3> QED BY Zenon, <2>5, <3>1, <3>2
  <2>9. CASE UNCHANGED <<devices, known, crashed>> BY Zenon, <1>2, <2>5, <2>9
  <2> QED BY Zenon, <1>6, <2>6, <2>7, <2>8, <2>9 DEF m
<1> QED BY Zenon, <1>5, <1>6 DEF get_next_event

\* The thread ends and frees the list.
LEMMA device_monitor_cleanupKeeps == ASSUME ClientInv, device_monitor_cleanup PROVE ClientInv'
<1>1. TypeOK /\ mon.at = "cleanup" /\ ~event_cb /\ app # "idle" /\ app # "subscribed"
  BY Zenon DEF ClientInv, device_monitor_cleanup, At
<1>2. UNCHANGED <<daemon, event_cb, app, call, try_list_devices, proto_version, known, crashed>>
  BY Zenon DEF device_monitor_cleanup, quiet, appVars, callVars, shared
<1>3. mon'.at = "off" /\ mon'.cb = FALSE /\ mon' \in [at : Places, plist : BOOLEAN, cb : BOOLEAN]
  BY Zenon DEF device_monitor_cleanup, Goto, Places
<1>4. devices' = <<>> /\ listenfd' = FALSE BY Zenon DEF device_monitor_cleanup
<1>5. sock' \in Sock
  <2>1. sock \in Sock BY Zenon, <1>1 DEF TypeOK, Sock
  <2> QED BY <2>1, Zenon DEF device_monitor_cleanup, Sock
<1>6. devices' \in Seq(Devices \cup {0}) /\ listenfd' \in BOOLEAN
  <2>1. <<>> \in Seq(Devices \cup {0}) BY Zenon, EmptySeq
  <2> QED BY <1>4, <2>1, Zenon
<1>7. TypeOK' BY Zenon, <1>1, <1>2, <1>3, <1>5, <1>6 DEF TypeOK, Sock, Places
<1> QED BY Zenon, <1>1, <1>2, <1>3, <1>4, <1>7 DEF ClientInv, FreshStart

-----------------------------------------------------------------------------
(* Subscribing.                                                              *)

\* A subscription starts with an empty list and a program that knows nothing.
LEMMA usbmuxd_subscribeKeeps == ASSUME ClientInv, usbmuxd_subscribe PROVE ClientInv'
<1>1. /\ TypeOK /\ mon.at = "off" /\ devices = <<>>
      /\ \A d \in Devices : known[d] = 0
  BY Zenon DEF ClientInv, usbmuxd_subscribe
<1>2. /\ UNCHANGED <<daemon, sock, listenfd, devices, known, call, proto_version, try_list_devices, crashed>>
      /\ event_cb' = TRUE /\ app' = "subscribed"
  BY Zenon DEF usbmuxd_subscribe, callVars, shared
<1>3. mon'.at = "start" /\ mon'.cb = FALSE /\ mon' \in [at : Places, plist : BOOLEAN, cb : BOOLEAN]
  BY Zenon DEF usbmuxd_subscribe, Goto, Places
<1>4. TypeOK' BY Zenon, <1>1, <1>2, <1>3 DEF TypeOK, Places
<1>5. ASSUME NEW d \in Devices PROVE known'[d] = Cardinality(Records(d)')
  <2>1. Records(d)' = Slots(devices', d) BY Zenon DEF Records, Slots
  <2>2. \A i \in DOMAIN devices' : devices'[i] = 0 BY <1>1, <1>2
  <2>3. Cardinality(Records(d)') = 0 BY <2>1, <2>2, NoRecords, Zenon
  <2> QED BY Zenon, <1>1, <1>2, <2>3
<1> QED BY Zenon, <1>1, <1>2, <1>3, <1>4, <1>5 DEF ClientInv, FreshStart

\* The three steps of usbmuxd_unsubscribe.
LEMMA usbmuxd_unsubscribeKeeps == ASSUME ClientInv, usbmuxd_unsubscribe PROVE ClientInv'
<1>1. TypeOK BY Zenon DEF ClientInv
<1>2. UNCHANGED <<daemon, listenfd, devices, mon, call, proto_version, try_list_devices, crashed>>
  BY Zenon DEF usbmuxd_unsubscribe, callVars, shared
<1>3. sock' \in Sock
  <2>1. sock \in Sock BY Zenon, <1>1 DEF TypeOK, Sock
  <2> QED BY <2>1, Zenon DEF usbmuxd_unsubscribe, Shutdown, Sock
<1>4. CASE app = "subscribed" /\ app' = "shutdown" /\ event_cb' = FALSE /\ UNCHANGED known
  <2>1. TypeOK' BY Zenon, <1>1, <1>2, <1>3, <1>4 DEF TypeOK, Sock
  <2> QED BY Zenon, <1>2, <1>4, <2>1 DEF ClientInv, FreshStart, Records
<1>5. CASE app = "shutdown" /\ app' = "wait" /\ UNCHANGED <<event_cb, known>>
  <2>1. TypeOK' BY <1>1, <1>2, <1>3, <1>5 DEF TypeOK, Sock
  <2> QED BY Zenon, <1>2, <1>5, <2>1 DEF ClientInv, FreshStart, Records
<1>6. CASE /\ app = "wait" /\ At("off") /\ app' = "idle"
           /\ known' = [d \in Devices |-> 0] /\ UNCHANGED event_cb
  <2>1. TypeOK' BY Zenon, <1>1, <1>2, <1>3, <1>6 DEF TypeOK, Sock
  <2>2. ~event_cb /\ ~mon.cb BY Zenon, <1>6 DEF ClientInv, At
  <2> QED BY Zenon, <1>2, <1>6, <2>1, <2>2 DEF ClientInv, FreshStart, At
<1> QED BY Zenon, <1>4, <1>5, <1>6 DEF usbmuxd_unsubscribe

-----------------------------------------------------------------------------
(* The theorems.                                                             *)

\* Every step keeps the invariant.
LEMMA NextKeeps == ClientInv /\ [Next]_vars => ClientInv'
<1> SUFFICES ASSUME ClientInv, [Next]_vars PROVE ClientInv' BY Zenon
<1>1. CASE Monitor
  BY Zenon, <1>1, device_monitorKeeps, usbmuxd_listen_pollKeeps, send_listen_packetKeeps,
     usbmuxd_listenKeeps, get_next_eventKeeps, device_monitor_cleanupKeeps DEF Monitor
<1>2. CASE UNCHANGED vars
  <2>1. TypeOK' BY <1>2 DEF vars, monVars, appVars, callVars, shared, ClientInv, TypeOK
  <2> QED BY Zenon, <1>2, <2>1, Undisturbed DEF vars, monVars, appVars, Thread
<1> QED
  BY Zenon, <1>1, <1>2, usbmuxd_subscribeKeeps, usbmuxd_unsubscribeKeeps, RequestKeeps,
     AnswerListenKeeps, DaemonEventKeeps, DaemonRestartKeeps DEF Next

\* The monitor thread, the program and the list of devices stay consistent, wherever
\* the program unsubscribes and however often the daemon ends.
THEOREM ClientInvariance == Spec => []ClientInv
BY InitInv, NextKeeps, PTL DEF Spec

\* The variables keep their types; no count of what the program knows is negative.
THEOREM ClientTypes == Spec => []TypeOK
<1>1. ClientInv => TypeOK BY Zenon DEF ClientInv
<1> QED BY <1>1, ClientInvariance, PTL

\* generate_event tells a program that is subscribed exactly what the list records.
THEOREM ProgramMirrorsList == Spec => []Mirrored
<1>1. ClientInv => Mirrored BY Zenon DEF ClientInv, Mirrored
<1> QED BY <1>1, ClientInvariance, PTL

\* get_next_event leaves no record of a daemon that is lost.
THEOREM NothingLeftOver == Spec => []FreshStart
<1>1. ClientInv => FreshStart BY Zenon DEF ClientInv
<1> QED BY <1>1, ClientInvariance, PTL

\* No callback comes after usbmuxd_unsubscribe has returned.
THEOREM QuietAfterUnsubscribe == Spec => NoLateEvents
<1>1. ASSUME ClientInv, Next, known' # known PROVE app # "idle"
  <2>1. CASE get_next_event BY Zenon, <1>1, <2>1 DEF get_next_event, At, ClientInv
  <2>2. CASE usbmuxd_unsubscribe BY Zenon, <2>2 DEF usbmuxd_unsubscribe
  <2>3. CASE Monitor BY Zenon, <1>1, <2>1, <2>3
    DEF Monitor, device_monitor, usbmuxd_listen_poll, send_listen_packet, usbmuxd_listen,
        device_monitor_cleanup
  <2>4. CASE \E t \in Callers : Begin(t) /\ UNCHANGED <<daemon, monVars, appVars>>
    BY Zenon, <1>1, <2>4 DEF monVars
  <2>5. CASE \E t \in Callers : Request(t) BY Zenon, <1>1, <2>5 DEF Request, monVars
  <2>6. CASE usbmuxd_subscribe \/ AnswerListen \/ DaemonEvent \/ DaemonStarts \/ DaemonEnds
    BY Zenon, <1>1, <2>6
    DEF usbmuxd_subscribe, AnswerListen, DaemonEvent, DaemonStarts, DaemonEnds, monVars
  <2> QED BY Zenon, <1>1, <2>2, <2>3, <2>4, <2>5, <2>6 DEF Next
<1>2. ClientInv /\ [Next]_vars => [known' # known => app # "idle"]_vars BY Zenon, <1>1
<1> QED BY <1>2, ClientInvariance, PTL DEF Spec, NoLateEvents

-----------------------------------------------------------------------------
(* The devices that are attached.                                            *)

\* Tracked, of a queue and of whether d is recorded.
TrackedBy(q, recorded, d) ==
  \/ recorded /\ \A i \in DOMAIN q : q[i] # Removed(d)
  \/ \E i \in DOMAIN q : q[i] = Added(d) /\ \A j \in DOMAIN q : i < j => q[j] # Removed(d)

\* The two say the same.
LEMMA TrackedIs == ASSUME NEW d PROVE Tracked(d) <=> TrackedBy(sock.queue, Records(d) # {}, d)
BY Zenon DEF Tracked, TrackedBy

\* The reports of a device are no removals, and the messages of one device are not those
\* of another.
LEMMA MessagesDiffer ==
  ASSUME NEW d, NEW e
  PROVE  /\ Added(d) # Removed(e)
         /\ [type |-> "PAIRED", dev |-> d] # Removed(e)
         /\ Removed(d) = Removed(e) => d = e
         /\ Removed(d).type = "REMOVE" /\ Removed(d).dev = d
         /\ Added(d).type = "ADD" /\ Added(d).dev = d
<1>1. Added(d).type = "ADD" /\ Added(d).dev = d BY Zenon DEF Added
<1>2. \A x : Removed(x).type = "REMOVE" /\ Removed(x).dev = x BY Zenon DEF Removed
<1>3. [type |-> "PAIRED", dev |-> d].type = "PAIRED" BY Zenon
<1>4. "ADD" # "REMOVE" /\ "PAIRED" # "REMOVE" OBVIOUS
<1>5. Added(d) # Removed(e) BY Zenon, <1>1, <1>2, <1>4
<1>6. [type |-> "PAIRED", dev |-> d] # Removed(e) BY Zenon, <1>2, <1>3, <1>4
<1>7. Removed(d) = Removed(e) => d = e
  <2>1. Removed(d).dev = d /\ Removed(e).dev = e BY Zenon, <1>2
  <2> QED BY <2>1
<1> QED BY Zenon, <1>1, <1>2, <1>5, <1>6, <1>7

\* More messages that do not remove d change nothing.
LEMMA TrackedLonger ==
  ASSUME NEW q \in Seq(Messages), NEW ms \in Seq(Messages), NEW recorded \in BOOLEAN, NEW d,
         TrackedBy(q, recorded, d), \A i \in DOMAIN ms : ms[i] # Removed(d)
  PROVE  TrackedBy(q \o ms, recorded, d)
<1> DEFINE t == q \o ms
<1>1. /\ DOMAIN q = 1..Len(q) /\ DOMAIN ms = 1..Len(ms) /\ DOMAIN t = 1..(Len(q) + Len(ms))
      /\ Len(q) \in Nat /\ Len(ms) \in Nat
      /\ \A i \in 1..Len(q) : t[i] = q[i]
      /\ \A i \in DOMAIN t : i \notin DOMAIN q => i - Len(q) \in DOMAIN ms /\ t[i] = ms[i - Len(q)]
  OBVIOUS
<1>2. \A i \in DOMAIN q : i \in DOMAIN t /\ t[i] = q[i] BY <1>1
<1> HIDE DEF t
<1>3. \A i \in DOMAIN t : i \notin DOMAIN q => t[i] # Removed(d) BY Zenon, <1>1
<1> QED BY Zenon, <1>2, <1>3 DEF TrackedBy, t

\* A device that is added at the end is tracked.
LEMMA TrackedAtEnd ==
  ASSUME NEW q \in Seq(Messages), NEW ms \in Seq(Messages), NEW recorded \in BOOLEAN, NEW d,
         NEW k \in DOMAIN ms, ms[k] = Added(d), \A i \in DOMAIN ms : ms[i] # Removed(d)
  PROVE  TrackedBy(q \o ms, recorded, d)
<1> DEFINE t == q \o ms
           n == Len(q) + k
<1>1. /\ n \in DOMAIN t /\ t[n] = ms[k]
      /\ \A j \in DOMAIN t : n < j => j - Len(q) \in DOMAIN ms /\ t[j] = ms[j - Len(q)]
  OBVIOUS
<1> HIDE DEF t, n
<1> QED BY Zenon, <1>1 DEF TrackedBy, t

\* The first message is applied: its device is recorded if it is added, and the one that
\* is removed is the only one that can lose a record.
LEMMA TrackedShorter ==
  ASSUME NEW q \in Seq(Messages), q # <<>>, NEW before \in BOOLEAN, NEW after \in BOOLEAN, NEW d,
         TrackedBy(q, before, d),
         Head(q) = Added(d) => after,
         before /\ Head(q) # Removed(d) => after
  PROVE  TrackedBy(Tail(q), after, d)
<1> DEFINE t == Tail(q)
<1>1. /\ 1 \in DOMAIN q /\ Head(q) = q[1]
      /\ \A i \in DOMAIN t : i + 1 \in DOMAIN q /\ t[i] = q[i + 1] /\ 1 < i + 1
      /\ \A i \in DOMAIN q : i # 1 => i - 1 \in DOMAIN t /\ t[i - 1] = q[i]
  OBVIOUS
<1>2. \A i \in DOMAIN q, j \in DOMAIN t : i # 1 /\ i - 1 < j => i < j + 1 OBVIOUS
<1> HIDE DEF t
<1>3. CASE before /\ \A i \in DOMAIN q : q[i] # Removed(d)
  <2>1. after BY Zenon, <1>1, <1>3
  <2>2. ASSUME NEW i \in DOMAIN t PROVE t[i] # Removed(d)
    <3>1. i + 1 \in DOMAIN q /\ t[i] = q[i + 1] BY Zenon, <1>1
    <3> QED BY Zenon, <1>3, <3>1
  <2> QED BY Zenon, <2>1, <2>2 DEF TrackedBy, t
<1>4. ASSUME NEW i \in DOMAIN q, q[i] = Added(d), \A j \in DOMAIN q : i < j => q[j] # Removed(d)
      PROVE  TrackedBy(t, after, d)
  <2>1. CASE i = 1
    <3>1. after BY Zenon, <1>1, <1>4, <2>1
    <3>2. ASSUME NEW j \in DOMAIN t PROVE t[j] # Removed(d)
      <4>1. j + 1 \in DOMAIN q /\ t[j] = q[j + 1] /\ i < j + 1 BY Zenon, <1>1, <2>1
      <4> QED BY Zenon, <1>4, <4>1
    <3> QED BY Zenon, <3>1, <3>2 DEF TrackedBy
  <2>2. CASE i # 1
    <3>1. i - 1 \in DOMAIN t /\ t[i - 1] = Added(d) BY Zenon, <1>1, <1>4, <2>2
    <3>2. \A j \in DOMAIN t : i - 1 < j => t[j] # Removed(d) BY Zenon, <1>1, <1>2, <1>4, <2>2
    <3> QED BY Zenon, <3>1, <3>2 DEF TrackedBy
  <2> QED BY Zenon, <2>1, <2>2
<1> QED BY Zenon, <1>3, <1>4 DEF TrackedBy, t

\* The first message skipped: an answer to Listen is about no device.
LEMMA TrackedSkips ==
  ASSUME NEW q \in Seq(Messages), q # <<>>, NEW recorded \in BOOLEAN, NEW d,
         TrackedBy(q, recorded, d), Head(q).type = "RESULT"
  PROVE  TrackedBy(Tail(q), recorded, d)
<1>1. "RESULT" # "ADD" OBVIOUS
<1>2. Head(q) # Added(d) BY Zenon, <1>1, MessagesDiffer
<1> QED BY Zenon, <1>2, TrackedShorter

\* Whatever does not touch the socket, the list, the thread and what is attached.
LEMMA AttachedSame ==
  ASSUME AttachedInv, UNCHANGED <<sock, listenfd, devices, mon, event_cb>>,
         daemon'.attached = daemon.attached
  PROVE  AttachedInv'
BY Zenon DEF AttachedInv, Attending, Tracked, Records

\* A socket that is closed.
LEMMA AttachedClosed ==
  ASSUME sock'.open = FALSE, mon'.at \in {"events", "call", "receive"} => listenfd'
  PROVE  AttachedInv'
BY Zenon DEF AttachedInv

\* A socket to which nothing is reported yet, before Listen is sent or after it is given up.
LEMMA AttachedSilent ==
  ASSUME sock'.open => ~sock'.listening /\ sock'.req = {},
         sock'.open /\ mon'.at \in {"format", "send"} => sock'.queue = <<>>,
         mon'.at \notin {"events", "call", "receive", "result"}
  PROVE  AttachedInv'
BY Zenon DEF AttachedInv

\* A step of the thread alone.
LEMMA AttachedMoves ==
  ASSUME AttachedInv, UNCHANGED <<daemon, sock, devices>>,
         sock.open /\ (sock.listening \/ sock.req # {}) => Attending',
         mon'.at \in {"events", "call", "receive"} => listenfd',
         mon'.at \notin {"format", "send", "result"}
  PROVE  AttachedInv'
<1>1. \A d \in daemon.attached : Tracked(d) => Tracked(d)' BY Zenon DEF Tracked, Records
<1>2. sock.open /\ sock.listening => \A d \in daemon.attached : Tracked(d) BY Zenon DEF AttachedInv
<1>3. sock'.open /\ sock'.listening => \A d \in daemon'.attached : Tracked(d)' BY Zenon, <1>1, <1>2
<1> QED BY Zenon, <1>3 DEF AttachedInv

\* Where the thread does not attend to it, nothing is reported to the socket.
LEMMA SilentElsewhere ==
  ASSUME AttachedInv, sock.open,
         \/ mon.at \notin {"result", "events", "call", "receive", "loop", "cleanup"}
         \/ mon.at \in {"loop", "cleanup"} /\ (event_cb \/ ~listenfd)
  PROVE  ~sock.listening /\ sock.req = {}
BY Zenon DEF AttachedInv, Attending

\* The loops of device_monitor leave a socket that is listened to only when nobody is
\* subscribed.
LEMMA device_monitorAttends == ASSUME ClientInv, AttachedInv, device_monitor PROVE AttachedInv'
<1>1. UNCHANGED <<daemon, sock, listenfd, event_cb>> BY Zenon DEF device_monitor, quiet, appVars
<1>2. CASE At("start") /\ Goto("loop")
  <2>1. mon.at = "start" /\ mon'.at = "loop" BY Zenon, <1>2 DEF At, Goto
  <2> QED BY Zenon, <1>1, <2>1, SilentElsewhere, AttachedSilent
<1>3. CASE At("loop") /\ event_cb /\ Goto("connect")
  <2>1. mon.at = "loop" /\ mon'.at = "connect" BY Zenon, <1>3 DEF At, Goto
  <2> QED BY Zenon, <1>1, <1>3, <2>1, SilentElsewhere, AttachedSilent
<1>4. CASE At("loop") /\ ~event_cb /\ Goto("cleanup") /\ UNCHANGED devices
  <2>1. mon.at = "loop" /\ mon'.at = "cleanup" BY Zenon, <1>4 DEF At, Goto
  <2>2. sock.open /\ (sock.listening \/ sock.req # {}) => Attending'
    BY Zenon, <1>1, <2>1 DEF AttachedInv, Attending
  <2> QED BY Zenon, <1>1, <1>4, <2>1, <2>2, AttachedMoves
<1>5. CASE At("events") /\ event_cb /\ Goto("call") /\ UNCHANGED devices
  <2>1. mon.at = "events" /\ mon'.at = "call" BY Zenon, <1>5 DEF At, Goto
  <2>2. listenfd' BY Zenon, <1>1, <2>1 DEF AttachedInv
  <2>3. Attending' BY Zenon, <2>1 DEF Attending
  <2> QED BY Zenon, <1>1, <1>5, <2>1, <2>2, <2>3, AttachedMoves
<1>6. CASE At("events") /\ ~event_cb /\ Goto("loop") /\ UNCHANGED devices
  <2>1. mon.at = "events" /\ mon'.at = "loop" BY Zenon, <1>6 DEF At, Goto
  <2>2. listenfd' BY Zenon, <1>1, <2>1 DEF AttachedInv
  <2>3. Attending' BY Zenon, <1>1, <1>6, <2>1, <2>2 DEF Attending
  <2> QED BY Zenon, <1>1, <1>6, <2>1, <2>2, <2>3, AttachedMoves
<1>7. CASE At("call") /\ mon' = [mon EXCEPT !.at = "receive", !.cb = event_cb] /\ UNCHANGED devices
  <2>1. mon.at = "call" /\ mon'.at = "receive" BY Zenon, <1>7 DEF At, ClientInv, TypeOK
  <2>2. listenfd' BY Zenon, <1>1, <2>1 DEF AttachedInv
  <2>3. Attending' BY Zenon, <2>1 DEF Attending
  <2> QED BY Zenon, <1>1, <1>7, <2>1, <2>2, <2>3, AttachedMoves
<1> QED BY Zenon, <1>2, <1>3, <1>4, <1>5, <1>6, <1>7 DEF device_monitor

\* A new socket is silent.
LEMMA usbmuxd_listen_pollAttends == ASSUME AttachedInv, usbmuxd_listen_poll PROVE AttachedInv'
<1>1. CASE Connected
  <2>1. sock'.listening = FALSE /\ sock'.req = {} /\ sock'.queue = <<>> /\ mon'.at = "format"
    BY Zenon, <1>1 DEF Connected, Goto
  <2> QED BY Zenon, <2>1, AttachedSilent
<1>2. CASE At("connect") /\ Goto("poll") /\ UNCHANGED sock
  <2>1. mon.at = "connect" /\ mon'.at = "poll" BY Zenon, <1>2 DEF At, Goto
  <2> QED BY Zenon, <1>2, <2>1, SilentElsewhere, AttachedSilent
<1>3. CASE At("poll") /\ Goto("loop") /\ UNCHANGED sock
  <2>1. mon.at = "poll" /\ mon'.at = "loop" BY Zenon, <1>3 DEF At, Goto
  <2> QED BY Zenon, <1>3, <2>1, SilentElsewhere, AttachedSilent
<1> QED BY Zenon, <1>1, <1>2, <1>3 DEF usbmuxd_listen_poll

\* The fields of the socket and of the thread.
LEMMA SockFields ==
  ASSUME ClientInv
  PROVE  /\ sock \in Sock /\ sock.open \in BOOLEAN /\ sock.listening \in BOOLEAN
         /\ sock.queue \in Seq(Messages)
         /\ mon \in [at : Places, plist : BOOLEAN, cb : BOOLEAN]
<1>1. sock \in Sock BY Zenon DEF ClientInv, TypeOK, Sock
<1>2. mon \in [at : Places, plist : BOOLEAN, cb : BOOLEAN] BY Zenon DEF ClientInv, TypeOK, Places
<1> QED BY Zenon, <1>1, <1>2 DEF Sock

\* Listen is sent on a socket that has nothing queued.
LEMMA send_listen_packetAttends ==
  ASSUME ClientInv, AttachedInv, send_listen_packet PROVE AttachedInv'
<1>1. sock \in Sock /\ mon \in [at : Places, plist : BOOLEAN, cb : BOOLEAN] /\ sock.open \in BOOLEAN
  BY Zenon, SockFields
<1>2. CASE /\ At("format") /\ UNCHANGED sock
           /\ mon' = [mon EXCEPT !.at = "send", !.plist = (proto_version = 1)]
  <2>1. mon.at = "format" /\ mon'.at = "send" BY Zenon, <1>1, <1>2 DEF At
  <2>2. sock.open => sock.queue = <<>> BY Zenon, <2>1 DEF AttachedInv
  <2> QED BY Zenon, <1>2, <2>1, <2>2, SilentElsewhere, AttachedSilent
<1>3. CASE /\ At("send") /\ sock.open /\ Goto("result")
           /\ sock' = [sock EXCEPT !.req = {[plist |-> mon.plist, version |-> proto_version]}]
  <2>1. mon.at = "send" /\ mon'.at = "result" BY Zenon, <1>3 DEF At, Goto
  <2>2. ~sock.listening /\ sock.queue = <<>> BY Zenon, <1>3, <2>1, SilentElsewhere DEF AttachedInv
  <2>3. sock'.listening = sock.listening /\ sock'.queue = sock.queue BY Zenon, <1>1, <1>3 DEF Sock
  <2>4. Attending' BY Zenon, <2>1 DEF Attending
  <2> QED BY Zenon, <2>1, <2>2, <2>3, <2>4 DEF AttachedInv
<1>4. CASE At("send") /\ ~sock.open /\ Goto("loop") /\ UNCHANGED sock
  <2>1. mon'.at = "loop" /\ sock'.open = FALSE BY Zenon, <1>1, <1>4 DEF Goto
  <2> QED BY Zenon, <2>1, AttachedClosed
<1> QED BY Zenon, <1>2, <1>3, <1>4 DEF send_listen_packet

\* usbmuxd_listen takes nothing but the answer from the socket, if it has come.
LEMMA usbmuxd_listenAttends == ASSUME ClientInv, AttachedInv, usbmuxd_listen PROVE AttachedInv'
<1>1. sock \in Sock /\ sock.open \in BOOLEAN /\ sock.queue \in Seq(Messages) BY Zenon, SockFields
<1>2. mon.at = "result" /\ UNCHANGED <<daemon, devices>> BY Zenon DEF usbmuxd_listen, At
<1>3. CASE sock.queue = <<>> /\ listenfd' = TRUE /\ Goto("events") /\ UNCHANGED sock
  <2>1. mon'.at = "events" BY Zenon, <1>3 DEF Goto
  <2>2. Attending' BY Zenon, <2>1 DEF Attending
  <2> QED BY Zenon, <1>2, <1>3, <2>1, <2>2, AttachedMoves
<1>4. CASE /\ sock.queue # <<>> /\ sock' = [sock EXCEPT !.queue = Tail(@)]
           /\ listenfd' = TRUE /\ Goto("events")
  <2>1. mon'.at = "events" /\ sock'.open = sock.open /\ sock'.listening = sock.listening
        /\ sock'.queue = Tail(sock.queue)
    BY Zenon, <1>1, <1>4 DEF Goto, Sock
  <2>2. Attending' BY Zenon, <2>1 DEF Attending
  <2>3. ASSUME sock.open, sock.listening, NEW d \in daemon.attached PROVE Tracked(d)'
    <3>1. Head(sock.queue).type = "RESULT" BY Zenon, <1>2, <1>4, <2>3 DEF AttachedInv
    <3>2. TrackedBy(sock.queue, Records(d) # {}, d) BY Zenon, <2>3, TrackedIs DEF AttachedInv
    <3>3. (Records(d) # {}) \in BOOLEAN BY Zenon
    <3>4. TrackedBy(Tail(sock.queue), Records(d) # {}, d)
      BY Zenon, <1>1, <1>4, <3>1, <3>2, <3>3, TrackedSkips
    <3>5. Records(d)' = Records(d) BY Zenon, <1>2 DEF Records
    <3> QED BY Zenon, <2>1, <3>4, <3>5 DEF Tracked, TrackedBy
  <2> QED BY Zenon, <1>2, <1>4, <2>1, <2>2, <2>3 DEF AttachedInv
<1>5. CASE sock' = [sock EXCEPT !.open = FALSE, !.queue = <<>>] /\ (Goto("connect") \/ Goto("loop"))
  <2>1. sock'.open = FALSE BY Zenon, <1>1, <1>5 DEF Sock
  <2>2. CASE Goto("connect")
    <3>1. mon'.at = "connect" BY Zenon, <2>2 DEF Goto
    <3> QED BY Zenon, <2>1, <3>1, AttachedClosed
  <2>3. CASE Goto("loop")
    <3>1. mon'.at = "loop" BY Zenon, <2>3 DEF Goto
    <3> QED BY Zenon, <2>1, <3>1, AttachedClosed
  <2> QED BY Zenon, <1>5, <2>2, <2>3
<1> QED BY Zenon, <1>3, <1>4, <1>5 DEF usbmuxd_listen, Downgrade

\* Only a REMOVE can take the last record of a device away, and an ADD gives it one.
LEMMA RecordsKept ==
  ASSUME ClientInv, get_next_event, sock.queue # <<>>, NEW e \in Devices
  PROVE  /\ Head(sock.queue) = Added(e) => Records(e)' # {}
         /\ Records(e) # {} /\ Head(sock.queue) # Removed(e) => Records(e)' # {}
<1> DEFINE m == Head(sock.queue)
<1>1. TypeOK /\ mon.at = "receive" /\ devices # <<>> BY Zenon DEF ClientInv, get_next_event, At
<1>2. devices \in Seq(Devices \cup {0}) BY Zenon, <1>1 DEF TypeOK
<1>3. sock.queue \in Seq(Messages) BY Zenon, SockFields
<1>4. m \in Messages BY <1>3
<1>5. Records(e) = Slots(devices, e) /\ Records(e)' = Slots(devices', e) BY Zenon DEF Records, Slots
<1>6. Cardinality({}) = 0 BY Zenon, FS_EmptySet
<1>7. IsFiniteSet(Records(e)) /\ Cardinality(Records(e)) \in Nat BY Zenon, <1>2, <1>5, SlotsFinite
<1>8. Records(e) # {} => Cardinality(Records(e)) # 0 BY Zenon, <1>7, FS_EmptySet
<1> HIDE DEF m
<1>9. CASE UNCHANGED devices /\ m.type # "ADD"
  <2>1. Records(e)' = Records(e) BY Zenon, <1>5, <1>9
  <2>2. m # Added(e)
    <3>1. Added(e).type = "ADD" BY Zenon, MessagesDiffer
    <3> QED BY Zenon, <1>9, <3>1
  <2> QED BY Zenon, <2>1, <2>2 DEF m
<1>10. CASE m.type = "ADD" /\ DeviceAdd(m.dev)
  <2>1. m.dev \in Devices BY Zenon, <1>4, <1>10 DEF Messages
  <2>2. devices' = collection_add(m.dev) BY Zenon, <1>10 DEF DeviceAdd
  <2>3. Cardinality(Records(e)') = IF e = m.dev THEN Cardinality(Records(e)) + 1
                                   ELSE Cardinality(Records(e))
    BY Zenon, <1>1, <1>2, <1>5, <2>1, <2>2, CollectionAdd
  <2>4. m = Added(e) => e = m.dev BY Zenon, MessagesDiffer
  <2>5. e = m.dev => Cardinality(Records(e)') # 0 BY <1>7, <2>3
  <2>6. Records(e) # {} => Cardinality(Records(e)') # 0 BY <1>7, <1>8, <2>3
  <2> QED BY Zenon, <1>6, <2>4, <2>5, <2>6 DEF m
<1>11. CASE m.type = "REMOVE" /\ DeviceRemove(m.dev)
  <2>1. m.dev \in Devices BY Zenon, <1>4, <1>11 DEF Messages
  <2>2. "ADD" # "REMOVE" /\ m # Added(e)
    <3>1. "ADD" # "REMOVE" OBVIOUS
    <3> QED BY Zenon, <1>11, <3>1, MessagesDiffer
  <2>3. CASE UNCHANGED devices BY Zenon, <1>9, <1>11, <2>2, <2>3
  <2>4. CASE /\ FindEnds(m.dev) # {} /\ ~FindCrashes(m.dev)
             /\ devices' = [devices EXCEPT ![First(FindEnds(m.dev))] = 0]
    <3>1. ASSUME m # Removed(e) PROVE e # m.dev
      <4>1. m \in [type : {"ADD", "REMOVE", "PAIRED"}, dev : Devices]
        <5>1. "REMOVE" # "RESULT" OBVIOUS
        <5>2. m \notin [type : {"RESULT"}, res : Answers] BY Zenon, <1>11, <5>1
        <5> QED BY Zenon, <1>4, <5>2 DEF Messages
      <4>2. m = [type |-> m.type, dev |-> m.dev] BY Zenon, <4>1
      <4> QED BY Zenon, <1>11, <3>1, <4>2 DEF Removed
    <3>2. e # m.dev => Cardinality(Records(e)') = Cardinality(Records(e))
      <4>1. Cardinality(Slots(devices', e)) =
              IF e = m.dev THEN Cardinality(Records(e)) - 1 ELSE Cardinality(Records(e))
        BY ZenonT(40), <1>2, <2>1, <2>4, CollectionRemove
      <4> QED BY Zenon, <1>5, <4>1
    <3> QED BY Zenon, <1>6, <1>8, <2>2, <3>1, <3>2 DEF m
  <2> QED BY Zenon, <1>11, <2>3, <2>4 DEF DeviceRemove
<1>12. CASE (m.type = "PAIRED" \/ m.type = "RESULT") /\ UNCHANGED devices
  <2>1. m.type # "ADD" BY <1>12
  <2> QED BY Zenon, <1>9, <1>12, <2>1
<1> QED BY Zenon, <1>10, <1>11, <1>12 DEF get_next_event, DevicePaired, m

\* get_next_event keeps every device that is attached recorded, or about to be.
LEMMA get_next_eventAttends == ASSUME ClientInv, AttachedInv, get_next_event PROVE AttachedInv'
<1>1. sock \in Sock /\ sock.open \in BOOLEAN /\ sock.queue \in Seq(Messages) BY Zenon, SockFields
<1>2. mon.at = "receive" /\ UNCHANGED <<daemon, listenfd>> BY Zenon DEF get_next_event, At, quiet
<1>3. CASE ~sock.open /\ Goto("loop") /\ UNCHANGED sock
  <2>1. mon'.at = "loop" /\ sock'.open = FALSE BY Zenon, <1>1, <1>3 DEF Goto
  <2> QED BY Zenon, <2>1, AttachedClosed
<1>4. CASE sock.queue # <<>> /\ sock' = [sock EXCEPT !.queue = Tail(@)] /\ Goto("events")
  <2>1. mon'.at = "events" /\ sock'.open = sock.open /\ sock'.listening = sock.listening
        /\ sock'.queue = Tail(sock.queue)
    BY Zenon, <1>1, <1>4 DEF Goto, Sock
  <2>2. Attending' BY Zenon, <2>1 DEF Attending
  <2>3. ASSUME sock.open, sock.listening, NEW d \in daemon.attached PROVE Tracked(d)'
    <3>1. d \in Devices BY Zenon DEF ClientInv, TypeOK
    <3>2. TrackedBy(sock.queue, Records(d) # {}, d) BY Zenon, <2>3, TrackedIs DEF AttachedInv
    <3>3. (Records(d) # {}) \in BOOLEAN /\ (Records(d)' # {}) \in BOOLEAN BY Zenon
    <3>4. TrackedBy(Tail(sock.queue), Records(d)' # {}, d)
      BY Zenon, <1>1, <1>4, <3>1, <3>2, <3>3, RecordsKept, TrackedShorter
    <3> QED BY Zenon, <2>1, <3>4 DEF Tracked, TrackedBy
  <2>4. listenfd' BY Zenon, <1>2 DEF AttachedInv
  <2> QED BY Zenon, <1>2, <1>4, <2>1, <2>2, <2>3, <2>4 DEF AttachedInv
<1> QED BY Zenon, <1>3, <1>4 DEF get_next_event

\* The thread ends: its socket is closed if it was listened to.
LEMMA device_monitor_cleanupAttends ==
  ASSUME ClientInv, AttachedInv, device_monitor_cleanup PROVE AttachedInv'
<1>1. sock \in Sock BY Zenon, SockFields
<1>2. mon.at = "cleanup" /\ mon'.at = "off" BY Zenon DEF device_monitor_cleanup, At, Goto
<1>3. CASE listenfd
  <2>1. sock' = [sock EXCEPT !.open = FALSE] BY Zenon, <1>3 DEF device_monitor_cleanup
  <2>2. sock'.open = FALSE BY Zenon, <1>1, <2>1 DEF Sock
  <2> QED BY Zenon, <1>2, <2>2, AttachedClosed
<1>4. CASE ~listenfd
  <2>1. sock' = sock BY Zenon, <1>4 DEF device_monitor_cleanup
  <2> QED BY Zenon, <1>2, <1>4, <2>1, SilentElsewhere, AttachedSilent
<1> QED BY Zenon, <1>3, <1>4

\* A subscription starts without a thread, and with no socket that is listened to.
LEMMA usbmuxd_subscribeAttends ==
  ASSUME ClientInv, AttachedInv, usbmuxd_subscribe PROVE AttachedInv'
<1>1. mon.at = "off" /\ sock' = sock BY Zenon DEF usbmuxd_subscribe, ClientInv
<1>2. mon'.at = "start" BY Zenon DEF usbmuxd_subscribe, Goto
<1> QED BY Zenon, <1>1, <1>2, SilentElsewhere, AttachedSilent

\* usbmuxd_unsubscribe closes the socket, or leaves it to the thread.
LEMMA usbmuxd_unsubscribeAttends ==
  ASSUME ClientInv, AttachedInv, usbmuxd_unsubscribe PROVE AttachedInv'
<1>1. UNCHANGED <<daemon, listenfd, devices, mon>> BY Zenon DEF usbmuxd_unsubscribe
<1>2. sock \in Sock BY Zenon, SockFields
<1>3. CASE sock' = [sock EXCEPT !.open = FALSE]
  <2>1. sock'.open = FALSE BY Zenon, <1>2, <1>3 DEF Sock
  <2> QED BY Zenon, <1>1, <2>1, AttachedClosed DEF AttachedInv
<1>4. CASE sock' = sock /\ (event_cb' => event_cb)
  <2>1. Attending => Attending' BY Zenon, <1>1, <1>4 DEF Attending
  <2>2. \A d \in daemon.attached : Tracked(d) => Tracked(d)'
    BY Zenon, <1>1, <1>4 DEF Tracked, Records
  <2>3. sock'.open /\ sock'.listening => \A d \in daemon'.attached : Tracked(d)'
    BY Zenon, <1>1, <1>4, <2>2 DEF AttachedInv
  <2> QED BY Zenon, <1>1, <1>4, <2>1, <2>3 DEF AttachedInv
<1>5. Shutdown => sock' = sock \/ sock' = [sock EXCEPT !.open = FALSE] BY Zenon DEF Shutdown
<1>6. \/ sock' = sock /\ event_cb' = FALSE
      \/ Shutdown /\ event_cb' = event_cb
      \/ sock' = sock /\ event_cb' = event_cb
  BY Zenon DEF usbmuxd_unsubscribe
<1> QED BY Zenon, <1>3, <1>4, <1>5, <1>6

\* The daemon goes and comes.
LEMMA DaemonRestartAttends ==
  ASSUME ClientInv, AttachedInv, DaemonStarts \/ DaemonEnds PROVE AttachedInv'
<1>1. CASE DaemonStarts
  <2>1. daemon'.attached = daemon.attached BY Zenon, <1>1 DEF DaemonStarts, ClientInv, TypeOK
  <2> QED BY Zenon, <1>1, <2>1, AttachedSame DEF DaemonStarts, monVars, appVars
<1>2. CASE DaemonEnds
  <2>1. sock \in Sock BY Zenon, SockFields
  <2>2. sock'.open = FALSE BY Zenon, <1>2, <2>1 DEF DaemonEnds, Sock
  <2>3. UNCHANGED <<mon, listenfd>> BY Zenon, <1>2 DEF DaemonEnds
  <2> QED BY Zenon, <2>2, <2>3, AttachedClosed DEF AttachedInv
<1> QED BY Zenon, <1>1, <1>2

\* What the daemon appends leaves the first message in its place.
LEMMA HeadStays ==
  ASSUME NEW q \in Seq(Messages), NEW m \in Messages, NEW ms \in Seq(Messages)
  PROVE  /\ q # <<>> => q \o ms # <<>> /\ Head(q \o ms) = Head(q)
         /\ Append(q, m) \in Seq(Messages) /\ Append(q, m) # <<>>
         /\ Head(Append(q, m)) = IF q = <<>> THEN m ELSE Head(q)
<1>1. q # <<>> => q \o ms # <<>> /\ Head(q \o ms) = Head(q) OBVIOUS
<1>2. Append(q, m) \in Seq(Messages) /\ Append(q, m) # <<>> OBVIOUS
<1>3. Head(Append(q, m)) = IF q = <<>> THEN m ELSE Head(q) OBVIOUS
<1> QED BY Zenon, <1>1, <1>2, <1>3

\* The devices that follow the answer to Listen.
LEMMA ListedAreAdded ==
  ASSUME ClientInv, NEW l \in Listings(daemon.attached),
         NEW adds, adds = [i \in DOMAIN l |-> Added(l[i])]
  PROVE  /\ adds \in Seq(Messages)
         /\ \A d \in daemon.attached : \E k \in DOMAIN adds : adds[k] = Added(d)
         /\ \A d : \A i \in DOMAIN adds : adds[i] # Removed(d)
<1>1. daemon.attached \subseteq Devices BY Zenon DEF ClientInv, TypeOK
<1>2. Cardinality(daemon.attached) \in Nat
  BY <1>1, ClientAssumption, FS_Subset, FS_CardinalityType, Zenon
<1>3. l \in [1..Cardinality(daemon.attached) -> daemon.attached] BY Zenon DEF Listings
<1>4. \A i \in DOMAIN l : Added(l[i]) \in Messages BY Zenon, <1>1, <1>3 DEF Added, Messages
<1>5. adds \in [1..Cardinality(daemon.attached) -> Messages] BY <1>3, <1>4, Zenon
<1>6. adds \in Seq(Messages) BY <1>2, <1>5, SMT
<1>7. \A d \in daemon.attached : \E i \in DOMAIN l : l[i] = d BY Zenon DEF Listings
<1>8. \A d \in daemon.attached : \E k \in DOMAIN adds : adds[k] = Added(d) BY Zenon, <1>7
<1>9. \A d : \A i \in DOMAIN adds : adds[i] # Removed(d) BY Zenon, MessagesDiffer
<1> QED BY Zenon, <1>6, <1>8, <1>9

\* The answer to Listen comes before the first report, and reports what is attached.
LEMMA AnswerListenAttends == ASSUME ClientInv, AttachedInv, AnswerListen PROVE AttachedInv'
<1>1. PICK r \in sock.req, l \in Listings(daemon.attached) :
        LET res == Answer("LISTEN", r)
            adds == IF res = "OK" THEN [i \in DOMAIN l |-> Added(l[i])] ELSE <<>>
        IN  sock' = [sock EXCEPT
                       !.req = {}, !.listening = (res = "OK"),
                       !.queue = Append(@, [type |-> "RESULT", res |-> res]) \o adds]
  BY Zenon DEF AnswerListen
<1> DEFINE res == Answer("LISTEN", r)
           adds == IF res = "OK" THEN [i \in DOMAIN l |-> Added(l[i])] ELSE <<>>
           answer == [type |-> "RESULT", res |-> res]
           asked == Append(sock.queue, answer)
<1>2. sock \in Sock /\ sock.queue \in Seq(Messages) BY Zenon, SockFields
<1>3. /\ sock'.open = sock.open /\ sock'.req = {} /\ sock'.listening = (res = "OK")
      /\ sock'.queue = asked \o adds
  BY Zenon, <1>1, <1>2 DEF Sock
<1>4. answer \in Messages /\ answer.type = "RESULT" BY Zenon, AnswerIsAnswer DEF Messages
<1>5. adds \in Seq(Messages)
  <2>1. <<>> \in Seq(Messages) OBVIOUS
  <2> QED BY Zenon, <2>1, ListedAreAdded
<1>6. res = "OK" => adds = [i \in DOMAIN l |-> Added(l[i])] BY Zenon
<1>7. UNCHANGED <<daemon, mon, listenfd, event_cb>> /\ sock.open /\ sock.req # {}
  BY Zenon, <1>1 DEF AnswerListen
<1>8. Attending BY Zenon, <1>7 DEF AttachedInv
<1>9. Attending' BY Zenon, <1>7, <1>8 DEF Attending
<1> HIDE DEF res, adds, answer
<1>10. /\ asked \in Seq(Messages) /\ asked # <<>>
       /\ Head(asked) = IF sock.queue = <<>> THEN answer ELSE Head(sock.queue)
  BY Zenon, <1>2, <1>4, <1>5, HeadStays
<1> HIDE DEF asked
<1>11. sock'.queue # <<>> /\ Head(sock'.queue) = Head(asked)
  BY Zenon, <1>3, <1>4, <1>5, <1>10, HeadStays
<1>12. mon.at = "result" => Head(sock'.queue).type = "RESULT"
  BY Zenon, <1>4, <1>7, <1>10, <1>11 DEF AttachedInv
<1>13. mon.at # "format" /\ mon.at # "send" BY <1>8 DEF Attending
<1>14. ASSUME sock'.listening, NEW d \in daemon.attached PROVE Tracked(d)'
  <2>1. res = "OK" BY Zenon, <1>3, <1>14
  <2>2. (Records(d)' # {}) \in BOOLEAN BY Zenon
  <2>3. TrackedBy(asked \o adds, Records(d)' # {}, d)
    BY Zenon, <1>5, <1>6, <1>10, <2>1, <2>2, ListedAreAdded, TrackedAtEnd
  <2> QED BY Zenon, <1>3, <2>3 DEF Tracked, TrackedBy
<1> QED BY Zenon, <1>7, <1>9, <1>11, <1>12, <1>13, <1>14 DEF AttachedInv

\* The daemon tells a socket that is listened to, and no other, what happens to a device.
LEMMA TellAttends ==
  ASSUME ClientInv, AttachedInv, NEW ms \in Seq(Messages), Tell(ms),
         UNCHANGED <<mon, listenfd, event_cb, devices>>,
         \A d \in daemon'.attached :
           /\ \A i \in DOMAIN ms : ms[i] # Removed(d)
           /\ d \in daemon.attached \/ \E k \in DOMAIN ms : ms[k] = Added(d)
  PROVE  AttachedInv'
<1>1. sock \in Sock /\ sock.queue \in Seq(Messages) BY Zenon, SockFields
<1>2. CASE sock.open /\ sock.listening
  <2>1. /\ sock'.open = sock.open /\ sock'.listening = sock.listening /\ sock'.req = sock.req
        /\ sock'.queue = sock.queue \o ms
    BY Zenon, <1>1, <1>2 DEF Sock, Tell
  <2>2. Attending BY Zenon, <1>2 DEF AttachedInv
  <2>3. Attending' BY Zenon, <2>2 DEF Attending
  <2>4. mon.at # "format" /\ mon.at # "send" BY <2>2 DEF Attending
  <2>5. ASSUME mon.at = "result"
        PROVE  sock'.queue # <<>> /\ Head(sock'.queue).type = "RESULT"
    <3>1. sock.queue # <<>> /\ Head(sock.queue).type = "RESULT" BY Zenon, <1>2, <2>5 DEF AttachedInv
    <3>2. sock.queue \o ms # <<>> /\ Head(sock.queue \o ms) = Head(sock.queue) BY <1>1, <3>1
    <3> QED BY Zenon, <2>1, <3>1, <3>2
  <2>6. ASSUME NEW d \in daemon'.attached PROVE Tracked(d)'
    <3>1. (Records(d) # {}) \in BOOLEAN /\ Records(d)' = Records(d) BY Zenon DEF Records
    <3>2. CASE d \in daemon.attached
      <4>1. TrackedBy(sock.queue, Records(d) # {}, d)
        BY Zenon, <1>2, <3>2, TrackedIs DEF AttachedInv
      <4>2. TrackedBy(sock.queue \o ms, Records(d) # {}, d)
        BY Zenon, <1>1, <2>6, <3>1, <4>1, TrackedLonger
      <4> QED BY Zenon, <2>1, <3>1, <4>2 DEF Tracked, TrackedBy
    <3>3. CASE \E k \in DOMAIN ms : ms[k] = Added(d)
      <4>1. TrackedBy(sock.queue \o ms, Records(d) # {}, d)
        BY Zenon, <1>1, <2>6, <3>1, <3>3, TrackedAtEnd
      <4> QED BY Zenon, <2>1, <3>1, <4>1 DEF Tracked, TrackedBy
    <3> QED BY Zenon, <2>6, <3>2, <3>3
  <2> QED BY Zenon, <1>2, <2>1, <2>3, <2>4, <2>5, <2>6 DEF AttachedInv
<1>3. CASE ~(sock.open /\ sock.listening)
  <2>1. sock' = sock BY Zenon, <1>3 DEF Tell
  <2>2. Attending => Attending' BY Zenon DEF Attending
  <2> QED BY Zenon, <1>3, <2>1, <2>2 DEF AttachedInv
<1> QED BY Zenon, <1>2, <1>3

\* A device comes, goes or is paired.
LEMMA DaemonEventAttends == ASSUME ClientInv, AttachedInv, DaemonEvent PROVE AttachedInv'
<1>1. UNCHANGED <<mon, listenfd, event_cb, devices>> BY Zenon DEF DaemonEvent
<1>2. PICK d \in Devices :
       \/ /\ daemon' = [daemon EXCEPT !.attached = @ \cup {d}, !.events = @ + 1]
          /\ \E n \in 1..2 : Tell([i \in 1..n |-> Added(d)])
       \/ /\ daemon' = [daemon EXCEPT !.attached = @ \ {d}, !.events = @ + 1]
          /\ Tell(<<Removed(d)>>)
       \/ /\ daemon' = [daemon EXCEPT !.events = @ + 1]
          /\ Tell(<<[type |-> "PAIRED", dev |-> d]>>)
  BY Zenon DEF DaemonEvent
<1>3. daemon \in [up : BOOLEAN, attached : SUBSET Devices, versions : SUBSET (0..1),
                  lists : BOOLEAN, events : 0..MaxEvents, ends : 0..MaxRestarts]
  BY Zenon DEF ClientInv, TypeOK
<1>4. ASSUME daemon' = [daemon EXCEPT !.attached = @ \cup {d}, !.events = @ + 1],
             NEW n \in 1..2, Tell([i \in 1..n |-> Added(d)])
      PROVE  AttachedInv'
  <2> DEFINE ms == [i \in 1..n |-> Added(d)]
  <2>1. Added(d) \in Messages BY Zenon DEF Added, Messages
  <2>2. ms \in Seq(Messages) BY <2>1, SMT
  <2>3. 1 \in 1..n BY SMT
  <2>4. daemon'.attached = daemon.attached \cup {d} BY Zenon, <1>3, <1>4
  <2>5. \A e : \A i \in DOMAIN ms : ms[i] # Removed(e) BY Zenon, MessagesDiffer
  <2>6. 1 \in DOMAIN ms /\ ms[1] = Added(d) BY Zenon, <2>3
  <2> HIDE DEF ms
  <2>7. \A e \in daemon'.attached : e \in daemon.attached \/ \E k \in DOMAIN ms : ms[k] = Added(e)
    BY Zenon, <2>4, <2>6
  <2>8. Tell(ms) BY Zenon, <1>4 DEF ms
  <2> QED BY Zenon, <1>1, <2>2, <2>5, <2>7, <2>8, TellAttends
<1>5. CASE daemon' = [daemon EXCEPT !.attached = @ \ {d}, !.events = @ + 1] /\ Tell(<<Removed(d)>>)
  <2>1. Removed(d) \in Messages BY Zenon DEF Removed, Messages
  <2>2. <<Removed(d)>> \in Seq(Messages) BY <2>1
  <2>3. daemon'.attached = daemon.attached \ {d} BY Zenon, <1>3, <1>5
  <2>4. \A i \in DOMAIN <<Removed(d)>> : <<Removed(d)>>[i] = Removed(d) OBVIOUS
  <2>5. \A e \in daemon'.attached : Removed(d) # Removed(e) BY Zenon, <2>3, MessagesDiffer
  <2> QED BY Zenon, <1>1, <1>5, <2>2, <2>3, <2>4, <2>5, TellAttends
<1>6. CASE daemon' = [daemon EXCEPT !.events = @ + 1] /\ Tell(<<[type |-> "PAIRED", dev |-> d]>>)
  <2> DEFINE m == [type |-> "PAIRED", dev |-> d]
  <2>1. m \in Messages BY Zenon DEF Messages
  <2>2. <<m>> \in Seq(Messages) BY <2>1
  <2>3. daemon'.attached = daemon.attached BY Zenon, <1>3, <1>6
  <2>4. \A i \in DOMAIN <<m>> : <<m>>[i] = m OBVIOUS
  <2>5. \A e : m # Removed(e) BY Zenon, MessagesDiffer
  <2> QED BY Zenon, <1>1, <1>6, <2>2, <2>3, <2>4, <2>5, TellAttends
<1> QED BY Zenon, <1>2, <1>4, <1>5, <1>6

\* Every step keeps the devices that are attached tracked.
LEMMA AttachedKept == ClientInv /\ AttachedInv /\ [Next]_vars => AttachedInv'
<1> SUFFICES ASSUME ClientInv, AttachedInv, [Next]_vars PROVE AttachedInv' BY Zenon
<1>1. CASE Monitor
  BY Zenon, <1>1, device_monitorAttends, usbmuxd_listen_pollAttends, send_listen_packetAttends,
     usbmuxd_listenAttends, get_next_eventAttends, device_monitor_cleanupAttends DEF Monitor
<1>2. CASE UNCHANGED <<daemon, monVars, appVars>>
  BY Zenon, <1>2, AttachedSame DEF monVars, appVars
<1> QED
  BY Zenon, <1>1, <1>2, usbmuxd_subscribeAttends, usbmuxd_unsubscribeAttends,
     AnswerListenAttends, DaemonEventAttends, DaemonRestartAttends DEF Next, Request, vars

\* A program that is subscribed and has been told everything that was reported knows
\* every device that is attached, wherever its daemon ended and however its list grew.
THEOREM EveryDeviceKnown == Spec => []KnowsAttached
<1>1. ASSUME Init PROVE AttachedInv
  <2>1. sock.open = FALSE /\ mon.at = "off" BY Zenon, <1>1 DEF Init
  <2> QED BY Zenon, <2>1 DEF AttachedInv
<1>2. ClientInv /\ AttachedInv => KnowsAttached
  <2> SUFFICES ASSUME ClientInv, AttachedInv, event_cb, sock.open, sock.listening,
                      sock.queue = <<>>, NEW d \in daemon.attached
               PROVE  Records(d) # {} /\ known[d] > 0
    BY Zenon DEF KnowsAttached
  <2>1. d \in Devices /\ TypeOK BY Zenon DEF ClientInv, TypeOK
  <2>2. DOMAIN sock.queue = {} OBVIOUS
  <2>3. Records(d) # {} BY Zenon, <2>2 DEF AttachedInv, Tracked
  <2>4. devices \in Seq(Devices \cup {0}) BY Zenon, <2>1 DEF TypeOK
  <2>5. IsFiniteSet(Records(d)) /\ Cardinality(Records(d)) \in Nat
    <3>1. Records(d) = Slots(devices, d) BY Zenon DEF Records, Slots
    <3> QED BY Zenon, <2>4, <3>1, SlotsFinite
  <2>6. Cardinality(Records(d)) # 0 BY Zenon, <2>3, <2>5, FS_EmptySet
  <2>7. known[d] = Cardinality(Records(d)) BY Zenon, <2>1 DEF ClientInv
  <2>8. known[d] > 0 BY <2>5, <2>6, <2>7
  <2> QED BY Zenon, <2>3, <2>8
<1> QED BY <1>1, <1>2, AttachedKept, ClientInvariance, PTL DEF Spec
=============================================================================
