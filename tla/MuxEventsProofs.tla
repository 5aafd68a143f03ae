--------------------------- MODULE MuxEventsProofs ---------------------------
(***************************************************************************)
(* Theorems about MuxEvents, for any sets of devices and clients. The      *)
(* inductive invariant is EventsInv; one lemma per action shows that the   *)
(* action keeps it.                                                        *)
(***************************************************************************)
EXTENDS MuxEvents, TLAPS, SequenceTheorems

\* What SubSeq cuts from a sequence of events is a sequence of events.
LEMMA CutTypes ==
  ASSUME NEW s \in Seq(Event), NEW n \in Nat
  PROVE  /\ SubSeq(s, n + 1, Len(s)) \in Seq(Event)
         /\ n <= Len(s) => SubSeq(s, 1, n) \in Seq(Event)
<1>1. Len(s) \in Nat
  OBVIOUS
<1>2. \A i \in 1..Len(s) : s[i] \in Event
  OBVIOUS
<1>3. SubSeq(s, n + 1, Len(s)) \in Seq(Event)
  <2>1. CASE n + 1 <= Len(s) + 1
    BY <1>1, <2>1, SubSeqProperties
  <2>2. CASE n + 1 > Len(s) + 1
    BY <1>1, <2>2
  <2> QED BY <1>1, <2>1, <2>2
<1>4. n <= Len(s) => SubSeq(s, 1, n) \in Seq(Event)
  BY <1>1, SubSeqProperties
<1> QED BY Zenon, <1>3, <1>4

\* What send_pkt does to the buffers and to what the clients were told.
LEMMA PutFields ==
  ASSUME TypeOK, NEW cs \in SUBSET Clients, NEW e \in Event, Put(cs, e)
  PROVE  /\ told' \in [Clients -> Seq(Event)]
         /\ ob_buf' \in [Clients -> Seq(Event)]
         /\ \A c \in Clients :
              told'[c] = IF c \in cs THEN Append(told[c], e) ELSE told[c]
<1>1. told \in [Clients -> Seq(Event)] /\ ob_buf \in [Clients -> Seq(Event)]
  BY Zenon DEF TypeOK
<1>2. \A c \in Clients : Append(told[c], e) \in Seq(Event) /\ Append(ob_buf[c], e) \in Seq(Event)
  BY Zenon, <1>1, AppendProperties
<1> QED BY Zenon, <1>1, <1>2 DEF Put

\* An event that is appended is there, and so is what was there before.
LEMMA AppendTells ==
  ASSUME NEW s \in Seq(Event), NEW e \in Event
  PROVE  /\ Len(s) + 1 \in DOMAIN Append(s, e) /\ Append(s, e)[Len(s) + 1] = e
         /\ \A i \in DOMAIN s : i \in DOMAIN Append(s, e) /\ Append(s, e)[i] = s[i]
OBVIOUS

\* send_pkt takes nothing back of what a client was told.
LEMMA PutTells ==
  ASSUME TypeOK, NEW cs \in SUBSET Clients, NEW e \in Event, Put(cs, e),
         NEW x \in Clients, NEW y, \E i \in DOMAIN told[x] : told[x][i] = y
  PROVE  \E i \in DOMAIN told'[x] : told'[x][i] = y
<1>1. PICK i \in DOMAIN told[x] : told[x][i] = y
  BY Zenon
<1>2. told[x] \in Seq(Event)
  BY Zenon DEF TypeOK
<1>3. told'[x] = told[x] \/ told'[x] = Append(told[x], e)
  BY Zenon, PutFields
<1>4. i \in DOMAIN told'[x] /\ told'[x][i] = told[x][i]
  BY <1>2, <1>3, AppendTells
<1> QED BY Zenon, <1>1, <1>4

\* Events are told apart by kind and device.
LEMMA EventFacts ==
  ASSUME NEW d \in Devices
  PROVE  /\ Attached(d) \in Event /\ Detached(d) \in Event /\ Result \in Event
         /\ \A x : Attached(x) = Attached(d) => x = d
         /\ \A x : Detached(d) # Attached(x)
BY Zenon DEF Attached, Detached, Result, Event

\* An event other than Attached of d, appended, leaves Detached the last word on
\* d; Detached of d, appended, makes it so.
LEMMA LastWord ==
  ASSUME NEW s \in Seq(Event), NEW e \in Event, NEW d \in Devices, e # Attached(d),
         \/ e = Detached(d)
         \/ \A i \in DOMAIN s : s[i] = Attached(d) => \E j \in i+1..Len(s) : s[j] = Detached(d)
  PROVE  \A i \in DOMAIN Append(s, e) :
           Append(s, e)[i] = Attached(d)
           => \E j \in i+1..Len(Append(s, e)) : Append(s, e)[j] = Detached(d)
<1> DEFINE a == Append(s, e)
           n == Len(s)
<1>1. n \in Nat /\ DOMAIN s = 1..n /\ Len(a) = n + 1 /\ DOMAIN a = 1..(n + 1)
      /\ a[n + 1] = e /\ \A i \in 1..n : a[i] = s[i]
  OBVIOUS
<1> HIDE DEF a, n
<1>2. ASSUME NEW i \in DOMAIN a, a[i] = Attached(d)
      PROVE  \E j \in i+1..Len(a) : a[j] = Detached(d)
  <2>1. i \in 1..n /\ s[i] = Attached(d)
    BY <1>1, <1>2
  <2>2. CASE e = Detached(d)
    BY <1>1, <2>1, <2>2
  <2>3. CASE e # Detached(d)
    <3>1. PICK j \in i+1..n : s[j] = Detached(d)
      BY Zenon, <1>1, <2>1, <2>3 DEF n
    <3> QED BY <1>1, <2>1, <3>1
  <2> QED BY Zenon, <2>2, <2>3
<1> QED BY Zenon, <1>2 DEF a

-----------------------------------------------------------------------------
(* client_device_add.                                                      *)

\* FOREACH starts from all the clients in the list.
LEMMA LockKeeps ==
  ASSUME EventsInv, NEW t \in Threads, LockClients(t)
  PROVE  ThreadsInv'
<1>0. TypeOK /\ Locking /\ Living /\ CbDataAlive /\ NoneMissed /\ AllToVisit /\ Retired
  BY Zenon DEF EventsInv, ThreadsInv
<1>1. /\ adding[t] = "lock" /\ adding'[t] = "visible"
      /\ left'[t] = {c \in Clients : InList(c)}
      /\ \A u \in Threads \ {t} : adding'[u] = adding[u] /\ left'[u] = left[u]
  BY Zenon, <1>0 DEF LockClients, TypeOK
<1>2. TypeOK'
  BY Zenon, <1>0, <1>1 DEF LockClients, TypeOK, deviceVars, workerVars, clientVars
<1>3. Locking'
  BY <1>0, <1>1, EventsAssumption
  DEF LockClients, TypeOK, Locking, Threads, Main, Nobody, workerVars
<1>4. Living'
  BY Zenon, <1>0 DEF LockClients, Living, Listed, deviceVars, workerVars
<1>5. CbDataAlive'
  BY Zenon, <1>0 DEF LockClients, CbDataAlive, deviceVars, workerVars
<1>6. NoneMissed'
  <2>1. ASSUME NEW c \in Clients, NEW d \in Devices
        PROVE  StillToTell(c, d) => StillToTell(c, d)'
    BY Zenon, <1>1 DEF LockClients, StillToTell, Announced
  <2> QED BY Zenon, <1>0, <2>1 DEF LockClients, NoneMissed, deviceVars, clientVars
<1>7. AllToVisit'
  BY Zenon, <1>0, <1>1 DEF LockClients, AllToVisit, InList, clientVars
<1>8. Retired'
  BY <1>0, <1>1 DEF LockClients, Retired, LastIsDetached, Announced, deviceVars, clientVars
<1> QED BY Zenon, <1>2, <1>3, <1>4, <1>5, <1>6, <1>7, <1>8 DEF ThreadsInv

\* Every client in the list is still to be told when the device becomes visible.
LEMMA VisibleKeeps ==
  ASSUME EventsInv, NEW t \in Threads, device_set_visible(t)
  PROVE  ThreadsInv'
<1>0. TypeOK /\ Locking /\ Living /\ CbDataAlive /\ NoneMissed /\ AllToVisit /\ Retired
  BY Zenon DEF EventsInv, ThreadsInv
<1>d. PICK d \in Devices : d = Announced(t)
  BY Zenon, <1>0 DEF device_set_visible, Locking, Announced, Threads
<1>1. /\ adding[t] = "visible" /\ adding'[t] = "notify"
      /\ \A u \in Threads \ {t} : adding'[u] = adding[u]
  BY Zenon, <1>0 DEF device_set_visible, TypeOK
<1>2. visible' \subseteq visible \cup {d} /\ visible' \subseteq Devices
      /\ (d \in visible' => d \in visible \/ Listed(d))
  BY Zenon, <1>0, <1>d DEF device_set_visible, TypeOK
<1>3. TypeOK'
  BY Zenon, <1>0, <1>1, <1>2 DEF device_set_visible, TypeOK, workerVars, clientVars, mutexes
<1>4. Locking'
  BY <1>0, <1>1 DEF device_set_visible, Locking, workerVars, mutexes
<1>5. Living'
  <2>1. device[d] \notin {"NEW", "INIT"}
    BY Zenon, <1>0, <1>1, <1>d, EventsAssumption
    DEF Living, Locking, Announced, Threads, Main
  <2> QED BY Zenon, <1>0, <1>2, <2>1 DEF device_set_visible, Living, Listed, workerVars
<1>6. CbDataAlive'
  BY Zenon, <1>0 DEF device_set_visible, CbDataAlive, workerVars
<1>7. NoneMissed'
  <2>1. ASSUME NEW c \in Clients, client[c] = "LISTEN"
        PROVE  StillToTell(c, d)'
    BY Zenon, <1>0, <1>1, <1>d, <2>1
    DEF device_set_visible, StillToTell, AllToVisit, InList, Announced, clientVars
  <2>2. ASSUME NEW c \in Clients, NEW x \in Devices
        PROVE  StillToTell(c, x) => StillToTell(c, x)'
    BY Zenon, <1>1 DEF device_set_visible, StillToTell, Announced
  <2> QED BY Zenon, <1>0, <1>2, <2>1, <2>2 DEF device_set_visible, NoneMissed, clientVars
<1>8. AllToVisit'
  BY Zenon, <1>0, <1>1 DEF device_set_visible, AllToVisit, InList, clientVars
<1>9. Retired'
  <2>1. main.pc # "remove_free"
    BY Zenon, <1>0 DEF device_set_visible, Locking, Removing, Main, Nobody
  <2> QED BY Zenon, <2>1 DEF device_set_visible, Retired
<1> QED BY Zenon, <1>3, <1>4, <1>5, <1>6, <1>7, <1>8, <1>9 DEF ThreadsInv

\* A step that changes no device, client or list of clients to visit.
LEMMA QuietKeeps ==
  ASSUME EventsInv, UNCHANGED <<device, visible, left, main, client, told>>,
         \A t \in Threads : adding'[t] = adding[t] \/ (adding[t] = "no" /\ adding'[t] = "lock")
  PROVE  NoneMissed' /\ AllToVisit' /\ Retired'
<1>0. NoneMissed /\ AllToVisit /\ Retired
  BY Zenon DEF EventsInv, ThreadsInv
<1>1. \A c \in Clients, d \in Devices : StillToTell(c, d) => StillToTell(c, d)'
  BY Zenon DEF StillToTell, Announced
<1>2. NoneMissed'
  BY Zenon, <1>0, <1>1 DEF NoneMissed
<1>3. AllToVisit'
  BY Zenon, <1>0 DEF AllToVisit, InList
<1>4. Retired'
  BY Zenon, <1>0 DEF Retired, LastIsDetached, Announced
<1> QED BY Zenon, <1>2, <1>3, <1>4

\* A client that does not listen need not be told.
LEMMA SkipKeeps ==
  ASSUME EventsInv, NEW t \in Threads, NEW c \in Clients, SkipClient(t, c)
  PROVE  ThreadsInv'
<1>0. TypeOK /\ Locking /\ Living /\ CbDataAlive /\ NoneMissed /\ AllToVisit /\ Retired
  BY Zenon DEF EventsInv, ThreadsInv
<1>1. /\ adding[t] = "notify" /\ left' \in [Threads -> SUBSET Clients]
      /\ left'[t] = left[t] \ {c} /\ client[c] # "LISTEN"
      /\ \A u \in Threads \ {t} : left'[u] = left[u]
  BY Zenon, <1>0 DEF SkipClient, TypeOK
<1>2. TypeOK'
  BY Zenon, <1>0, <1>1 DEF SkipClient, TypeOK, deviceVars, workerVars, clientVars, mutexes
<1>3. Locking' /\ Living' /\ CbDataAlive'
  BY Zenon, <1>0
  DEF SkipClient, Locking, Living, Listed, CbDataAlive, deviceVars, workerVars, mutexes
<1>4. NoneMissed'
  <2>1. ASSUME NEW x \in Clients, NEW y \in Devices, x # c
        PROVE  StillToTell(x, y) => StillToTell(x, y)'
    BY Zenon, <1>1, <2>1 DEF SkipClient, StillToTell, Announced
  <2> QED BY Zenon, <1>0, <1>1, <2>1 DEF SkipClient, NoneMissed, deviceVars, clientVars
<1>5. AllToVisit'
  BY Zenon, <1>0, <1>1 DEF SkipClient, AllToVisit, InList, clientVars
<1>6. Retired'
  BY Zenon, <1>0 DEF SkipClient, Retired, LastIsDetached, Announced, deviceVars, clientVars
<1> QED BY Zenon, <1>2, <1>3, <1>4, <1>5, <1>6 DEF ThreadsInv

\* The first half of send_pkt tells nobody anything.
LEMMA BeginFields ==
  ASSUME TypeOK, NEW t \in Threads, NEW c \in Clients, NEW x \in SUBSET {"serial"},
         send_pkt(t, c, x)
  PROVE  /\ into' \in [Threads -> Clients \cup {Nobody}] /\ enlarging' \subseteq Threads
         /\ torn' \subseteq Clients /\ stale' \subseteq {"ob_buf", "enlarged", "serial", "client"}
         /\ UNCHANGED <<client, ob_buf, freed, told, sent>>
<1>1. into' \in [Threads -> Clients \cup {Nobody}] /\ UNCHANGED <<client, ob_buf, freed, told, sent>>
  BY Zenon DEF TypeOK, send_pkt
<1>2. torn' \subseteq Clients
  BY Zenon DEF TypeOK, send_pkt, Torn
<1>3. PICK g \in BOOLEAN : /\ enlarging' = enlarging \cup {y \in {t} : g}
                           /\ stale' = stale \cup x \cup Misused(t, c, g)
  BY Zenon DEF send_pkt
<1>4. Misused(t, c, g) \subseteq {"ob_buf", "enlarged"}
  BY Zenon DEF Misused
<1> QED BY Zenon, <1>1, <1>2, <1>3, <1>4 DEF TypeOK

\* Neither does the one that a worker calls.
LEMMA NotifyKeeps ==
  ASSUME EventsInv, NEW t \in Threads, NEW c \in Clients, notify_device_add(t, c)
  PROVE  ThreadsInv'
<1>0. TypeOK /\ Locking /\ Living /\ CbDataAlive
  BY Zenon DEF EventsInv, ThreadsInv
<1>1. PICK x \in SUBSET {"serial"} : send_pkt(t, c, x)
  BY Zenon DEF notify_device_add
<1>2. /\ into' \in [Threads -> Clients \cup {Nobody}] /\ enlarging' \subseteq Threads
      /\ torn' \subseteq Clients /\ stale' \subseteq {"ob_buf", "enlarged", "serial", "client"}
      /\ UNCHANGED <<client, ob_buf, freed, told, sent>>
  BY Zenon, <1>0, <1>1, BeginFields
<1>3. TypeOK'
  BY Zenon, <1>0, <1>2 DEF notify_device_add, TypeOK, deviceVars, workerVars, mutexes
<1>4. Locking' /\ Living' /\ CbDataAlive'
  BY Zenon, <1>0
  DEF notify_device_add, Locking, Living, Listed, CbDataAlive, deviceVars, workerVars, mutexes
<1>5. NoneMissed' /\ AllToVisit' /\ Retired'
  BY Zenon, <1>2, QuietKeeps DEF notify_device_add, deviceVars
<1> QED BY Zenon, <1>3, <1>4, <1>5 DEF ThreadsInv

\* Nor does realloc.
LEMMA EnlargedKeeps ==
  ASSUME EventsInv, NEW t \in Threads, Enlarged(t)
  PROVE  ThreadsInv'
<1>0. TypeOK /\ Locking /\ Living /\ CbDataAlive
  BY Zenon DEF EventsInv, ThreadsInv
<1>1. TypeOK'
  BY Zenon, <1>0 DEF Enlarged, TypeOK, deviceVars, workerVars, clientVars, mutexes
<1>2. Locking' /\ Living' /\ CbDataAlive'
  BY Zenon, <1>0
  DEF Enlarged, Locking, Living, Listed, CbDataAlive, deviceVars, workerVars, mutexes
<1>3. NoneMissed' /\ AllToVisit' /\ Retired'
  BY Zenon, QuietKeeps DEF Enlarged, deviceVars, clientVars
<1> QED BY Zenon, <1>1, <1>2, <1>3 DEF ThreadsInv

\* What a client is told by FOREACH is never of a device that was Detached.
LEMMA NotifiedKeeps ==
  ASSUME EventsInv, NEW t \in Threads, Notified(t)
  PROVE  ThreadsInv'
<1>0. TypeOK /\ Locking /\ Living /\ CbDataAlive /\ NoneMissed /\ AllToVisit /\ Retired
  BY Zenon DEF EventsInv, ThreadsInv
<1>d. PICK d \in Devices : d = Announced(t)
  BY Zenon, <1>0 DEF Notified, Locking, Announced, Threads
<1>c. PICK c \in Clients : c = into[t]
  BY Zenon, <1>0 DEF Notified, PktDone, TypeOK
<1>1. /\ adding[t] = "notify" /\ left' \in [Threads -> SUBSET Clients]
      /\ left'[t] = left[t] \ {c}
      /\ \A u \in Threads \ {t} : left'[u] = left[u]
  BY Zenon, <1>0, <1>c DEF Notified, TypeOK
<1>2. /\ told' \in [Clients -> Seq(Event)] /\ ob_buf' \in [Clients -> Seq(Event)]
      /\ \A x \in Clients :
           told'[x] = IF x \in {c} THEN Append(told[x], Attached(d)) ELSE told[x]
  <2>1. {c} \in SUBSET Clients /\ Attached(d) \in Event /\ Put({c}, Attached(d))
    BY Zenon, <1>c, <1>d, EventFacts DEF Notified, PktDone
  <2> QED BY Zenon, <1>0, <2>1, PutFields
<1>i. into' \in [Threads -> Clients \cup {Nobody}]
  BY Zenon, <1>0 DEF Notified, PktDone, TypeOK
<1>3. TypeOK'
  BY Zenon, <1>0, <1>1, <1>2, <1>i
  DEF Notified, PktDone, TypeOK, deviceVars, workerVars, mutexes
<1>4. Locking'
  BY Zenon, <1>0 DEF Notified, Locking, workerVars, mutexes
<1>5. Living'
  BY Zenon, <1>0 DEF Notified, Living, Listed, deviceVars, workerVars
<1>6. CbDataAlive'
  BY Zenon, <1>0 DEF Notified, CbDataAlive, deviceVars, workerVars
<1>7. NoneMissed'
  <2>1. ASSUME NEW x \in Clients, NEW y \in Devices, x # c \/ y # d
        PROVE  StillToTell(x, y) => StillToTell(x, y)'
    BY Zenon, <1>1, <1>d, <2>1 DEF Notified, StillToTell, Announced
  <2>2. ASSUME NEW x \in Clients, NEW y \in Devices,
     \E i \in DOMAIN told[x] : told[x][i] = Attached(y)
        PROVE  \E i \in DOMAIN told'[x] : told'[x][i] = Attached(y)
    <3>1. told[x] \in Seq(Event) /\ Attached(d) \in Event
      BY Zenon, <1>0, EventFacts DEF TypeOK
    <3>2. CASE told'[x] = told[x]
      BY Zenon, <2>2, <3>2
    <3>3. CASE told'[x] = Append(told[x], Attached(d))
      <4>1. PICK i \in DOMAIN told[x] : told[x][i] = Attached(y)
        BY Zenon, <2>2
      <4>2. i \in DOMAIN told'[x] /\ told'[x][i] = told[x][i]
        BY <3>1, <3>3, AppendTells
      <4> QED BY Zenon, <4>1, <4>2
    <3> QED BY Zenon, <1>2, <3>2, <3>3
  <2>3. \E i \in DOMAIN told'[c] : told'[c][i] = Attached(d)
    <3>1. told[c] \in Seq(Event) /\ Attached(d) \in Event
      BY Zenon, <1>0, EventFacts DEF TypeOK
    <3>2. told'[c] = Append(told[c], Attached(d))
      BY Zenon, <1>2
    <3>3. Len(told[c]) + 1 \in DOMAIN told'[c] /\ told'[c][Len(told[c]) + 1] = Attached(d)
      BY <3>1, <3>2, AppendTells
    <3> QED BY Zenon, <3>3
  <2> QED BY Zenon, <1>0, <1>2, <2>1, <2>2, <2>3 DEF Notified, NoneMissed, deviceVars
<1>8. AllToVisit'
  BY Zenon, <1>0, <1>1, <1>2 DEF Notified, AllToVisit, InList, Locking
<1>9. Retired'
  <2>1. SUFFICES ASSUME main.pc = "remove_free", device[main.dev] = "DEAD"
                 PROVE  /\ \A u \in Threads : ~(adding[u] = "notify" /\ Announced(u) = main.dev)
                        /\ \A x \in Clients : client[x] = "LISTEN" => LastIsDetached(x, main.dev)'
    BY Zenon DEF Notified, Retired, Announced, deviceVars
  <2>2. /\ main.dev \in Devices /\ main.dev # d
        /\ \A u \in Threads : ~(adding[u] = "notify" /\ Announced(u) = main.dev)
        /\ \A x \in Clients : client[x] = "LISTEN" => LastIsDetached(x, main.dev)
    BY Zenon, <1>0, <1>1, <1>d, <2>1 DEF Retired, Locking, Removing
  <2>3. ASSUME NEW x \in Clients, client[x] = "LISTEN"
        PROVE  LastIsDetached(x, main.dev)'
    <3>1. told[x] \in Seq(Event) /\ Attached(d) \in Event /\ Attached(d) # Attached(main.dev)
      BY Zenon, <1>0, <2>2, EventFacts DEF TypeOK
    <3>2. main' = main
      BY Zenon DEF Notified
    <3>3. CASE told'[x] = told[x]
      BY Zenon, <2>2, <2>3, <3>2, <3>3 DEF LastIsDetached
    <3>4. CASE told'[x] = Append(told[x], Attached(d))
      BY SMTT(40), <2>2, <2>3, <3>1, <3>2, <3>4, LastWord DEF LastIsDetached
    <3> QED BY Zenon, <1>2, <3>3, <3>4
  <2> QED BY Zenon, <2>2, <2>3
<1> QED BY Zenon, <1>3, <1>4, <1>5, <1>6, <1>7, <1>8, <1>9 DEF ThreadsInv

\* client_device_add returns when all clients were visited.
LEMMA UnlockKeeps ==
  ASSUME EventsInv, NEW t \in Threads, UnlockClients(t)
  PROVE  ThreadsInv'
<1>0. TypeOK /\ Locking /\ Living /\ CbDataAlive /\ NoneMissed /\ AllToVisit /\ Retired
  BY Zenon DEF EventsInv, ThreadsInv
<1>1. /\ adding[t] = "notify" /\ adding'[t] = "no" /\ left[t] = {}
      /\ adding' \in [Threads -> {"no", "lock", "visible", "notify"}]
      /\ \A u \in Threads \ {t} : adding'[u] = adding[u]
  BY Zenon, <1>0 DEF UnlockClients, TypeOK
<1>2. TypeOK'
  BY Zenon, <1>0, <1>1 DEF UnlockClients, TypeOK, deviceVars, workerVars, clientVars
<1>3. Locking'
  BY <1>0, <1>1, EventsAssumption
  DEF UnlockClients, TypeOK, Locking, Threads, Main, Nobody, workerVars
<1>4. Living'
  BY Zenon, <1>0 DEF UnlockClients, Living, Listed, deviceVars, workerVars
<1>5. CbDataAlive'
  BY Zenon, <1>0 DEF UnlockClients, CbDataAlive, deviceVars, workerVars
<1>6. NoneMissed'
  <2>1. ASSUME NEW c \in Clients, NEW d \in Devices
        PROVE  StillToTell(c, d) => StillToTell(c, d)'
    BY Zenon, <1>1 DEF UnlockClients, StillToTell, Announced
  <2> QED BY Zenon, <1>0, <2>1 DEF UnlockClients, NoneMissed, deviceVars, clientVars
<1>7. AllToVisit'
  BY Zenon, <1>0, <1>1 DEF UnlockClients, AllToVisit, InList, clientVars
<1>8. Retired'
  BY <1>0, <1>1 DEF UnlockClients, Retired, LastIsDetached, Announced, deviceVars, clientVars
<1> QED BY Zenon, <1>2, <1>3, <1>4, <1>5, <1>6, <1>7, <1>8 DEF ThreadsInv

-----------------------------------------------------------------------------
(* The worker: its own steps tell nobody anything.                         *)

\* A worker that gives up announces nothing.
LEMMA PreflightFailsKeeps ==
  ASSUME EventsInv, NEW d \in Devices, PreflightFails(d)
  PROVE  ThreadsInv'
<1>0. TypeOK /\ Locking /\ Living /\ CbDataAlive
  BY Zenon DEF EventsInv, ThreadsInv
<1>1. /\ worker[d] = "preflight" /\ worker'[d] = "done"
      /\ \A x \in Devices \ {d} : worker'[x] = worker[x]
  BY <1>0 DEF PreflightFails, TypeOK, Locking, Threads, WorkerStates, Frame
<1>2. TypeOK'
  BY Zenon, <1>0, <1>1 DEF PreflightFails, TypeOK, WorkerStates, Frame, deviceVars, addVars,
     clientVars, mutexes
<1>3. Locking'
  BY Zenon, <1>0, <1>1, EventsAssumption
  DEF PreflightFails, Locking, Threads, Main, addVars, mutexes
<1>4. Living'
  BY Zenon, <1>0, <1>1 DEF PreflightFails, Living, Listed, deviceVars
<1>5. CbDataAlive'
  BY <1>0, <1>1 DEF PreflightFails, CbDataAlive, Living, Frame, deviceVars
<1>6. NoneMissed' /\ AllToVisit' /\ Retired'
  BY Zenon, <1>1, QuietKeeps DEF PreflightFails, deviceVars, addVars, clientVars
<1> QED BY Zenon, <1>2, <1>3, <1>4, <1>5, <1>6 DEF ThreadsInv

\* A worker enters client_device_add.
LEMMA PreflightSucceedsKeeps ==
  ASSUME EventsInv, NEW d \in Devices, PreflightSucceeds(d)
  PROVE  ThreadsInv'
<1>0. TypeOK /\ Locking /\ Living /\ CbDataAlive
  BY Zenon DEF EventsInv, ThreadsInv
<1>1. /\ worker[d] = "preflight" /\ worker'[d] = "adding"
      /\ \A x \in Devices \ {d} : worker'[x] = worker[x]
      /\ adding[d] = "no" /\ adding'[d] = "lock"
      /\ \A t \in Threads \ {d} : adding'[t] = adding[t]
  BY Zenon, <1>0 DEF PreflightSucceeds, TypeOK, Locking, Threads, WorkerStates, Frame
<1>2. TypeOK'
  BY Zenon, <1>0, <1>1 DEF PreflightSucceeds, TypeOK, WorkerStates, Frame, deviceVars, addVars,
     clientVars, mutexes
<1>3. Locking'
  BY <1>0, <1>1, EventsAssumption DEF PreflightSucceeds, Locking, Threads, Main, addVars,
     mutexes
<1>4. Living'
  BY <1>0, <1>1 DEF PreflightSucceeds, Living, Listed, deviceVars
<1>5. CbDataAlive'
  BY <1>0, <1>1 DEF PreflightSucceeds, CbDataAlive, Living, Frame, deviceVars
<1>6. NoneMissed' /\ AllToVisit' /\ Retired'
  BY Zenon, <1>1, QuietKeeps DEF PreflightSucceeds, deviceVars, addVars, clientVars
<1> QED BY Zenon, <1>2, <1>3, <1>4, <1>5, <1>6 DEF ThreadsInv

\* cbdata comes into scope before a pointer to it is stored.
LEMMA AskForTrustKeeps ==
  ASSUME EventsInv, NEW d \in Devices, AskForTrust(d)
  PROVE  ThreadsInv'
<1>0. TypeOK /\ Locking /\ Living /\ CbDataAlive
  BY Zenon DEF EventsInv, ThreadsInv
<1>1. /\ worker[d] = "preflight" /\ worker'[d] = "arming"
      /\ \A x \in Devices \ {d} : worker'[x] = worker[x]
  BY <1>0 DEF AskForTrust, TypeOK, Locking, Threads, WorkerStates, Frame
<1>2. TypeOK'
  BY Zenon, <1>0, <1>1 DEF AskForTrust, TypeOK, WorkerStates, Frame, deviceVars, addVars,
     clientVars, mutexes
<1>3. Locking'
  BY Zenon, <1>0, <1>1, EventsAssumption DEF AskForTrust, Locking, Threads, Main, addVars, mutexes
<1>4. Living'
  BY Zenon, <1>0, <1>1 DEF AskForTrust, Living, Listed, deviceVars
<1>5. CbDataAlive'
  BY <1>0, <1>1 DEF AskForTrust, CbDataAlive, Living, Frame, deviceVars
<1>6. NoneMissed' /\ AllToVisit' /\ Retired'
  BY Zenon, <1>1, QuietKeeps DEF AskForTrust, deviceVars, addVars, clientVars
<1> QED BY Zenon, <1>2, <1>3, <1>4, <1>5, <1>6 DEF ThreadsInv

\* The pointer is stored while the frame is live.
LEMMA ArmRemovalKeeps ==
  ASSUME EventsInv, NEW d \in Devices, ArmRemoval(d)
  PROVE  ThreadsInv'
<1>0. TypeOK /\ Locking /\ Living /\ CbDataAlive
  BY Zenon DEF EventsInv, ThreadsInv
<1>1. /\ worker[d] = "arming" /\ worker'[d] = "trusting"
      /\ \A x \in Devices \ {d} : worker'[x] = worker[x]
      /\ adding[d] = "no" /\ adding'[d] = "lock"
      /\ \A t \in Threads \ {d} : adding'[t] = adding[t]
  BY Zenon, <1>0 DEF ArmRemoval, TypeOK, Locking, Threads, WorkerStates, Frame
<1>2. TypeOK'
  BY Zenon, <1>0, <1>1 DEF ArmRemoval, TypeOK, WorkerStates, Frame, deviceVars, addVars,
     clientVars, mutexes
<1>3. Locking'
  BY SMTT(40), <1>0, <1>1, EventsAssumption DEF ArmRemoval, Locking, Threads, Main, addVars, mutexes
<1>4. Living'
  BY SMTT(40), <1>0, <1>1 DEF ArmRemoval, Living, Listed, deviceVars
<1>5. CbDataAlive'
  BY <1>0, <1>1 DEF ArmRemoval, CbDataAlive, Living, Frame, deviceVars
<1>6. NoneMissed' /\ AllToVisit' /\ Retired'
  BY Zenon, <1>1, QuietKeeps DEF ArmRemoval, deviceVars, addVars, clientVars
<1> QED BY Zenon, <1>2, <1>3, <1>4, <1>5, <1>6 DEF ThreadsInv

\* A worker that waits keeps its frame.
LEMMA ReturnFromAddKeeps ==
  ASSUME EventsInv, NEW d \in Devices, ReturnFromAdd(d)
  PROVE  ThreadsInv'
<1>0. TypeOK /\ Locking /\ Living /\ CbDataAlive
  BY Zenon DEF EventsInv, ThreadsInv
<1>1. /\ adding[d] = "no" /\ worker[d] \in {"adding", "trusting"}
      /\ worker'[d] = IF worker[d] = "adding" THEN "done" ELSE "waiting"
      /\ \A x \in Devices \ {d} : worker'[x] = worker[x]
  BY <1>0 DEF ReturnFromAdd, TypeOK, Locking, Threads, WorkerStates, Frame
<1>2. TypeOK'
  BY Zenon, <1>0, <1>1 DEF ReturnFromAdd, TypeOK, WorkerStates, Frame, deviceVars, addVars,
     clientVars, mutexes
<1>3. Locking'
  BY Zenon, <1>0, <1>1, EventsAssumption DEF ReturnFromAdd, Locking, Threads, Main, addVars, mutexes
<1>4. Living'
  BY Zenon, <1>0, <1>1 DEF ReturnFromAdd, Living, Listed, deviceVars
<1>5. CbDataAlive'
  BY SMTT(40), <1>0, <1>1 DEF ReturnFromAdd, CbDataAlive, Living, Frame, deviceVars
<1>6. NoneMissed' /\ AllToVisit' /\ Retired'
  BY Zenon, <1>1, QuietKeeps DEF ReturnFromAdd, deviceVars, addVars, clientVars
<1> QED BY Zenon, <1>2, <1>3, <1>4, <1>5, <1>6 DEF ThreadsInv

\* So does one that has stopped waiting.
LEMMA StopWaitingKeeps ==
  ASSUME EventsInv, NEW d \in Devices, StopWaiting(d)
  PROVE  ThreadsInv'
<1>0. TypeOK /\ Locking /\ Living /\ CbDataAlive
  BY Zenon DEF EventsInv, ThreadsInv
<1>1. /\ worker[d] = "waiting" /\ worker'[d] = "leaving"
      /\ \A x \in Devices \ {d} : worker'[x] = worker[x]
  BY <1>0 DEF StopWaiting, TypeOK, Locking, Threads, WorkerStates, Frame
<1>2. TypeOK'
  BY Zenon, <1>0, <1>1 DEF StopWaiting, TypeOK, WorkerStates, Frame, deviceVars, addVars,
     clientVars, mutexes
<1>3. Locking'
  BY Zenon, <1>0, <1>1, EventsAssumption DEF StopWaiting, Locking, Threads, Main, addVars, mutexes
<1>4. Living'
  BY Zenon, <1>0, <1>1 DEF StopWaiting, Living, Listed, deviceVars
<1>5. CbDataAlive'
  BY <1>0, <1>1 DEF StopWaiting, CbDataAlive, Living, Frame, deviceVars
<1>6. NoneMissed' /\ AllToVisit' /\ Retired'
  BY Zenon, <1>1, QuietKeeps DEF StopWaiting, deviceVars, addVars, clientVars
<1> QED BY Zenon, <1>2, <1>3, <1>4, <1>5, <1>6 DEF ThreadsInv

\* The pointer is gone before the frame is, or device_remove took it away.
LEMMA DisarmRemovalKeeps ==
  ASSUME EventsInv, NEW d \in Devices, DisarmRemoval(d)
  PROVE  ThreadsInv'
<1>0. TypeOK /\ Locking /\ Living /\ CbDataAlive
  BY Zenon DEF EventsInv, ThreadsInv
<1>1. /\ worker[d] = "leaving" /\ worker'[d] = "done"
      /\ \A x \in Devices \ {d} : worker'[x] = worker[x]
  BY <1>0 DEF DisarmRemoval, TypeOK, Locking, Threads, WorkerStates, Frame
<1>2. TypeOK'
  BY Zenon, <1>0, <1>1 DEF DisarmRemoval, TypeOK, WorkerStates, Frame, deviceVars, addVars,
     clientVars, mutexes
<1>3. Locking'
  BY Zenon, <1>0, <1>1, EventsAssumption DEF DisarmRemoval, Locking, Threads, Main, addVars, mutexes
<1>4. Living'
  BY Zenon, <1>0, <1>1 DEF DisarmRemoval, Living, Listed, deviceVars
<1>5. CbDataAlive'
  BY <1>0, <1>1 DEF DisarmRemoval, CbDataAlive, Living, Frame, deviceVars
<1>6. NoneMissed' /\ AllToVisit' /\ Retired'
  BY Zenon, <1>1, QuietKeeps DEF DisarmRemoval, deviceVars, addVars, clientVars
<1> QED BY Zenon, <1>2, <1>3, <1>4, <1>5, <1>6 DEF ThreadsInv

\* A lost notification proxy changes np alone.
LEMMA NpCallbackKeeps ==
  ASSUME EventsInv, NEW d \in Devices, np_callback(d)
  PROVE  ThreadsInv'
<1>0. TypeOK /\ Locking /\ Living /\ CbDataAlive
  BY Zenon DEF EventsInv, ThreadsInv
<1>2. TypeOK'
  BY Zenon, <1>0 DEF np_callback, TypeOK, deviceVars, addVars, clientVars, mutexes
<1>3. Locking'
  BY Zenon, <1>0 DEF np_callback, Locking, addVars, mutexes
<1>4. Living'
  BY Zenon, <1>0 DEF np_callback, Living, Listed, deviceVars
<1>5. CbDataAlive'
  BY Zenon, <1>0 DEF np_callback, CbDataAlive, deviceVars
<1>6. NoneMissed' /\ AllToVisit' /\ Retired'
  BY Zenon, QuietKeeps DEF np_callback, deviceVars, addVars, clientVars
<1> QED BY Zenon, <1>2, <1>3, <1>4, <1>5, <1>6 DEF ThreadsInv

-----------------------------------------------------------------------------
(* The main thread, outside client_device_add.                             *)

\* Nothing was told, or the result of a command.
Tells(c) == told'[c] = told[c] \/ told'[c] = Append(told[c], Result)

LEMMA TellsMore ==
  ASSUME TypeOK, NEW c \in Clients, Tells(c), NEW i \in DOMAIN told[c]
  PROVE  i \in DOMAIN told'[c] /\ told'[c][i] = told[c][i]
<1>1. told[c] \in Seq(Event) /\ Result \in Event
  BY Zenon DEF TypeOK, Event
<1> QED BY <1>1, AppendTells DEF Tells

\* Its steps that report no device.
LEMMA MainKeeps ==
  ASSUME EventsInv, left' = left,
         adding[Main] = "no", adding'[Main] \in {"no", "lock"},
         \A t \in Threads \ {Main} : adding'[t] = adding[t],
         \A c \in Clients : /\ client'[c] = "LISTEN"
                                => client[c] = "LISTEN" /\ Tells(c)
                            /\ InList(c)' => InList(c),
         \A d \in Devices : device'[d] = "ACTIVE" /\ d \in visible'
                            => device[d] = "ACTIVE" /\ d \in visible,
         main.pc # "get_list",
         \A d \in Devices :
           main.pc = "list" /\ d \in main.todo \cup main.left /\ device[d] = "ACTIVE" /\ d \in visible
           => main'.pc = "list" /\ main'.client = main.client /\ d \in main'.todo \cup main'.left,
         main'.pc = "remove_free" => device'[main'.dev] # "DEAD"
  PROVE  NoneMissed' /\ AllToVisit' /\ Retired'
<1>0. TypeOK /\ NoneMissed /\ AllToVisit /\ Retired
  BY Zenon DEF EventsInv, ThreadsInv
<1>1. ASSUME NEW c \in Clients, NEW d \in Devices, StillToTell(c, d),
             device[d] = "ACTIVE" /\ d \in visible
      PROVE  StillToTell(c, d)'
  <2>1. CASE main.client = c /\ main.pc = "list" /\ d \in main.todo \cup main.left
    BY Zenon, <1>1, <2>1 DEF StillToTell
  <2>2. CASE \E t \in Threads : Announced(t) = d /\ adding[t] = "notify" /\ c \in left[t]
    <3>1. PICK t \in Threads : Announced(t) = d /\ adding[t] = "notify" /\ c \in left[t]
      BY Zenon, <2>2
    <3>2. t # Main
      BY Zenon, <3>1
    <3>3. Announced(t)' = d /\ adding'[t] = "notify" /\ c \in left'[t]
      BY Zenon, <3>1, <3>2 DEF Announced
    <3> QED BY Zenon, <3>3 DEF StillToTell
  <2> QED BY Zenon, <1>1, <2>1, <2>2 DEF StillToTell
<1>2. NoneMissed'
  <2>1. ASSUME NEW c \in Clients, NEW d \in Devices, client'[c] = "LISTEN",
               device'[d] = "ACTIVE", d \in visible', ~StillToTell(c, d)'
        PROVE  \E i \in DOMAIN told'[c] : told'[c][i] = Attached(d)
    <3>1. /\ client[c] = "LISTEN" /\ Tells(c)
          /\ device[d] = "ACTIVE" /\ d \in visible /\ ~StillToTell(c, d)
      BY Zenon, <1>1, <2>1
    <3>2. PICK i \in DOMAIN told[c] : told[c][i] = Attached(d)
      BY Zenon, <1>0, <3>1 DEF NoneMissed
    <3>3. i \in DOMAIN told'[c] /\ told'[c][i] = told[c][i]
      BY Zenon, <1>0, <3>1, TellsMore
    <3> QED BY Zenon, <3>2, <3>3
  <2> QED BY Zenon, <2>1 DEF NoneMissed
<1>3. AllToVisit'
  BY Zenon, <1>0 DEF AllToVisit
<1>4. Retired'
  BY Zenon DEF Retired
<1> QED BY Zenon, <1>2, <1>3, <1>4

\* A device that is added has no worker and is not visible.
LEMMA DeviceAddKeeps ==
  ASSUME EventsInv, NEW d \in Devices, device_add(d)
  PROVE  ThreadsInv'
<1>0. TypeOK /\ Locking /\ Living /\ CbDataAlive
  BY Zenon DEF EventsInv, ThreadsInv
<1>1. main' \in MainThread /\ main.pc = "poll" /\ main' = main
  BY Zenon, <1>0 DEF device_add, TypeOK, MainThread, Idle, Locking, Serving, Removing
<1>2. TypeOK'
  BY Zenon, <1>0, <1>1 DEF device_add, TypeOK, DeviceStates, WorkerStates, ClientStates, Threads,
     deviceVars, workerVars, addVars, clientVars, mutexes
<1>3. Locking'
  BY Zenon, <1>0, <1>1, EventsAssumption DEF device_add, TypeOK, Locking, Removing, Serving,
     Threads, Main,
     Nobody, workerVars, addVars, mutexes
<1>4. Living'
  BY <1>0, <1>1 DEF device_add, TypeOK, Living, Locking, Removing, Listed, deviceVars,
     workerVars
<1>5. CbDataAlive'
  BY Zenon, <1>0, <1>1 DEF device_add, TypeOK, CbDataAlive, Living, Listed, Frame, deviceVars,
     workerVars
<1>6. NoneMissed' /\ AllToVisit' /\ Retired'
  BY ZenonT(40), <1>0, <1>1, MainKeeps
  DEF Tells, device_add, TypeOK, Locking, Living, Threads, InList, Removing,
     deviceVars, addVars, clientVars
<1> QED BY Zenon, <1>2, <1>3, <1>4, <1>5, <1>6 DEF ThreadsInv

\* A device that is dropped has no worker that could be told.
LEMMA VersionUnknownKeeps ==
  ASSUME EventsInv, NEW d \in Devices, device_version_input_unknown(d)
  PROVE  ThreadsInv'
<1>0. TypeOK /\ Locking /\ Living /\ CbDataAlive
  BY Zenon DEF EventsInv, ThreadsInv
<1>1. main' \in MainThread /\ main.pc = "poll" /\ main' = main
  BY Zenon, <1>0
  DEF device_version_input_unknown, TypeOK, MainThread, Idle, Locking, Serving, Removing
<1>2. TypeOK'
  BY Zenon, <1>0, <1>1 DEF device_version_input_unknown, TypeOK, DeviceStates, WorkerStates,
     ClientStates, Threads,
     deviceVars, workerVars, addVars, clientVars, mutexes
<1>3. Locking'
  BY Zenon, <1>0, <1>1, EventsAssumption DEF device_version_input_unknown, TypeOK, Locking,
     Removing, Serving, Threads, Main,
     Nobody, workerVars, addVars, mutexes
<1>4. Living'
  <2>1. d \notin preflight_cb_data
    BY Zenon, <1>0 DEF device_version_input_unknown, CbDataAlive, Living, Frame
  <2>2. device'[d] = "GONE" /\ \A x \in Devices \ {d} : device'[x] = device[x]
    BY Zenon, <1>0 DEF device_version_input_unknown, TypeOK
  <2> QED BY <1>0, <1>1, <2>1, <2>2 DEF device_version_input_unknown, Living, Listed, workerVars
<1>5. CbDataAlive'
  BY Zenon, <1>0, <1>1 DEF device_version_input_unknown, TypeOK, CbDataAlive, Living, Listed,
     Frame, deviceVars, workerVars
<1>6. NoneMissed' /\ AllToVisit' /\ Retired'
  BY ZenonT(40), <1>0, <1>1, MainKeeps DEF Tells, device_version_input_unknown, TypeOK, Locking, Living,
     Threads, InList, Removing,
     deviceVars, addVars, clientVars
<1> QED BY Zenon, <1>2, <1>3, <1>4, <1>5, <1>6 DEF ThreadsInv

\* The worker of an ACTIVE device is not in client_device_add yet.
LEMMA VersionInputKeeps ==
  ASSUME EventsInv, NEW d \in Devices, device_version_input(d)
  PROVE  ThreadsInv'
<1>0. TypeOK /\ Locking /\ Living /\ CbDataAlive
  BY Zenon DEF EventsInv, ThreadsInv
<1>1. main' \in MainThread /\ main.pc = "poll" /\ main' = main
  BY Zenon, <1>0 DEF device_version_input, TypeOK, MainThread, Idle, Locking, Serving, Removing
<1>2. TypeOK'
  BY Zenon, <1>0, <1>1 DEF device_version_input, TypeOK, DeviceStates, WorkerStates, ClientStates,
     Threads,
     deviceVars, workerVars, addVars, clientVars, mutexes
<1>3. Locking'
  BY SMTT(40), <1>0, <1>1, EventsAssumption DEF device_version_input, TypeOK, Living, Locking,
     Removing, Serving, Threads, Main,
     Nobody, workerVars, addVars, mutexes
<1>4. Living'
  BY <1>0, <1>1 DEF device_version_input, TypeOK, Living, Locking, Removing, Listed,
     deviceVars, workerVars
<1>5. CbDataAlive'
  BY SMTT(40), <1>0, <1>1 DEF device_version_input, TypeOK, CbDataAlive, Living, Listed, Frame,
     deviceVars, workerVars
<1>6. NoneMissed' /\ AllToVisit' /\ Retired'
  BY <1>0, <1>1, MainKeeps DEF Tells, device_version_input, TypeOK, Locking, Living, Threads,
     InList, Removing,
     deviceVars, addVars, clientVars
<1> QED BY Zenon, <1>2, <1>3, <1>4, <1>5, <1>6 DEF ThreadsInv

\* The main thread enters client_device_add for an ACTIVE device.
LEMMA VersionDirectKeeps ==
  ASSUME EventsInv, NEW d \in Devices, device_version_input_direct(d)
  PROVE  ThreadsInv'
<1>0. TypeOK /\ Locking /\ Living /\ CbDataAlive
  BY Zenon DEF EventsInv, ThreadsInv
<1>1. main' \in MainThread /\ main.pc = "poll"
      /\ main'.pc = "add" /\ main'.dev = d /\ adding'[Main] = "lock"
      /\ \A t \in Threads \ {Main} : adding'[t] = adding[t]
  BY Zenon, <1>0 DEF device_version_input_direct, TypeOK, MainThread, Locking, Threads
<1>2. TypeOK'
  BY Zenon, <1>0, <1>1 DEF device_version_input_direct, TypeOK, DeviceStates, WorkerStates,
     ClientStates, Threads,
     deviceVars, workerVars, addVars, clientVars, mutexes
<1>3. Locking'
  BY <1>0, <1>1, EventsAssumption DEF device_version_input_direct, TypeOK, Locking,
     Removing, Serving, Closing, Threads, Main,
     Nobody, workerVars, addVars, mutexes
<1>4. Living'
  BY <1>0, <1>1 DEF device_version_input_direct, TypeOK, Living, Locking, Removing, Listed,
     deviceVars, workerVars
<1>5. CbDataAlive'
  BY Zenon, <1>0, <1>1 DEF device_version_input_direct, TypeOK, CbDataAlive, Living, Listed,
     Frame, deviceVars, workerVars
<1>6. NoneMissed' /\ AllToVisit' /\ Retired'
  BY <1>0, <1>1, MainKeeps DEF Tells, device_version_input_direct, TypeOK, Locking, Living,
     Threads, InList, Removing,
     deviceVars, addVars, clientVars
<1> QED BY Zenon, <1>2, <1>3, <1>4, <1>5, <1>6 DEF ThreadsInv

\* And returns from it.
LEMMA MainReturnsFromAddKeeps ==
  ASSUME EventsInv, MainReturnsFromAdd
  PROVE  ThreadsInv'
<1>0. TypeOK /\ Locking /\ Living /\ CbDataAlive
  BY Zenon DEF EventsInv, ThreadsInv
<1>1. main' \in MainThread /\ main'.pc = "poll"
  BY Zenon, <1>0 DEF MainReturnsFromAdd, TypeOK, MainThread, Idle, Locking, Serving, Removing
<1>2. TypeOK'
  BY Zenon, <1>0, <1>1 DEF MainReturnsFromAdd, TypeOK, DeviceStates, WorkerStates, ClientStates,
     Threads,
     deviceVars, workerVars, addVars, clientVars, mutexes
<1>3. Locking'
  BY Zenon, <1>0, <1>1, EventsAssumption DEF MainReturnsFromAdd, TypeOK, Locking, Removing,
     Serving, Closing, Threads, Main,
     Nobody, workerVars, addVars, mutexes
<1>4. Living'
  BY Zenon, <1>0, <1>1 DEF MainReturnsFromAdd, TypeOK, Living, Locking, Removing, Listed,
     deviceVars, workerVars
<1>5. CbDataAlive'
  BY Zenon, <1>0, <1>1 DEF MainReturnsFromAdd, TypeOK, CbDataAlive, Living, Listed, Frame,
     deviceVars, workerVars
<1>6. NoneMissed' /\ AllToVisit' /\ Retired'
  BY Zenon, <1>0, <1>1, MainKeeps DEF Tells, MainReturnsFromAdd, TypeOK, Locking, Living, Threads,
     InList, Removing,
     deviceVars, addVars, clientVars
<1> QED BY Zenon, <1>2, <1>3, <1>4, <1>5, <1>6 DEF ThreadsInv

\* device_remove takes device_list_mutex and marks the device DEAD.
LEMMA DeviceRemoveKeeps ==
  ASSUME EventsInv, NEW d \in Devices, device_remove(d)
  PROVE  ThreadsInv'
<1>0. TypeOK /\ Locking /\ Living /\ CbDataAlive
  BY Zenon DEF EventsInv, ThreadsInv
<1>1. main' \in MainThread /\ main.pc = "poll" /\ main'.dev = d
      /\ main'.pc = IF device[d] = "ACTIVE" THEN "remove_notify" ELSE "remove_free"
  BY Zenon, <1>0 DEF device_remove, TypeOK, MainThread, Idle, Locking, Serving, Removing
<1>2. TypeOK'
  BY Zenon, <1>0, <1>1 DEF device_remove, TypeOK, DeviceStates, WorkerStates, ClientStates, Threads,
     deviceVars, workerVars, addVars, clientVars, mutexes
<1>3. Locking'
  BY <1>0, <1>1, EventsAssumption DEF device_remove, TypeOK, Locking, Removing, Serving,
     Closing, Threads, Main,
     Nobody, workerVars, addVars, mutexes
<1>4. Living'
  BY <1>0, <1>1 DEF device_remove, TypeOK, Living, Locking, Removing, Listed, deviceVars,
     workerVars
<1>5. CbDataAlive'
  BY Zenon, <1>0, <1>1 DEF device_remove, TypeOK, CbDataAlive, Living, Listed, Frame, deviceVars,
     workerVars
<1>6. NoneMissed' /\ AllToVisit' /\ Retired'
  BY SMTT(40), <1>0, <1>1, MainKeeps DEF Tells, device_remove, TypeOK, Locking, Living, Threads, InList,
     Removing,
     deviceVars, addVars, clientVars
<1> QED BY Zenon, <1>2, <1>3, <1>4, <1>5, <1>6 DEF ThreadsInv

\* It clears the pointer and the visibility with the device.
LEMMA RemoveFreeKeeps ==
  ASSUME EventsInv, RemoveFree
  PROVE  ThreadsInv'
<1>0. TypeOK /\ Locking /\ Living /\ CbDataAlive
  BY Zenon DEF EventsInv, ThreadsInv
<1>1. main' \in MainThread /\ main'.pc = "poll" /\ main.dev \in Devices
  BY Zenon, <1>0 DEF RemoveFree, TypeOK, MainThread, Idle, Locking, Serving, Removing
<1>2. TypeOK'
  BY Zenon, <1>0, <1>1 DEF RemoveFree, TypeOK, DeviceStates, WorkerStates, ClientStates, Threads,
     deviceVars, workerVars, addVars, clientVars, mutexes
<1>3. Locking'
  BY Zenon, <1>0, <1>1, EventsAssumption DEF RemoveFree, TypeOK, Locking, Removing, Serving,
     Closing, Threads, Main,
     Nobody, workerVars, addVars, mutexes
<1>4. Living'
  BY <1>0, <1>1 DEF RemoveFree, TypeOK, Living, Locking, Removing, Listed, deviceVars,
     workerVars
<1>5. CbDataAlive'
  BY Zenon, <1>0, <1>1 DEF RemoveFree, TypeOK, CbDataAlive, Living, Listed, Frame, deviceVars,
     workerVars
<1>6. NoneMissed' /\ AllToVisit' /\ Retired'
  <2>1. /\ told' = told /\ left' = left /\ adding' = adding
        /\ client' = client /\ main.pc = "remove_free"
    BY Zenon DEF RemoveFree, addVars, clientVars
  <2>2. adding[Main] = "no"
    BY Zenon, <1>0, <2>1 DEF Locking
  <2>3. \A c \in Clients : InList(c)' => InList(c)
    BY Zenon, <2>1 DEF InList
  <2>4. \A d \in Devices : device'[d] = "ACTIVE" /\ d \in visible'
                            => device[d] = "ACTIVE" /\ d \in visible
    BY Zenon, <1>0, <1>1 DEF RemoveFree, TypeOK
  <2> QED BY Zenon, <1>1, <2>1, <2>2, <2>3, <2>4, MainKeeps DEF Tells
<1> QED BY Zenon, <1>2, <1>3, <1>4, <1>5, <1>6 DEF ThreadsInv

\* What is freed with the usb_device is in no list.
LEMMA ReapKeeps ==
  ASSUME EventsInv, NEW d \in Devices, reap_dead_devices(d)
  PROVE  ThreadsInv'
<1>0. TypeOK /\ Locking /\ Living /\ CbDataAlive
  BY Zenon DEF EventsInv, ThreadsInv
<1>1. main' \in MainThread /\ main.pc = "poll" /\ main' = main
  BY Zenon, <1>0 DEF reap_dead_devices, TypeOK, MainThread, Idle, Locking, Serving, Removing
<1>2. TypeOK'
  BY Zenon, <1>0, <1>1 DEF reap_dead_devices, TypeOK, DeviceStates, WorkerStates, ClientStates,
     Threads,
     deviceVars, workerVars, addVars, clientVars, mutexes
<1>3. Locking'
  BY Zenon, <1>0, <1>1, EventsAssumption DEF reap_dead_devices, TypeOK, Locking, Removing,
     Serving, Threads, Main,
     Nobody, workerVars, addVars, mutexes
<1>4. Living'
  BY <1>0, <1>1 DEF reap_dead_devices, TypeOK, Living, Locking, Removing, Listed,
     deviceVars, workerVars
<1>5. CbDataAlive'
  BY Zenon, <1>0, <1>1 DEF reap_dead_devices, TypeOK, CbDataAlive, Living, Listed, Frame,
     deviceVars, workerVars
<1>6. NoneMissed' /\ AllToVisit' /\ Retired'
  BY ZenonT(40), <1>0, <1>1, MainKeeps
  DEF Tells, reap_dead_devices, TypeOK, Locking, Living, Threads, InList,
     Removing,
     deviceVars, addVars, clientVars
<1> QED BY Zenon, <1>2, <1>3, <1>4, <1>5, <1>6 DEF ThreadsInv

\* client_process finds a client in the list.
LEMMA ClientProcessKeeps ==
  ASSUME EventsInv, NEW c \in Clients, client_process(c)
  PROVE  ThreadsInv'
<1>0. TypeOK /\ Locking /\ Living /\ CbDataAlive
  BY Zenon DEF EventsInv, ThreadsInv
<1>1. main' \in MainThread /\ main.pc = "poll" /\ main'.pc = "process" /\ main'.client = c
  BY Zenon, <1>0 DEF client_process, TypeOK, MainThread, Idle, Locking, Serving
<1>2. TypeOK'
  BY Zenon, <1>0, <1>1, CutTypes DEF client_process, TypeOK, ClientStates, deviceVars, workerVars,
     addVars, clientVars, mutexes
<1>3. Locking'
  BY Zenon, <1>0, <1>1 DEF client_process, Locking, Removing, Serving, workerVars, addVars, mutexes
<1>4. Living'
  BY Zenon, <1>0, <1>1 DEF client_process, Living, Removing, Listed, deviceVars, workerVars
<1>5. CbDataAlive'
  BY Zenon, <1>0 DEF client_process, CbDataAlive, deviceVars, workerVars
<1>6. NoneMissed' /\ AllToVisit' /\ Retired'
  BY Zenon, <1>0, <1>1, MainKeeps DEF Tells, client_process, TypeOK, Locking, InList, deviceVars,
     addVars, clientVars
<1> QED BY Zenon, <1>2, <1>3, <1>4, <1>5, <1>6 DEF ThreadsInv

\* A step of the main thread for a client changes no device, no worker and no mutex.
LEMMA ServeLocks ==
  ASSUME EventsInv, UNCHANGED <<deviceVars, workerVars, adding, left, mutexes>>,
         main.pc \in Serving, main'.pc \in Serving \cup {"poll"},
         main'.pc \in Serving => main'.client \in Clients,
         \A c \in Clients : InList(c)' => InList(c)
  PROVE  Locking' /\ Living' /\ CbDataAlive' /\ AllToVisit' /\ Retired' /\ adding[Main] = "no"
<1>0. Locking /\ Living /\ CbDataAlive /\ AllToVisit
  BY Zenon DEF EventsInv, ThreadsInv
<1>1. /\ main.pc \notin Removing \cup {"add"} /\ main'.pc \notin Removing \cup {"add"}
      /\ main'.pc # "remove_free" /\ main'.pc # "remove_notify"
  BY Zenon DEF Serving, Closing, Removing
<1>2. adding[Main] = "no"
  BY Zenon, <1>0, <1>1 DEF Locking
<1>3. Locking'
  BY Zenon, <1>0, <1>1, <1>2 DEF Locking, workerVars, mutexes
<1>4. Living'
  BY Zenon, <1>0, <1>1 DEF Living, Listed, deviceVars, workerVars
<1>5. CbDataAlive' /\ AllToVisit'
  BY Zenon, <1>0 DEF CbDataAlive, AllToVisit, deviceVars, workerVars
<1>6. Retired'
  BY Zenon, <1>1 DEF Retired
<1> QED BY Zenon, <1>2, <1>3, <1>4, <1>5, <1>6

\* Such a step that reports no device keeps the invariant.
LEMMA ServeKeeps ==
  ASSUME EventsInv, UNCHANGED <<deviceVars, workerVars, adding, left, mutexes>>, TypeOK',
         main.pc \in Serving \ {"get_list"}, main'.pc \in Serving \cup {"poll"},
         main'.pc \in Serving => main'.client \in Clients,
         \A c \in Clients : /\ client'[c] = "LISTEN" => client[c] = "LISTEN" /\ Tells(c)
                            /\ InList(c)' => InList(c),
         \A d \in Devices :
           main.pc = "list" /\ d \in main.todo \cup main.left /\ device[d] = "ACTIVE" /\ d \in visible
           => main'.pc = "list" /\ main'.client = main.client /\ d \in main'.todo \cup main'.left
  PROVE  ThreadsInv'
<1>1. Locking' /\ Living' /\ CbDataAlive' /\ AllToVisit' /\ Retired' /\ adding[Main] = "no"
  BY Zenon, ServeLocks
<1>2. main'.pc # "remove_free" /\ main.pc # "get_list"
  BY Zenon DEF Serving, Closing
<1>3. NoneMissed'
  BY Zenon, <1>1, <1>2, MainKeeps DEF deviceVars
<1> QED BY Zenon, <1>1, <1>3 DEF ThreadsInv

\* The client that is served.
LEMMA Served ==
  ASSUME EventsInv, main.pc \in Serving
  PROVE  TypeOK /\ main \in MainThread /\ main.client \in Clients
BY Zenon DEF EventsInv, ThreadsInv, TypeOK, Locking

\* start_listen returns when it has reported all that it found.
LEMMA ListDoneKeeps ==
  ASSUME EventsInv, ListDone
  PROVE  ThreadsInv'
<1>1. main.pc = "list" /\ main.todo = {} /\ main.left = {} /\ main' = Idle /\ clientVars' = clientVars
  BY Zenon DEF ListDone
<1>0. TypeOK /\ main.client \in Clients /\ main.pc \in Serving \ {"get_list"}
  BY Zenon, <1>1, Served DEF Serving
<1>2. main' \in MainThread /\ main'.pc = "poll"
  BY Zenon, <1>1 DEF Idle, MainThread
<1>3. TypeOK'
  BY Zenon, <1>0, <1>2 DEF ListDone, TypeOK, deviceVars, workerVars, addVars, clientVars, mutexes
<1>4. "poll" \notin Serving
  BY Zenon DEF Serving, Closing
<1>5. \A c \in Clients : /\ client'[c] = "LISTEN" => client[c] = "LISTEN" /\ Tells(c)
                         /\ InList(c)' => InList(c)
  BY Zenon, <1>1 DEF Tells, InList, clientVars
<1> QED BY Zenon, <1>0, <1>1, <1>2, <1>3, <1>4, <1>5, ServeKeeps DEF ListDone, addVars

\* Nothing to send, nothing changes.
LEMMA NothingToSendKeeps ==
  ASSUME EventsInv, NothingToSend
  PROVE  ThreadsInv'
<1>1. main.pc = "process" /\ main' = Idle /\ clientVars' = clientVars
  BY Zenon DEF NothingToSend
<1>0. TypeOK /\ main.client \in Clients /\ main.pc \in Serving \ {"get_list"}
  BY Zenon, <1>1, Served DEF Serving
<1>2. main' \in MainThread /\ main'.pc = "poll"
  BY Zenon, <1>1 DEF Idle, MainThread
<1>3. TypeOK'
  BY Zenon, <1>0, <1>2 DEF NothingToSend, TypeOK, deviceVars, workerVars, addVars, clientVars, mutexes
<1>4. "poll" \notin Serving
  BY Zenon DEF Serving, Closing
<1>5. \A c \in Clients : /\ client'[c] = "LISTEN" => client[c] = "LISTEN" /\ Tells(c)
                         /\ InList(c)' => InList(c)
  BY Zenon, <1>1 DEF Tells, InList, clientVars
<1> QED BY Zenon, <1>0, <1>1, <1>2, <1>3, <1>4, <1>5, ServeKeeps DEF NothingToSend, addVars

\* process_send begins.
LEMMA ProcessSendKeeps ==
  ASSUME EventsInv, process_send
  PROVE  ThreadsInv'
<1>1. /\ main.pc = "process" /\ main' = [main EXCEPT !.pc = "send"]
      /\ UNCHANGED <<client, ob_buf, freed, told, sent>>
  BY Zenon DEF process_send
<1>0. /\ TypeOK /\ main \in MainThread /\ main.client \in Clients
      /\ main.pc \in Serving \ {"get_list"}
  BY Zenon, <1>1, Served DEF Serving
<1>2. main' \in MainThread /\ main'.pc = "send" /\ main'.client = main.client
  BY Zenon, <1>0, <1>1 DEF MainThread
<1>3. torn' \subseteq Clients /\ stale' \subseteq {"ob_buf", "enlarged", "serial", "client"}
  BY Zenon, <1>0 DEF process_send, Torn, Misused, TypeOK
<1>4. TypeOK'
  BY Zenon, <1>0, <1>1, <1>2, <1>3
  DEF process_send, TypeOK, deviceVars, workerVars, addVars, mutexes
<1>5. "send" \in Serving
  BY Zenon DEF Serving
<1>6. \A c \in Clients : /\ client'[c] = "LISTEN" => client[c] = "LISTEN" /\ Tells(c)
                         /\ InList(c)' => InList(c)
  BY Zenon, <1>1 DEF Tells, InList
<1> QED BY Zenon, <1>0, <1>1, <1>2, <1>4, <1>5, <1>6, ServeKeeps DEF process_send, addVars

\* What send() takes from the buffer changes nothing that a client was told.
LEMMA SendOutputKeeps ==
  ASSUME EventsInv, SendOutput
  PROVE  ThreadsInv'
<1>1. main.pc = "send" /\ main' = Idle /\ client' = client /\ told' = told
  BY Zenon DEF SendOutput
<1>0. TypeOK /\ main.client \in Clients /\ main.pc \in Serving \ {"get_list"}
  BY Zenon, <1>1, Served DEF Serving
<1>2. main' \in MainThread /\ main'.pc = "poll"
  BY Zenon, <1>1 DEF Idle, MainThread
<1>3. sent' \in [Clients -> Seq(Event)] /\ ob_buf' \in [Clients -> Seq(Event)]
  <2>1. sent \in [Clients -> Seq(Event)] /\ ob_buf \in [Clients -> Seq(Event)]
    BY Zenon, <1>0 DEF TypeOK
  <2>2. CASE UNCHANGED <<sent, ob_buf>>
    BY Zenon, <2>1, <2>2
  <2>3. ASSUME NEW n \in 1..Len(ob_buf[main.client]),
               sent' = [sent EXCEPT ![main.client] = @ \o SubSeq(ob_buf[main.client], 1, n)],
               ob_buf' = [ob_buf EXCEPT ![main.client] =
                            SubSeq(ob_buf[main.client], n + 1, Len(ob_buf[main.client]))]
        PROVE  sent' \in [Clients -> Seq(Event)] /\ ob_buf' \in [Clients -> Seq(Event)]
    <3>1. n \in Nat /\ n <= Len(ob_buf[main.client])
      BY <1>0, <2>1
    <3>2. /\ SubSeq(ob_buf[main.client], 1, n) \in Seq(Event)
          /\ SubSeq(ob_buf[main.client], n + 1, Len(ob_buf[main.client])) \in Seq(Event)
      BY Zenon, <1>0, <2>1, <3>1, CutTypes
    <3>3. sent[main.client] \o SubSeq(ob_buf[main.client], 1, n) \in Seq(Event)
      BY <1>0, <2>1, <3>2
    <3> QED BY Zenon, <2>1, <2>3, <3>2, <3>3
  <2> QED BY Zenon, <2>2, <2>3 DEF SendOutput
<1>4. TypeOK'
  BY Zenon, <1>0, <1>1, <1>2, <1>3
  DEF SendOutput, TypeOK, deviceVars, workerVars, addVars, mutexes
<1>5. "poll" \notin Serving
  BY Zenon DEF Serving, Closing
<1>6. \A c \in Clients : /\ client'[c] = "LISTEN" => client[c] = "LISTEN" /\ Tells(c)
                         /\ InList(c)' => InList(c)
  BY Zenon, <1>1 DEF Tells, InList
<1> QED BY Zenon, <1>0, <1>1, <1>2, <1>4, <1>5, <1>6, ServeKeeps DEF SendOutput, addVars

\* Freeing the buffers takes the client off no list.
LEMMA ClientCloseKeeps ==
  ASSUME EventsInv, client_close
  PROVE  ThreadsInv'
<1>1. /\ main.pc = "process" \/ main.pc = "send"
      /\ main' = [main EXCEPT !.pc = "close"] /\ FreeBuffers(main.client)
      /\ UNCHANGED <<client, ob_buf, told, sent>>
  BY Zenon DEF client_close
<1>0. /\ TypeOK /\ main \in MainThread /\ main.client \in Clients
      /\ main.pc \in Serving \ {"get_list"} /\ main.pc # "list"
  BY Zenon, <1>1, Served DEF Serving
<1>2. main' \in MainThread /\ main'.pc = "close" /\ main'.client = main.client
  BY Zenon, <1>0, <1>1 DEF MainThread
<1>3. /\ torn' \subseteq Clients /\ stale' \subseteq {"ob_buf", "enlarged", "serial", "client"}
      /\ freed' \subseteq Clients
  BY Zenon, <1>0, <1>1 DEF FreeBuffers, Torn, TypeOK
<1>4. TypeOK'
  BY Zenon, <1>0, <1>1, <1>2, <1>3
  DEF client_close, TypeOK, deviceVars, workerVars, addVars, mutexes
<1>5. "close" \in Serving
  BY Zenon DEF Serving, Closing
<1>6. \A c \in Clients : /\ client'[c] = "LISTEN" => client[c] = "LISTEN" /\ Tells(c)
                         /\ InList(c)' => InList(c)
  BY Zenon, <1>1 DEF Tells, InList
<1> QED BY Zenon, <1>0, <1>1, <1>2, <1>4, <1>5, <1>6, ServeKeeps DEF client_close, addVars

\* A client that left the list need not be told.
LEMMA RemoveClientKeeps ==
  ASSUME EventsInv, RemoveClient
  PROVE  ThreadsInv'
<1>1. /\ main.pc = "close" \/ main.pc = "close_command"
      /\ main' = Idle /\ client' = [client EXCEPT ![main.client] = "CLOSED"]
      /\ told' = [told EXCEPT ![main.client] = <<>>]
  BY Zenon DEF RemoveClient, Closing
<1>0. /\ TypeOK /\ main.client \in Clients
      /\ main.pc \in Serving \ {"get_list"} /\ main.pc # "list"
  BY Zenon, <1>1, Served DEF Serving, Closing
<1>2. main' \in MainThread /\ main'.pc = "poll"
  BY Zenon, <1>1 DEF Idle, MainThread
<1>3. <<>> \in Seq(Event)
  OBVIOUS
<1>4. /\ ob_buf' \in [Clients -> Seq(Event)] /\ told' \in [Clients -> Seq(Event)]
      /\ sent' \in [Clients -> Seq(Event)]
  BY Zenon, <1>0, <1>3 DEF RemoveClient, TypeOK
<1>5. /\ client' \in [Clients -> ClientStates] /\ torn' \subseteq Clients
      /\ stale' \subseteq {"ob_buf", "enlarged", "serial", "client"}
  BY Zenon, <1>0, <1>1 DEF RemoveClient, TypeOK, ClientStates
<1>6. TypeOK'
  BY Zenon, <1>0, <1>2, <1>4, <1>5
  DEF RemoveClient, TypeOK, deviceVars, workerVars, addVars, mutexes
<1>7. "poll" \notin Serving
  BY Zenon DEF Serving, Closing
<1>8. \A c \in Clients : /\ client'[c] = "LISTEN" => client[c] = "LISTEN" /\ Tells(c)
                         /\ InList(c)' => InList(c)
  BY Zenon, <1>0, <1>1 DEF Tells, InList, TypeOK
<1> QED BY Zenon, <1>0, <1>1, <1>2, <1>6, <1>7, <1>8, ServeKeeps DEF RemoveClient, addVars

\* client_command refuses the command of a client that listens.
LEMMA WrongStateKeeps ==
  ASSUME EventsInv, WrongState
  PROVE  ThreadsInv'
<1>1. main.pc = "process" /\ main' = [main EXCEPT !.pc = "reply"] /\ send_pkt(Main, main.client, {})
  BY Zenon DEF WrongState
<1>0. /\ TypeOK /\ main \in MainThread /\ main.client \in Clients
      /\ main.pc \in Serving \ {"get_list"}
  BY Zenon, <1>1, Served DEF Serving
<1>2. main' \in MainThread /\ main'.pc = "reply" /\ main'.client = main.client
  BY Zenon, <1>0, <1>1 DEF MainThread
<1>3. /\ into' \in [Threads -> Clients \cup {Nobody}] /\ enlarging' \subseteq Threads
      /\ torn' \subseteq Clients /\ stale' \subseteq {"ob_buf", "enlarged", "serial", "client"}
      /\ UNCHANGED <<client, ob_buf, freed, told, sent>>
  <2>1. Main \in Threads /\ {} \in SUBSET {"serial"}
    BY Zenon DEF Threads
  <2> QED BY Zenon, <1>0, <1>1, <2>1, BeginFields
<1>4. TypeOK'
  BY Zenon, <1>0, <1>2, <1>3 DEF WrongState, TypeOK, deviceVars, workerVars, mutexes
<1>5. "reply" \in Serving
  BY Zenon DEF Serving
<1>6. \A c \in Clients : /\ client'[c] = "LISTEN" => client[c] = "LISTEN" /\ Tells(c)
                         /\ InList(c)' => InList(c)
  BY Zenon, <1>3 DEF Tells, InList
<1> QED BY Zenon, <1>0, <1>1, <1>2, <1>4, <1>5, <1>6, ServeKeeps DEF WrongState

\* Its reply is no event of a device.
LEMMA RepliedKeeps ==
  ASSUME EventsInv, Replied
  PROVE  ThreadsInv'
<1>1. /\ main.pc = "reply" /\ main' = [main EXCEPT !.pc = "close_command"]
      /\ PktDone(Main, Result) /\ FreeBuffers(main.client) /\ UNCHANGED <<client, sent>>
  BY Zenon DEF Replied
<1>0. /\ TypeOK /\ main \in MainThread /\ main.client \in Clients
      /\ main.pc \in Serving \ {"get_list"}
  BY Zenon, <1>1, Served DEF Serving
<1>2. main' \in MainThread /\ main'.pc = "close_command" /\ main'.client = main.client
  BY Zenon, <1>0, <1>1 DEF MainThread
<1>3. PICK c \in Clients : c = into[Main]
  BY Zenon, <1>0, <1>1 DEF PktDone, TypeOK, Threads
<1>4. /\ told' \in [Clients -> Seq(Event)] /\ ob_buf' \in [Clients -> Seq(Event)]
      /\ \A x \in Clients : told'[x] = IF x \in {c} THEN Append(told[x], Result) ELSE told[x]
  <2>1. {c} \in SUBSET Clients /\ Result \in Event /\ Put({c}, Result)
    BY Zenon, <1>1, <1>3 DEF PktDone, Event
  <2> QED BY Zenon, <1>0, <2>1, PutFields
<1>5. /\ torn' \subseteq Clients /\ stale' \subseteq {"ob_buf", "enlarged", "serial", "client"}
      /\ freed' \subseteq Clients
      /\ into' \in [Threads -> Clients \cup {Nobody}] /\ enlarging' = enlarging
  BY Zenon, <1>0, <1>1 DEF FreeBuffers, PktDone, Torn, TypeOK
<1>6. TypeOK'
  BY Zenon, <1>0, <1>1, <1>2, <1>4, <1>5 DEF Replied, TypeOK, deviceVars, workerVars, mutexes
<1>7. "close_command" \in Serving
  BY Zenon DEF Serving, Closing
<1>8. \A x \in Clients : /\ client'[x] = "LISTEN" => client[x] = "LISTEN" /\ Tells(x)
                         /\ InList(x)' => InList(x)
  BY Zenon, <1>1, <1>4 DEF Tells, InList
<1> QED BY Zenon, <1>0, <1>1, <1>2, <1>6, <1>7, <1>8, ServeKeeps DEF Replied

\* device_get_list leaves out no visible device.
LEMMA CollectDeviceKeeps ==
  ASSUME EventsInv, NEW d \in Devices, CollectDevice(d)
  PROVE  ThreadsInv'
<1>1. main.pc = "list" /\ clientVars' = clientVars
  BY Zenon DEF CollectDevice
<1>0. /\ TypeOK /\ main \in MainThread /\ main.client \in Clients
      /\ main.pc \in Serving \ {"get_list"}
  BY Zenon, <1>1, Served DEF Serving
<1>2. main.todo \in SUBSET Devices /\ main.left \in SUBSET Devices
  BY Zenon, <1>0 DEF MainThread
<1>3. PICK u \in SUBSET Devices : u = main.todo \ {d}
  BY Zenon, <1>2
<1>4. PICK l \in SUBSET Devices :
        l = main.left \cup {x \in {d} : device[x] = "ACTIVE" /\ x \in visible}
  BY Zenon, <1>2
<1>5. main' = [main EXCEPT !.todo = u, !.left = l]
  BY Zenon, <1>3, <1>4 DEF CollectDevice
<1>6. /\ main' \in MainThread /\ main'.pc = "list" /\ main'.client = main.client
      /\ main'.todo = u /\ main'.left = l
  BY Zenon, <1>0, <1>1, <1>5 DEF MainThread
<1>7. TypeOK'
  BY Zenon, <1>0, <1>6 DEF CollectDevice, TypeOK, deviceVars, workerVars, addVars, clientVars, mutexes
<1>8. "list" \in Serving
  BY Zenon DEF Serving
<1>9. \A c \in Clients : /\ client'[c] = "LISTEN" => client[c] = "LISTEN" /\ Tells(c)
                         /\ InList(c)' => InList(c)
  BY Zenon, <1>1 DEF Tells, InList, clientVars
<1>10. ASSUME NEW y \in Devices, y \in main.todo \cup main.left, device[y] = "ACTIVE", y \in visible
       PROVE  y \in main'.todo \cup main'.left
  BY Zenon, <1>3, <1>4, <1>6, <1>10
<1> QED BY Zenon, <1>0, <1>6, <1>7, <1>8, <1>9, <1>10, ServeKeeps DEF CollectDevice, addVars

\* start_listen begins to report a device.
LEMMA ListDeviceKeeps ==
  ASSUME EventsInv, NEW d \in Devices, ListDevice(d)
  PROVE  ThreadsInv'
<1>1. main.pc = "list" /\ main' = [main EXCEPT !.dev = d] /\ send_pkt(Main, main.client, {})
  BY Zenon DEF ListDevice
<1>0. /\ TypeOK /\ main \in MainThread /\ main.client \in Clients
      /\ main.pc \in Serving \ {"get_list"}
  BY Zenon, <1>1, Served DEF Serving
<1>2. /\ main' \in MainThread /\ main'.pc = "list" /\ main'.client = main.client
      /\ main'.todo = main.todo /\ main'.left = main.left
  BY Zenon, <1>0, <1>1 DEF MainThread
<1>3. /\ into' \in [Threads -> Clients \cup {Nobody}] /\ enlarging' \subseteq Threads
      /\ torn' \subseteq Clients /\ stale' \subseteq {"ob_buf", "enlarged", "serial", "client"}
      /\ UNCHANGED <<client, ob_buf, freed, told, sent>>
  <2>1. Main \in Threads /\ {} \in SUBSET {"serial"}
    BY Zenon DEF Threads
  <2> QED BY Zenon, <1>0, <1>1, <2>1, BeginFields
<1>4. TypeOK'
  BY Zenon, <1>0, <1>2, <1>3 DEF ListDevice, TypeOK, deviceVars, workerVars, mutexes
<1>5. "list" \in Serving
  BY Zenon DEF Serving
<1>6. \A c \in Clients : /\ client'[c] = "LISTEN" => client[c] = "LISTEN" /\ Tells(c)
                         /\ InList(c)' => InList(c)
  BY Zenon, <1>3 DEF Tells, InList
<1> QED BY Zenon, <1>0, <1>2, <1>4, <1>5, <1>6, ServeKeeps DEF ListDevice

\* No thread is between collecting the clients and telling them.
LEMMA ClientAcceptKeeps ==
  ASSUME EventsInv, NEW c \in Clients, client_accept(c)
  PROVE  ThreadsInv'
<1>0. TypeOK /\ Locking /\ Living /\ CbDataAlive /\ NoneMissed /\ AllToVisit /\ Retired
  BY Zenon DEF EventsInv, ThreadsInv
<1>1. client'[c] = "COMMAND" /\ \A x \in Clients \ {c} : client'[x] = client[x]
  BY Zenon, <1>0 DEF client_accept, TypeOK
<1>2. TypeOK'
  BY Zenon, <1>0 DEF client_accept, TypeOK, ClientStates, deviceVars, workerVars, addVars, mutexes
<1>3. Locking'
  BY Zenon, <1>0 DEF client_accept, Locking, workerVars, addVars, mutexes
<1>4. Living'
  BY Zenon, <1>0 DEF client_accept, Living, Listed, deviceVars, workerVars
<1>5. CbDataAlive'
  BY Zenon, <1>0 DEF client_accept, CbDataAlive, deviceVars, workerVars
<1>6. NoneMissed'
  <2>1. ASSUME NEW x \in Clients, NEW y \in Devices
        PROVE  StillToTell(x, y) => StillToTell(x, y)'
    BY Zenon DEF client_accept, StillToTell, Announced, addVars
  <2> QED BY Zenon, <1>0, <1>1, <2>1 DEF client_accept, NoneMissed, deviceVars
<1>7. AllToVisit'
  <2>1. \A t \in Threads : adding[t] # "visible"
    BY Zenon, <1>0, EventsAssumption DEF client_accept, Locking, Threads, Main, Nobody
  <2> QED BY Zenon, <2>1 DEF client_accept, AllToVisit, addVars
<1>8. Retired'
  BY Zenon DEF client_accept, Retired
<1> QED BY Zenon, <1>2, <1>3, <1>4, <1>5, <1>6, <1>7, <1>8 DEF ThreadsInv

\* A client is LISTEN before start_listen reads what is visible.
LEMMA StartListenKeeps ==
  ASSUME EventsInv, start_listen
  PROVE  ThreadsInv'
<1>1. main.pc = "process" /\ main' = [main EXCEPT !.pc = "get_list"]
  BY Zenon DEF start_listen
<1>0. TypeOK /\ main \in MainThread /\ main.client \in Clients /\ main.pc \in Serving /\ NoneMissed
  BY Zenon, <1>1, Served DEF Serving, EventsInv, ThreadsInv
<1>2. main' \in MainThread /\ main'.pc = "get_list" /\ main'.client = main.client
  BY Zenon, <1>0, <1>1 DEF MainThread
<1>3. /\ client' \in [Clients -> ClientStates] /\ client[main.client] = "COMMAND"
      /\ \A x \in Clients \ {main.client} : client'[x] = client[x]
  BY Zenon, <1>0 DEF start_listen, TypeOK, ClientStates
<1>4. /\ told' \in [Clients -> Seq(Event)] /\ ob_buf' \in [Clients -> Seq(Event)]
      /\ \A x \in Clients \ {main.client} : told'[x] = told[x]
  <2>1. {main.client} \in SUBSET Clients /\ Result \in Event /\ Put({main.client}, Result)
    BY Zenon, <1>0 DEF start_listen, Event
  <2>2. /\ told' \in [Clients -> Seq(Event)] /\ ob_buf' \in [Clients -> Seq(Event)]
        /\ \A x \in Clients :
             told'[x] = IF x \in {main.client} THEN Append(told[x], Result) ELSE told[x]
    BY Zenon, <1>0, <2>1, PutFields
  <2> QED BY Zenon, <2>2
<1>5. TypeOK'
  BY Zenon, <1>0, <1>2, <1>3, <1>4
  DEF start_listen, TypeOK, deviceVars, workerVars, addVars, mutexes
<1>6. Locking' /\ Living' /\ CbDataAlive' /\ AllToVisit' /\ Retired' /\ adding[Main] = "no"
  <2>1. \A c \in Clients : InList(c)' => InList(c)
    BY Zenon, <1>3 DEF InList
  <2>2. "get_list" \in Serving
    BY Zenon DEF Serving
  <2> QED BY Zenon, <1>0, <1>2, <2>1, <2>2, ServeLocks DEF start_listen, addVars
<1>7. NoneMissed'
  <2>1. ASSUME NEW x \in Clients, NEW y \in Devices, x = main.client
        PROVE  StillToTell(x, y)'
    BY Zenon, <1>2, <2>1 DEF StillToTell
  <2>2. ASSUME NEW x \in Clients, NEW y \in Devices, StillToTell(x, y)
        PROVE  StillToTell(x, y)'
    <3>1. PICK t \in Threads : Announced(t) = y /\ adding[t] = "notify" /\ x \in left[t]
      BY Zenon, <1>1, <2>2 DEF StillToTell
    <3>2. t # Main
      BY Zenon, <1>6, <3>1
    <3> QED BY Zenon, <3>1, <3>2 DEF start_listen, StillToTell, Announced, addVars
  <2>3. ASSUME NEW x \in Clients, NEW y \in Devices, client'[x] = "LISTEN",
               device'[y] = "ACTIVE", y \in visible', ~StillToTell(x, y)'
        PROVE  \E i \in DOMAIN told'[x] : told'[x][i] = Attached(y)
    <3>1. /\ x # main.client /\ client[x] = "LISTEN" /\ told'[x] = told[x]
          /\ device[y] = "ACTIVE" /\ y \in visible /\ ~StillToTell(x, y)
      <4>1. x # main.client
        BY Zenon, <2>1, <2>3
      <4>2. client[x] = "LISTEN" /\ told'[x] = told[x]
        BY Zenon, <1>3, <1>4, <2>3, <4>1
      <4>3. device[y] = "ACTIVE" /\ y \in visible
        BY Zenon, <2>3 DEF start_listen, deviceVars
      <4> QED BY Zenon, <2>2, <2>3, <4>1, <4>2, <4>3
    <3> QED BY Zenon, <1>0, <3>1 DEF NoneMissed
  <2> QED BY Zenon, <2>3 DEF NoneMissed
<1> QED BY Zenon, <1>5, <1>6, <1>7 DEF ThreadsInv

\* What is visible when the client is LISTEN is on its way to it.
LEMMA GetListKeeps ==
  ASSUME EventsInv, device_get_list
  PROVE  ThreadsInv'
<1>1. main.pc = "get_list"
  BY Zenon DEF device_get_list
<1>0. TypeOK /\ main \in MainThread /\ main.client \in Clients /\ main.pc \in Serving /\ NoneMissed
  BY Zenon, <1>1, Served DEF Serving, EventsInv, ThreadsInv
<1>2. /\ main' \in MainThread /\ main'.pc = "list" /\ main'.client = main.client
      /\ main'.todo = {d \in Devices : Listed(d)}
  <2>1. PICK l \in SUBSET Devices : l = {d \in Devices : Listed(d)}
    BY Zenon
  <2>2. main' = [main EXCEPT !.pc = "list", !.todo = l]
    BY Zenon, <2>1 DEF device_get_list
  <2> QED BY Zenon, <1>0, <2>1, <2>2 DEF MainThread
<1>3. TypeOK'
  BY Zenon, <1>0, <1>2
  DEF device_get_list, TypeOK, deviceVars, workerVars, addVars, clientVars, mutexes
<1>4. Locking' /\ Living' /\ CbDataAlive' /\ AllToVisit' /\ Retired' /\ adding[Main] = "no"
  <2>1. \A c \in Clients : InList(c)' => InList(c)
    BY Zenon DEF device_get_list, clientVars, InList
  <2>2. "list" \in Serving
    BY Zenon DEF Serving
  <2> QED BY Zenon, <1>0, <1>2, <2>1, <2>2, ServeLocks DEF device_get_list, addVars
<1>5. NoneMissed'
  <2>1. ASSUME NEW x \in Clients, NEW y \in Devices, x = main.client, device[y] = "ACTIVE"
        PROVE  StillToTell(x, y)'
    <3>1. y \in main'.todo
      BY Zenon, <1>2, <2>1 DEF Listed
    <3> QED BY Zenon, <1>2, <2>1, <3>1 DEF StillToTell
  <2>2. ASSUME NEW x \in Clients, NEW y \in Devices, x # main.client, StillToTell(x, y)
        PROVE  StillToTell(x, y)'
    <3>1. PICK t \in Threads : Announced(t) = y /\ adding[t] = "notify" /\ x \in left[t]
      BY Zenon, <1>1, <2>2 DEF StillToTell
    <3>2. t # Main
      BY Zenon, <1>4, <3>1
    <3> QED BY Zenon, <3>1, <3>2 DEF device_get_list, StillToTell, Announced, addVars
  <2>3. ASSUME NEW x \in Clients, NEW y \in Devices, client'[x] = "LISTEN",
               device'[y] = "ACTIVE", y \in visible', ~StillToTell(x, y)'
        PROVE  \E i \in DOMAIN told'[x] : told'[x][i] = Attached(y)
    <3>1. /\ x # main.client /\ client[x] = "LISTEN" /\ told'[x] = told[x]
          /\ device[y] = "ACTIVE" /\ y \in visible /\ ~StillToTell(x, y)
      <4>1. device[y] = "ACTIVE" /\ y \in visible /\ client[x] = "LISTEN" /\ told'[x] = told[x]
        BY Zenon, <2>3 DEF device_get_list, deviceVars, clientVars
      <4>2. x # main.client
        BY Zenon, <2>1, <2>3, <4>1
      <4> QED BY Zenon, <2>2, <2>3, <4>1, <4>2
    <3> QED BY Zenon, <1>0, <3>1 DEF NoneMissed
  <2> QED BY Zenon, <2>3 DEF NoneMissed
<1> QED BY Zenon, <1>3, <1>4, <1>5 DEF ThreadsInv

\* A device that start_listen has reported is no longer to be told.
LEMMA DeviceReportedKeeps ==
  ASSUME EventsInv, DeviceReported
  PROVE  ThreadsInv'
<1>1. main.pc = "list" /\ into[Main] # Nobody /\ PktDone(Main, Attached(main.dev))
  BY Zenon DEF DeviceReported, PktDone
<1>0. /\ TypeOK /\ main \in MainThread /\ main.client \in Clients /\ main.pc \in Serving
      /\ NoneMissed /\ main.left \in SUBSET Devices
  BY Zenon, <1>1, Served DEF Serving, EventsInv, ThreadsInv, MainThread
<1>2. into[Main] = main.client /\ main.dev \in main.left /\ main.dev \in Devices
  <2>1. Main \in Threads /\ adding[Main] = "no"
    BY Zenon, <1>1 DEF Threads, EventsInv, ThreadsInv, Locking
  <2> QED BY Zenon, <1>0, <1>1, <2>1 DEF EventsInv, InPacket
<1>3. /\ main' \in MainThread /\ main'.pc = "list" /\ main'.client = main.client
      /\ main'.todo = main.todo /\ main'.left = main.left \ {main.dev}
  <2>1. PICK l \in SUBSET Devices : l = main.left \ {main.dev}
    BY Zenon, <1>0
  <2>2. main' = [main EXCEPT !.left = l]
    BY Zenon, <2>1 DEF DeviceReported
  <2> QED BY Zenon, <1>0, <1>1, <2>1, <2>2 DEF MainThread
<1>4. /\ {main.client} \in SUBSET Clients /\ Attached(main.dev) \in Event
      /\ Put({main.client}, Attached(main.dev))
  BY Zenon, <1>0, <1>1, <1>2, EventFacts DEF PktDone
<1>5. /\ told' \in [Clients -> Seq(Event)] /\ ob_buf' \in [Clients -> Seq(Event)]
      /\ told'[main.client] = Append(told[main.client], Attached(main.dev))
  <2>1. PICK cs \in SUBSET Clients : cs = {main.client}
    BY Zenon, <1>4
  <2>2. PICK e \in Event : e = Attached(main.dev)
    BY Zenon, <1>4
  <2>3. Put(cs, e)
    BY Zenon, <1>4, <2>1, <2>2
  <2>4. /\ told' \in [Clients -> Seq(Event)] /\ ob_buf' \in [Clients -> Seq(Event)]
        /\ \A x \in Clients : told'[x] = IF x \in cs THEN Append(told[x], e) ELSE told[x]
    BY Zenon, <1>0, <2>3, PutFields
  <2>5. main.client \in cs
    BY Zenon, <2>1
  <2> QED BY Zenon, <1>0, <2>2, <2>4, <2>5
<1>6. into' \in [Threads -> Clients \cup {Nobody}] /\ enlarging' = enlarging
  BY Zenon, <1>0, <1>1 DEF PktDone, TypeOK
<1>7. TypeOK'
  BY Zenon, <1>0, <1>3, <1>5, <1>6 DEF DeviceReported, TypeOK, deviceVars, workerVars, mutexes
<1>8. Locking' /\ Living' /\ CbDataAlive' /\ AllToVisit' /\ Retired' /\ adding[Main] = "no"
  <2>1. \A c \in Clients : InList(c)' => InList(c)
    BY Zenon DEF DeviceReported, InList
  <2>2. "list" \in Serving
    BY Zenon DEF Serving
  <2> QED BY Zenon, <1>0, <1>3, <2>1, <2>2, ServeLocks DEF DeviceReported
<1>9. NoneMissed'
  <2>1. ASSUME NEW x \in Clients, NEW y \in Devices, StillToTell(x, y),
               x # main.client \/ y # main.dev
        PROVE  StillToTell(x, y)'
    <3>1. CASE main.client = x /\ y \in main.todo \cup main.left
      <4>1. y \in main'.todo \cup main'.left
        BY Zenon, <1>3, <2>1, <3>1
      <4> QED BY Zenon, <1>3, <3>1, <4>1 DEF StillToTell
    <3>2. CASE \E t \in Threads : Announced(t) = y /\ adding[t] = "notify" /\ x \in left[t]
      <4>1. PICK t \in Threads : Announced(t) = y /\ adding[t] = "notify" /\ x \in left[t]
        BY Zenon, <3>2
      <4>2. t # Main
        BY Zenon, <1>8, <4>1
      <4> QED BY Zenon, <4>1, <4>2 DEF DeviceReported, StillToTell, Announced
    <3>3. main.pc # "get_list"
      BY Zenon, <1>1
    <3> QED BY Zenon, <2>1, <3>1, <3>2, <3>3 DEF StillToTell
  <2>2. \A x \in Clients, y \in Devices :
          (\E i \in DOMAIN told[x] : told[x][i] = Attached(y))
          => \E i \in DOMAIN told'[x] : told'[x][i] = Attached(y)
    BY Zenon, <1>0, <1>4, PutTells
  <2>3. \E i \in DOMAIN told'[main.client] : told'[main.client][i] = Attached(main.dev)
    <3>1. PICK s \in Seq(Event) : s = told[main.client]
      BY Zenon, <1>0 DEF TypeOK
    <3>2. PICK e \in Event : e = Attached(main.dev)
      BY Zenon, <1>4
    <3>3. Len(s) + 1 \in DOMAIN Append(s, e) /\ Append(s, e)[Len(s) + 1] = e
      BY Zenon, AppendTells
    <3> QED BY Zenon, <1>5, <3>1, <3>2, <3>3
  <2>4. ASSUME NEW x \in Clients, NEW y \in Devices, client'[x] = "LISTEN",
               device'[y] = "ACTIVE", y \in visible', ~StillToTell(x, y)'
        PROVE  \E i \in DOMAIN told'[x] : told'[x][i] = Attached(y)
    <3>1. client[x] = "LISTEN" /\ device[y] = "ACTIVE" /\ y \in visible
      BY Zenon, <2>4 DEF DeviceReported, deviceVars
    <3>2. CASE x = main.client /\ y = main.dev
      BY Zenon, <2>3, <3>2
    <3>3. CASE x # main.client \/ y # main.dev
      <4>1. ~StillToTell(x, y)
        BY Zenon, <2>1, <2>4, <3>3
      <4> QED BY Zenon, <1>0, <2>2, <3>1, <4>1 DEF NoneMissed
    <3> QED BY Zenon, <3>2, <3>3
  <2> QED BY Zenon, <2>4 DEF NoneMissed
<1> QED BY Zenon, <1>7, <1>8, <1>9 DEF ThreadsInv

\* Detached is the last word on the device when all are told.
LEMMA RemoveNotifyKeeps ==
  ASSUME EventsInv, client_device_remove
  PROVE  ThreadsInv'
<1>0. TypeOK /\ Locking /\ Living /\ CbDataAlive /\ NoneMissed /\ AllToVisit /\ Retired
  BY Zenon DEF EventsInv, ThreadsInv
<1>1. /\ main.pc = "remove_notify" /\ main.dev \in Devices /\ adding[Main] = "no"
      /\ device[main.dev] = "DEAD"
  BY Zenon, <1>0 DEF client_device_remove, Locking, Living, Removing
<1>2. main' \in MainThread /\ main'.pc = "remove_free" /\ main'.dev = main.dev
  BY Zenon, <1>0 DEF client_device_remove, TypeOK, MainThread
<1> DEFINE cs == {c \in Clients : client[c] = "LISTEN"}
<1>3. cs \in SUBSET Clients /\ Detached(main.dev) \in Event /\ Put(cs, Detached(main.dev))
  BY Zenon, <1>1, EventFacts DEF client_device_remove
<1>4. /\ told' \in [Clients -> Seq(Event)] /\ ob_buf' \in [Clients -> Seq(Event)]
      /\ \A x \in Clients :
           told'[x] = IF x \in cs THEN Append(told[x], Detached(main.dev)) ELSE told[x]
  <2> HIDE DEF cs
  <2> QED BY Zenon, <1>0, <1>3, PutFields
<1>5. TypeOK'
  BY Zenon, <1>0, <1>2, <1>4
  DEF client_device_remove, TypeOK, deviceVars, workerVars, addVars, mutexes
<1>6. Locking'
  BY Zenon, <1>0, <1>1, <1>2
  DEF client_device_remove, Locking, Removing, Serving, Closing, workerVars, addVars, mutexes
<1>7. Living'
  BY Zenon, <1>0, <1>1, <1>2
  DEF client_device_remove, Living, Removing, Listed, deviceVars, workerVars
<1>8. CbDataAlive'
  BY Zenon, <1>0 DEF client_device_remove, CbDataAlive, deviceVars, workerVars
<1>9. NoneMissed'
  <2>1. ASSUME NEW x \in Clients, NEW y \in Devices, StillToTell(x, y)
        PROVE  StillToTell(x, y)'
    <3>1. PICK t \in Threads : Announced(t) = y /\ adding[t] = "notify" /\ x \in left[t]
      BY Zenon, <1>1, <2>1 DEF StillToTell
    <3>2. t # Main
      BY Zenon, <1>1, <3>1
    <3> QED BY Zenon, <3>1, <3>2 DEF client_device_remove, StillToTell, Announced, addVars
  <2>2. \A x \in Clients, y \in Devices :
          (\E i \in DOMAIN told[x] : told[x][i] = Attached(y))
          => \E i \in DOMAIN told'[x] : told'[x][i] = Attached(y)
    <3> HIDE DEF cs
    <3> QED BY Zenon, <1>0, <1>3, PutTells
  <2> QED BY Zenon, <1>0, <1>4, <2>1, <2>2 DEF client_device_remove, NoneMissed, deviceVars
<1>10. AllToVisit'
  BY Zenon, <1>0, <1>4 DEF client_device_remove, AllToVisit, InList, addVars
<1>11. Retired'
  <2>1. \A t \in Threads : adding'[t] # "notify"
    BY Zenon, <1>0, EventsAssumption
    DEF client_device_remove, Locking, Threads, Main, Nobody, addVars
  <2>2. ASSUME NEW x \in Clients, client'[x] = "LISTEN"
        PROVE  LastIsDetached(x, main.dev)'
    <3>1. told[x] \in Seq(Event) /\ Detached(main.dev) # Attached(main.dev)
      BY Zenon, <1>0, <1>1, EventFacts DEF TypeOK
    <3>2. told'[x] = Append(told[x], Detached(main.dev))
      BY Zenon, <1>4, <2>2 DEF client_device_remove
    <3>3. main'.dev = main.dev
      BY Zenon, <1>2
    <3> QED BY SMTT(40), <1>1, <1>3, <3>1, <3>2, <3>3, LastWord DEF LastIsDetached
  <2>3. \A x \in Clients : client'[x] = "LISTEN" => LastIsDetached(x, main.dev)'
    BY Zenon, <2>2
  <2> QED BY Zenon, <2>1, <2>3 DEF Retired
<1> QED BY Zenon, <1>5, <1>6, <1>7, <1>8, <1>9, <1>10, <1>11 DEF ThreadsInv

-----------------------------------------------------------------------------
(* Threads in send_pkt.                                                    *)

\* What EventsInv says of a thread in send_pkt: a worker, or the main thread in
\* client_device_add, holds client_list_mutex.
LEMMA PacketFacts ==
  ASSUME EventsInv
  PROVE  /\ TypeOK /\ InPacket /\ Locking /\ Main \in Threads
         /\ \A t \in Threads : into[t] = Nobody \/ into[t] \in Clients
         /\ \A t \in Threads : into[t] # Nobody /\ t # Main => adding[t] = "notify"
         /\ \A t, u \in Threads : adding[t] = "notify" /\ adding[u] = "notify" => t = u
         /\ main.pc # "add" => adding[Main] = "no"
         /\ main.pc \notin {"list", "reply"} => into[Main] = Nobody \/ adding[Main] = "notify"
<1>1. TypeOK /\ InPacket /\ Locking /\ Main \in Threads
  BY Zenon DEF EventsInv, ThreadsInv, Threads
<1>2. \A t \in Threads : into[t] = Nobody \/ into[t] \in Clients
  BY Zenon, <1>1 DEF TypeOK
<1>3. \A t \in Threads : into[t] # Nobody /\ t # Main => adding[t] = "notify"
  BY Zenon, <1>1 DEF InPacket
<1>4. \A t, u \in Threads : adding[t] = "notify" /\ adding[u] = "notify" => t = u
  BY Zenon, <1>1 DEF Locking
<1>5. main.pc # "add" => adding[Main] = "no"
  BY Zenon, <1>1 DEF Locking
<1>6. main.pc \notin {"list", "reply"} => into[Main] = Nobody \/ adding[Main] = "notify"
  BY Zenon, <1>1 DEF InPacket
<1> QED BY Zenon, <1>1, <1>2, <1>3, <1>4, <1>5, <1>6

\* A step of threads that are not in send_pkt.
LEMMA QuietPacket ==
  ASSUME EventsInv, into' = into, enlarging' = enlarging,
         \A c \in Clients : client[c] = "LISTEN" => client'[c] = "LISTEN",
         \A c \in Clients : InList(c) => InList(c)',
         \A t \in Threads : into[t] # Nobody /\ adding[t] = "notify"
           => adding'[t] = "notify" /\ (into[t] \in left[t] => into[t] \in left'[t]),
         \/ main' = main
         \/ /\ into[Main] = Nobody \/ adding[Main] = "notify"
            /\ main'.pc # "reply"
            /\ main'.pc \in {"get_list", "list"} => client'[main'.client] = "LISTEN"
            /\ main'.pc \in Serving => InList(main.client)'
  PROVE  InPacket'
<1>0. /\ InPacket /\ Main \in Threads
      /\ \A t \in Threads : into[t] = Nobody \/ into[t] \in Clients
      /\ main.pc \in Serving => main.client \in Clients
  BY Zenon, PacketFacts DEF Locking
<1>1. enlarging' \subseteq {t \in Threads : into'[t] # Nobody}
  BY Zenon, <1>0 DEF InPacket
<1>2. ASSUME NEW t \in Threads, into'[t] # Nobody, adding[t] = "notify", into[t] \in left[t],
             client[into[t]] = "LISTEN"
      PROVE  adding'[t] = "notify" /\ into'[t] \in left'[t] /\ client'[into'[t]] = "LISTEN"
  BY Zenon, <1>0, <1>2
<1>3. CASE main' = main
  <2>1. /\ main'.pc \in Serving => InList(main.client)'
        /\ main'.pc \in {"get_list", "list", "reply"} => client'[main'.client] = "LISTEN"
    BY Zenon, <1>0, <1>3 DEF InPacket, Serving
  <2>2. ASSUME NEW t \in Threads, into'[t] # Nobody
        PROVE  \/ adding'[t] = "notify" /\ into'[t] \in left'[t] /\ client'[into'[t]] = "LISTEN"
               \/ /\ t = Main /\ into'[t] = main'.client
                  /\ \/ main'.pc = "list" /\ main'.todo = {} /\ main'.dev \in main'.left
                     \/ main'.pc = "reply"
    BY Zenon, <1>0, <1>2, <1>3, <2>2 DEF InPacket
  <2> QED BY Zenon, <1>0, <1>1, <1>3, <2>1, <2>2 DEF InPacket
<1>4. CASE /\ into[Main] = Nobody \/ adding[Main] = "notify"
           /\ main'.pc # "reply"
           /\ main'.pc \in {"get_list", "list"} => client'[main'.client] = "LISTEN"
           /\ main'.pc \in Serving => InList(main.client)'
  <2>1. ASSUME NEW t \in Threads, into[t] # Nobody
        PROVE  adding[t] = "notify" /\ into[t] \in left[t] /\ client[into[t]] = "LISTEN"
    <3>1. adding[t] = "notify"
      BY Zenon, <1>4, <2>1, PacketFacts
    <3>2. ~(main.pc = "list" \/ main.pc = "reply") \/ t # Main
      BY Zenon, <3>1, PacketFacts
    <3> QED BY Zenon, <1>0, <2>1, <3>1, <3>2 DEF InPacket
  <2>2. \A t \in Threads : into'[t] # Nobody
          => adding'[t] = "notify" /\ into'[t] \in left'[t] /\ client'[into'[t]] = "LISTEN"
    BY Zenon, <1>2, <2>1
  <2>3. main'.pc \in {"get_list", "list", "reply"} => client'[main'.client] = "LISTEN"
    BY Zenon, <1>4
  <2> QED BY Zenon, <1>1, <1>4, <2>2, <2>3 DEF InPacket
<1> QED BY Zenon, <1>3, <1>4

\* A thread enters send_pkt.
LEMMA BeginPacket ==
  ASSUME EventsInv, NEW t \in Threads, NEW c \in Clients, into[t] = Nobody,
         into' = [into EXCEPT ![t] = c], enlarging' \subseteq enlarging \cup {t},
         UNCHANGED <<adding, left, client>>, client[c] = "LISTEN",
         \/ main' = main /\ adding[t] = "notify" /\ c \in left[t]
         \/ /\ t = Main /\ main'.client = c
            /\ \/ main'.pc = "list" /\ main'.todo = {} /\ main'.dev \in main'.left
               \/ main'.pc = "reply"
  PROVE  InPacket'
<1>0. /\ InPacket /\ Main \in Threads /\ Nobody \notin Clients
      /\ into'[t] = c /\ \A u \in Threads : u # t => into'[u] = into[u]
  BY Zenon, PacketFacts, EventsAssumption DEF TypeOK
<1>1. enlarging' \subseteq {u \in Threads : into'[u] # Nobody}
  <2>1. c # Nobody
    BY Zenon, <1>0
  <2>2. ASSUME NEW u \in enlarging' PROVE u \in Threads /\ into'[u] # Nobody
    <3>1. CASE u = t
      BY Zenon, <1>0, <2>1, <3>1
    <3>2. CASE u # t
      <4>1. u \in enlarging
        BY Zenon, <3>2
      <4>2. u \in Threads /\ into[u] # Nobody
        BY Zenon, <1>0, <4>1 DEF InPacket
      <4> QED BY Zenon, <1>0, <3>2, <4>2
    <3> QED BY Zenon, <3>1, <3>2
  <2> QED BY Zenon, <2>2
<1>2. CASE main' = main /\ adding[t] = "notify" /\ c \in left[t]
  <2>1. main.pc = "reply" => t # Main
    BY Zenon, <1>2, PacketFacts
  <2>2. ASSUME NEW u \in Threads, into'[u] # Nobody
        PROVE  \/ adding'[u] = "notify" /\ into'[u] \in left'[u] /\ client'[into'[u]] = "LISTEN"
               \/ /\ u = Main /\ into'[u] = main'.client
                  /\ \/ main'.pc = "list" /\ main'.todo = {} /\ main'.dev \in main'.left
                     \/ main'.pc = "reply"
    <3>1. CASE u = t
      BY Zenon, <1>0, <1>2, <3>1
    <3>2. CASE u # t
      BY Zenon, <1>0, <1>2, <2>2, <3>2 DEF InPacket
    <3> QED BY Zenon, <3>1, <3>2
  <2>3. /\ main'.pc \in Serving => InList(main.client)'
        /\ main'.pc \in {"get_list", "list", "reply"} => client'[main'.client] = "LISTEN"
        /\ main'.pc = "reply" => into'[Main] = main'.client
    BY Zenon, <1>0, <1>2, <2>1 DEF InPacket, InList
  <2> QED BY Zenon, <1>1, <2>2, <2>3 DEF InPacket
<1>3. CASE /\ t = Main /\ main'.client = c
           /\ \/ main'.pc = "list" /\ main'.todo = {} /\ main'.dev \in main'.left
              \/ main'.pc = "reply"
  <2>1. ASSUME NEW u \in Threads, into'[u] # Nobody
        PROVE  \/ adding'[u] = "notify" /\ into'[u] \in left'[u] /\ client'[into'[u]] = "LISTEN"
               \/ /\ u = Main /\ into'[u] = main'.client
                  /\ \/ main'.pc = "list" /\ main'.todo = {} /\ main'.dev \in main'.left
                     \/ main'.pc = "reply"
    <3>1. CASE u = t
      BY Zenon, <1>0, <1>3, <3>1
    <3>2. CASE u # t
      BY Zenon, <1>0, <1>3, <2>1, <3>2 DEF InPacket
    <3> QED BY Zenon, <3>1, <3>2
  <2>2. /\ main'.pc \in Serving => InList(main.client)'
        /\ main'.pc \in {"get_list", "list", "reply"} => client'[main'.client] = "LISTEN"
        /\ main'.pc = "reply" => into'[Main] = main'.client
    BY Zenon, <1>0, <1>3 DEF InList
  <2> QED BY Zenon, <1>1, <2>1, <2>2 DEF InPacket
<1> QED BY Zenon, <1>2, <1>3

\* A thread leaves send_pkt.
LEMMA EndPacket ==
  ASSUME EventsInv, NEW t \in Threads, t \notin enlarging, enlarging' = enlarging,
         into' = [into EXCEPT ![t] = Nobody], UNCHANGED <<adding, client>>,
         \A u \in Threads : u # t => left'[u] = left[u],
         \/ main' = main /\ adding[t] = "notify"
         \/ /\ t = Main /\ main.pc \in {"list", "reply"} /\ main'.client = main.client
            /\ main'.pc \in Serving /\ main'.pc \notin {"get_list", "reply"}
  PROVE  InPacket'
<1>0. /\ InPacket /\ Main \in Threads /\ into'[t] = Nobody
      /\ \A u \in Threads : u # t => into'[u] = into[u]
  <2>1. InPacket /\ Main \in Threads /\ into \in [Threads -> Clients \cup {Nobody}]
    BY Zenon, PacketFacts DEF TypeOK
  <2> QED BY Zenon, <2>1
<1>1. enlarging' \subseteq {u \in Threads : into'[u] # Nobody}
  BY Zenon, <1>0 DEF InPacket
<1>2. /\ main'.pc \in Serving => InList(main.client)'
      /\ main'.pc \in {"get_list", "list", "reply"} => client'[main'.client] = "LISTEN"
      /\ main'.pc = "reply" => into'[Main] = main'.client
  <2>1. CASE main' = main /\ adding[t] = "notify"
    <3>1. main.pc = "reply" => t # Main
      BY Zenon, <2>1, PacketFacts
    <3> QED BY Zenon, <1>0, <2>1, <3>1 DEF InPacket, InList
  <2>2. CASE /\ t = Main /\ main.pc \in {"list", "reply"} /\ main'.client = main.client
             /\ main'.pc \in Serving /\ main'.pc \notin {"get_list", "reply"}
    <3>1. client[main.client] = "LISTEN"
      BY Zenon, <1>0, <2>2 DEF InPacket
    <3> QED BY Zenon, <2>2, <3>1 DEF InList
  <2> QED BY Zenon, <2>1, <2>2
<1>3. ASSUME NEW u \in Threads, into'[u] # Nobody
      PROVE  \/ adding'[u] = "notify" /\ into'[u] \in left'[u] /\ client'[into'[u]] = "LISTEN"
             \/ /\ u = Main /\ into'[u] = main'.client
                /\ \/ main'.pc = "list" /\ main'.todo = {} /\ main'.dev \in main'.left
                   \/ main'.pc = "reply"
  <2>1. u # t /\ into[u] # Nobody /\ left'[u] = left[u]
    BY Zenon, <1>0, <1>3
  <2>2. CASE u = Main
    <3>1. main' = main
      BY Zenon, <2>1, <2>2
    <3>2. \/ adding[u] = "notify" /\ into[u] \in left[u] /\ client[into[u]] = "LISTEN"
          \/ /\ into[u] = main.client
             /\ \/ main.pc = "list" /\ main.todo = {} /\ main.dev \in main.left
                \/ main.pc = "reply"
      BY Zenon, <1>0, <2>1 DEF InPacket
    <3>3. into'[u] = into[u]
      BY Zenon, <1>0, <2>1
    <3> QED BY Zenon, <2>1, <2>2, <3>1, <3>2, <3>3
  <2>3. CASE u # Main
    <3>1. adding[u] = "notify" /\ into[u] \in left[u] /\ client[into[u]] = "LISTEN"
      BY Zenon, <1>0, <2>1, <2>3 DEF InPacket
    <3> QED BY Zenon, <1>0, <2>1, <3>1
  <2> QED BY Zenon, <2>2, <2>3
<1> QED BY Zenon, <1>1, <1>2, <1>3 DEF InPacket

\* client_device_add.
LEMMA AddPacket ==
  ASSUME EventsInv, NEW t \in Threads, client_device_add(t)
  PROVE  InPacket'
<1>0. TypeOK /\ InPacket
  BY Zenon, PacketFacts
<1>1. CASE LockClients(t) \/ device_set_visible(t) \/ UnlockClients(t)
  <2>1. into' = into /\ enlarging' = enlarging /\ client' = client /\ main' = main
    BY Zenon, <1>1 DEF LockClients, device_set_visible, UnlockClients, clientVars
  <2>2. /\ \A u \in Threads : u # t => adding'[u] = adding[u] /\ left'[u] = left[u]
        /\ adding[t] # "notify" \/ left[t] = {}
    BY Zenon, <1>0, <1>1 DEF LockClients, device_set_visible, UnlockClients, TypeOK
  <2>3. into[t] # Nobody /\ adding[t] = "notify" => into[t] \in left[t]
    BY Zenon, <1>0, PacketFacts DEF InPacket
  <2> QED BY Zenon, <2>1, <2>2, <2>3, QuietPacket DEF InList
<1>2. ASSUME NEW c \in Clients, SkipClient(t, c) PROVE InPacket'
  <2>1. /\ into' = into /\ enlarging' = enlarging /\ client' = client /\ main' = main
        /\ adding' = adding
        /\ \A u \in Threads : left'[u] = IF u = t THEN left[u] \ {c} ELSE left[u]
    BY Zenon, <1>0, <1>2 DEF SkipClient, clientVars, TypeOK
  <2>2. adding[t] = "notify" /\ client[c] # "LISTEN"
    BY Zenon, <1>2 DEF SkipClient
  <2>3. into[t] # Nobody => into[t] # c
    BY Zenon, <1>0, <2>2, PacketFacts DEF InPacket
  <2> QED BY Zenon, <2>1, <2>3, QuietPacket DEF InList
<1>3. ASSUME NEW c \in Clients, notify_device_add(t, c) PROVE InPacket'
  <2>1. send_pkt(t, c, {x \in {"serial"} : device[Announced(t)] = "REAPED"})
    BY Zenon, <1>3 DEF notify_device_add
  <2>2. into' = [into EXCEPT ![t] = c] /\ enlarging' \subseteq enlarging \cup {t} /\ client' = client
    BY Zenon, <2>1 DEF send_pkt
  <2> QED BY Zenon, <1>3, <2>2, BeginPacket DEF notify_device_add
<1>4. CASE Enlarged(t)
  <2>1. /\ enlarging' \subseteq enlarging /\ into' = into /\ client' = client /\ main' = main
        /\ adding' = adding /\ left' = left
    BY Zenon, <1>4 DEF Enlarged, clientVars
  <2> QED BY Zenon, <1>0, <2>1 DEF InPacket, InList
<1>5. CASE Notified(t)
  <2>1. /\ t \notin enlarging /\ enlarging' = enlarging /\ into' = [into EXCEPT ![t] = Nobody]
        /\ adding' = adding /\ client' = client /\ main' = main /\ adding[t] = "notify"
    BY Zenon, <1>5 DEF Notified, PktDone
  <2>2. \A u \in Threads : u # t => left'[u] = left[u]
    BY Zenon, <1>0, <1>5 DEF Notified, TypeOK
  <2> QED BY Zenon, <2>1, <2>2, EndPacket
<1> QED BY Zenon, <1>1, <1>2, <1>3, <1>4, <1>5 DEF client_device_add

\* A worker that is not in client_device_add is not in send_pkt.
LEMMA WorkerPacket ==
  ASSUME EventsInv, NEW d \in Devices, Preflight(d) \/ np_callback(d)
  PROVE  InPacket'
<1>0. TypeOK /\ Locking
  BY Zenon, PacketFacts
<1>1. /\ into' = into /\ enlarging' = enlarging /\ left' = left /\ client' = client /\ main' = main
      /\ \/ adding' = adding
         \/ /\ adding' = [adding EXCEPT ![d] = "lock"]
            /\ worker[d] = "preflight" \/ worker[d] = "arming"
  BY Zenon DEF Preflight, np_callback, PreflightFails, PreflightSucceeds, AskForTrust,
     ArmRemoval, ReturnFromAdd, StopWaiting, DisarmRemoval, addVars, clientVars
<1>2. \A u \in Threads : adding[u] = "notify" => adding'[u] = "notify"
  <2>1. CASE adding' = adding
    BY Zenon, <2>1
  <2>2. CASE /\ adding' = [adding EXCEPT ![d] = "lock"]
             /\ worker[d] = "preflight" \/ worker[d] = "arming"
    <3>1. adding[d] = "no"
      BY Zenon, <1>0, <2>2 DEF Locking
    <3> QED BY Zenon, <1>0, <2>2, <3>1 DEF TypeOK
  <2> QED BY Zenon, <1>1, <2>1, <2>2
<1> QED BY Zenon, <1>1, <1>2, QuietPacket DEF InList

\* The main thread begins an operation.
LEMMA PollPacket ==
  ASSUME EventsInv, main.pc = "poll",
         \/ \E d \in Devices :
              \/ device_add(d) \/ device_version_input_unknown(d) \/ device_version_input(d)
              \/ device_version_input_direct(d) \/ device_remove(d) \/ reap_dead_devices(d)
         \/ \E c \in Clients : client_accept(c) \/ client_process(c)
  PROVE  InPacket'
<1>0. TypeOK /\ main \in MainThread /\ into[Main] = Nobody /\ adding[Main] = "no"
  BY Zenon, PacketFacts DEF TypeOK
<1>1. ASSUME NEW d \in Devices,
             \/ device_add(d) \/ device_version_input_unknown(d) \/ device_version_input(d)
             \/ device_version_input_direct(d) \/ device_remove(d) \/ reap_dead_devices(d)
      PROVE  InPacket'
  <2>1. into' = into /\ enlarging' = enlarging /\ left' = left /\ client' = client
    BY Zenon, <1>1 DEF device_add, device_version_input_unknown, device_version_input,
       device_version_input_direct, device_remove, reap_dead_devices, addVars, clientVars
  <2>2. adding' = adding \/ adding' = [adding EXCEPT ![Main] = "lock"]
    BY Zenon, <1>1 DEF device_add, device_version_input_unknown, device_version_input,
       device_version_input_direct, device_remove, reap_dead_devices, addVars
  <2>3. \A u \in Threads : adding[u] = "notify" => adding'[u] = "notify"
    BY Zenon, <1>0, <2>2 DEF TypeOK
  <2>4. main' = main \/ main'.pc = "add" \/ main'.pc = "remove_notify" \/ main'.pc = "remove_free"
    BY Zenon, <1>0, <1>1 DEF device_add, device_version_input_unknown, device_version_input,
       device_version_input_direct, device_remove, reap_dead_devices, MainThread
  <2> QED BY Zenon, <1>0, <2>1, <2>3, <2>4, QuietPacket DEF InList, Serving, Closing
<1>2. ASSUME NEW c \in Clients, client_accept(c) PROVE InPacket'
  <2>1. /\ into' = into /\ enlarging' = enlarging /\ left' = left /\ adding' = adding /\ main' = main
        /\ client[c] = "NEW" /\ client' = [client EXCEPT ![c] = "COMMAND"]
    BY Zenon, <1>2 DEF client_accept, addVars
  <2>2. \A x \in Clients : x # c => client'[x] = client[x]
    BY Zenon, <1>0, <2>1 DEF TypeOK
  <2> QED BY Zenon, <2>1, <2>2, QuietPacket DEF InList
<1>3. ASSUME NEW c \in Clients, client_process(c) PROVE InPacket'
  <2>1. /\ into' = into /\ enlarging' = enlarging /\ left' = left /\ adding' = adding
        /\ client' = client /\ main'.pc = "process" /\ main'.client = c /\ InList(c)
    BY Zenon, <1>0, <1>3 DEF client_process, addVars, clientVars, MainThread
  <2>2. main'.pc \notin {"reply", "get_list", "list"}
    BY Zenon, <2>1
  <2> QED BY Zenon, <1>0, <2>1, <2>2, QuietPacket DEF InList
<1> QED BY Zenon, <1>1, <1>2, <1>3

\* The main thread in the middle of an operation, not in send_pkt.
LEMMA MainPacket ==
  ASSUME EventsInv,
         \/ MainReturnsFromAdd \/ client_device_remove \/ RemoveFree \/ start_listen
         \/ device_get_list \/ (\E d \in Devices : CollectDevice(d)) \/ ListDone
         \/ process_send \/ NothingToSend \/ SendOutput \/ client_close
  PROVE  InPacket'
<1>0. TypeOK /\ main \in MainThread /\ InPacket /\ Locking
  BY Zenon, PacketFacts DEF TypeOK
<1>1. into' = into /\ enlarging' = enlarging /\ left' = left /\ adding' = adding
  BY Zenon DEF MainReturnsFromAdd, client_device_remove, RemoveFree, start_listen,
     device_get_list, CollectDevice, ListDone, process_send, NothingToSend, SendOutput,
     client_close, addVars
<1>2. CASE start_listen
  <2>1. /\ main.pc = "process" /\ main.client \in Clients
        /\ client' = [client EXCEPT ![main.client] = "LISTEN"]
        /\ main' = [main EXCEPT !.pc = "get_list"]
    BY Zenon, <1>0, <1>2 DEF start_listen, Locking, Serving
  <2>2. /\ client'[main.client] = "LISTEN" /\ main'.pc = "get_list" /\ main'.client = main.client
        /\ \A x \in Clients : x # main.client => client'[x] = client[x]
    BY Zenon, <1>0, <2>1 DEF TypeOK, MainThread
  <2>3. into[Main] = Nobody \/ adding[Main] = "notify"
    BY Zenon, <2>1, PacketFacts
  <2> QED BY Zenon, <1>1, <2>1, <2>2, <2>3, QuietPacket DEF InList
<1>3. CASE client' = client
  <2>1. into[Main] = Nobody \/ adding[Main] = "notify"
    <3>1. CASE main.pc = "list"
      <4>1. main.todo # {} \/ main.left = {}
        BY Zenon, <3>1 DEF MainReturnsFromAdd, client_device_remove, RemoveFree, start_listen,
           device_get_list, CollectDevice, ListDone, process_send, NothingToSend, SendOutput,
           client_close
      <4> QED BY Zenon, <1>0, <3>1, <4>1, PacketFacts DEF InPacket
    <3>2. main.pc # "reply"
      BY Zenon DEF MainReturnsFromAdd, client_device_remove, RemoveFree, start_listen,
         device_get_list, CollectDevice, ListDone, process_send, NothingToSend, SendOutput,
         client_close
    <3> QED BY Zenon, <3>1, <3>2, PacketFacts
  <2>2. \/ main' = Idle
        \/ main'.pc = "remove_free"
        \/ main.pc \in {"get_list", "list"} /\ main'.pc = "list" /\ main'.client = main.client
        \/ /\ main.pc \in {"process", "send"} /\ main'.pc \in {"send", "close"}
           /\ main'.client = main.client
    <3>1. CASE MainReturnsFromAdd \/ RemoveFree \/ ListDone \/ NothingToSend \/ SendOutput
      BY Zenon, <3>1 DEF MainReturnsFromAdd, RemoveFree, ListDone, NothingToSend, SendOutput
    <3>2. CASE client_device_remove \/ process_send \/ client_close
      BY Zenon, <1>0, <3>2 DEF client_device_remove, process_send, client_close, MainThread
    <3>3. CASE device_get_list
      <4>1. PICK l : main.pc = "get_list" /\ main' = [main EXCEPT !.pc = "list", !.todo = l]
        BY Zenon, <3>3 DEF device_get_list
      <4> QED BY Zenon, <1>0, <4>1 DEF MainThread
    <3>4. CASE \E d \in Devices : CollectDevice(d)
      <4>1. PICK k, l : main.pc = "list" /\ main' = [main EXCEPT !.todo = k, !.left = l]
        BY Zenon, <3>4 DEF CollectDevice
      <4> QED BY Zenon, <1>0, <4>1 DEF MainThread
    <3>5. CASE start_listen
      <4>1. client[main.client] = "COMMAND" /\ main.client \in Clients
            /\ client' = [client EXCEPT ![main.client] = "LISTEN"]
        BY Zenon, <1>0, <3>5 DEF start_listen, Locking, Serving
      <4>2. client'[main.client] = "LISTEN"
        BY Zenon, <1>0, <4>1 DEF TypeOK
      <4> QED BY Zenon, <1>3, <4>1, <4>2
    <3> QED BY Zenon, <3>1, <3>2, <3>3, <3>4, <3>5
  <2>3. /\ main'.pc # "reply"
        /\ main'.pc \in {"get_list", "list"} => client'[main'.client] = "LISTEN"
        /\ main'.pc \in Serving => InList(main.client)'
    <3>1. CASE main' = Idle \/ main'.pc = "remove_free"
      <4>0. Idle.pc = "poll"
        BY Zenon DEF Idle
      <4>1. main'.pc = "poll" \/ main'.pc = "remove_free"
        BY Zenon, <3>1, <4>0
      <4>2. "poll" \notin Serving /\ "remove_free" \notin Serving
        BY Zenon DEF Serving, Closing
      <4>3. main'.pc # "reply" /\ main'.pc # "get_list" /\ main'.pc # "list"
        BY Zenon, <4>1
      <4>4. main'.pc \notin Serving
        BY Zenon, <4>1, <4>2
      <4> QED BY Zenon, <4>3, <4>4
    <3>2. CASE main.pc \in {"get_list", "list"} /\ main'.pc = "list" /\ main'.client = main.client
      <4>1. client'[main'.client] = "LISTEN"
        BY Zenon, <1>0, <1>3, <3>2 DEF InPacket
      <4> QED BY Zenon, <3>2, <4>1 DEF InList
    <3>3. CASE /\ main.pc \in {"process", "send"} /\ main'.pc \in {"send", "close"}
               /\ main'.client = main.client
      <4>1. InList(main.client)
        BY Zenon, <1>0, <3>3 DEF InPacket, Serving
      <4> QED BY Zenon, <1>3, <3>3, <4>1 DEF InList
    <3> QED BY Zenon, <2>2, <3>1, <3>2, <3>3
  <2> QED BY Zenon, <1>1, <1>3, <2>1, <2>3, QuietPacket DEF InList
<1>4. start_listen \/ client' = client
  BY Zenon DEF MainReturnsFromAdd, client_device_remove, RemoveFree,
     device_get_list, CollectDevice, ListDone, process_send, NothingToSend, SendOutput,
     client_close, clientVars
<1> QED BY Zenon, <1>2, <1>3, <1>4

\* The main thread enters or leaves send_pkt.
LEMMA ServePacket ==
  ASSUME EventsInv,
         (\E d \in Devices : ListDevice(d)) \/ DeviceReported \/ WrongState \/ Replied
  PROVE  InPacket'
<1>0. TypeOK /\ main \in MainThread /\ InPacket /\ Locking /\ Main \in Threads
  BY Zenon, PacketFacts DEF TypeOK
<1>1. main.client \in Clients /\ client[main.client] = "LISTEN"
  BY Zenon, <1>0 DEF ListDevice, DeviceReported, WrongState, Replied, InPacket, Locking, Serving
<1>2. ASSUME NEW d \in Devices, ListDevice(d) PROVE InPacket'
  <2>1. send_pkt(Main, main.client, {}) /\ main.pc = "list" /\ main.todo = {} /\ d \in main.left
        /\ into[Main] = Nobody /\ main' = [main EXCEPT !.dev = d]
    BY Zenon, <1>2 DEF ListDevice
  <2>2. /\ into' = [into EXCEPT ![Main] = main.client] /\ enlarging' \subseteq enlarging \cup {Main}
        /\ client' = client
    BY Zenon, <2>1 DEF send_pkt
  <2>3. /\ main'.client = main.client /\ main'.pc = "list" /\ main'.todo = {}
        /\ main'.dev \in main'.left
    BY Zenon, <1>0, <2>1 DEF MainThread
  <2> QED BY Zenon, <1>0, <1>1, <1>2, <2>1, <2>2, <2>3, BeginPacket DEF ListDevice
<1>3. CASE WrongState
  <2>1. send_pkt(Main, main.client, {}) /\ main.pc = "process" /\ main' = [main EXCEPT !.pc = "reply"]
    BY Zenon, <1>3 DEF WrongState
  <2>2. /\ into' = [into EXCEPT ![Main] = main.client] /\ enlarging' \subseteq enlarging \cup {Main}
        /\ client' = client
    BY Zenon, <2>1 DEF send_pkt
  <2>3. main'.client = main.client /\ main'.pc = "reply" /\ into[Main] = Nobody
    BY Zenon, <1>0, <2>1, PacketFacts DEF MainThread
  <2> QED BY Zenon, <1>0, <1>1, <1>3, <2>2, <2>3, BeginPacket DEF WrongState
<1>4. CASE DeviceReported \/ Replied
  <2>1. /\ Main \notin enlarging /\ enlarging' = enlarging /\ into' = [into EXCEPT ![Main] = Nobody]
        /\ adding' = adding /\ client' = client /\ left' = left
        /\ main.pc = "list" \/ main.pc = "reply"
    BY Zenon, <1>4 DEF DeviceReported, Replied, PktDone
  <2>2. main'.client = main.client /\ (main'.pc = "list" \/ main'.pc = "close_command")
    <3>1. CASE DeviceReported
      <4>1. PICK l : main.pc = "list" /\ main' = [main EXCEPT !.left = l]
        BY Zenon, <3>1 DEF DeviceReported
      <4> QED BY Zenon, <1>0, <4>1 DEF MainThread
    <3>2. CASE Replied
      BY Zenon, <1>0, <3>2 DEF Replied, MainThread
    <3> QED BY Zenon, <1>4, <3>1, <3>2
  <2>3. main'.pc \in Serving /\ main'.pc \notin {"get_list", "reply"}
    BY Zenon, <2>2 DEF Serving, Closing
  <2> QED BY Zenon, <1>0, <2>1, <2>2, <2>3, EndPacket
<1> QED BY Zenon, <1>2, <1>3, <1>4

\* Nobody is in send_pkt when a client is taken off the list.
LEMMA RemovalPacket ==
  ASSUME EventsInv, RemoveClient
  PROVE  InPacket' /\ \A t \in Threads : into[t] = Nobody
<1>0. /\ InPacket /\ Locking /\ client_list_mutex = Nobody /\ into' = into
      /\ enlarging' = enlarging /\ main'.pc = "poll" /\ main.pc \in {"close", "close_command"}
  BY Zenon, PacketFacts DEF RemoveClient, Idle, Closing, addVars
<1>1. \A t \in Threads : adding[t] # "notify"
  <2>1. \A t \in Threads : t # Nobody
    BY Zenon, EventsAssumption DEF Threads, Main, Nobody
  <2> QED BY Zenon, <1>0, <2>1 DEF Locking
<1>2. \A t \in Threads : into[t] = Nobody
  BY Zenon, <1>0, <1>1, PacketFacts
<1>3. \A t \in Threads : into'[t] = Nobody
  BY Zenon, <1>0, <1>2
<1> QED BY Zenon, <1>0, <1>2, <1>3 DEF InPacket, Serving, Closing

-----------------------------------------------------------------------------
(* The theorems.                                                           *)

\* The initial state satisfies the invariant.
LEMMA EventsInit ==
  Init => EventsInv
<1> SUFFICES ASSUME Init PROVE EventsInv
  BY Zenon
<1>1. TypeOK
  <2>1. /\ device \in [Devices -> DeviceStates] /\ worker \in [Devices -> WorkerStates]
        /\ adding \in [Threads -> {"no", "lock", "visible", "notify"}]
        /\ left \in [Threads -> SUBSET Clients]
        /\ into \in [Threads -> Clients \cup {Nobody}]
        /\ client \in [Clients -> ClientStates]
    BY Zenon DEF Init, DeviceStates, WorkerStates, ClientStates
  <2>2. <<>> \in Seq(Event)
    OBVIOUS
  <2>3. /\ ob_buf \in [Clients -> Seq(Event)]
        /\ told \in [Clients -> Seq(Event)] /\ sent \in [Clients -> Seq(Event)]
    BY Zenon, <2>2 DEF Init
  <2>4. main \in MainThread
    BY Zenon DEF Init, Idle, MainThread, Nobody
  <2>5. /\ visible \subseteq Devices /\ preflight_cb_data \subseteq Devices
        /\ np \subseteq Devices /\ is_device_connected \subseteq Devices
        /\ enlarging \subseteq Threads /\ freed \subseteq Clients /\ torn \subseteq Clients
        /\ stale \subseteq {"ob_buf", "enlarged", "serial", "client"}
    BY Zenon DEF Init
  <2>6. /\ device_list_mutex \in {Main, Nobody}
        /\ client_list_mutex \in Threads \cup {Nobody}
    BY Zenon DEF Init
  <2> QED BY Zenon, <2>1, <2>3, <2>4, <2>5, <2>6 DEF TypeOK
<1>2. Locking
  BY Zenon, EventsAssumption
  DEF Init, Locking, Idle, Removing, Serving, Closing, Threads, Main, Nobody
<1>3. Living /\ CbDataAlive
  BY Zenon DEF Init, Living, CbDataAlive, Idle, Removing, Listed
<1>4. NoneMissed /\ AllToVisit
  BY Zenon DEF Init, NoneMissed, AllToVisit
<1>5. Retired
  BY Zenon DEF Init, Retired, Idle
<1>6. InPacket
  BY Zenon DEF Init, InPacket, Idle, Serving, Closing
<1> QED BY Zenon, <1>1, <1>2, <1>3, <1>4, <1>5, <1>6 DEF EventsInv, ThreadsInv

\* A step that changes nothing keeps the invariant.
LEMMA EventsStutter ==
  EventsInv /\ UNCHANGED vars => EventsInv'
<1> SUFFICES ASSUME EventsInv, UNCHANGED vars PROVE EventsInv'
  BY Zenon
<1>0. TypeOK /\ Locking /\ Living /\ CbDataAlive
  BY Zenon DEF EventsInv, ThreadsInv
<1> USE DEF vars, deviceVars, workerVars, addVars, clientVars, mutexes
<1>1. TypeOK'
  BY Zenon, <1>0 DEF TypeOK
<1>2. Locking' /\ Living' /\ CbDataAlive'
  BY Zenon, <1>0 DEF Locking, Living, CbDataAlive, Listed
<1>3. NoneMissed' /\ AllToVisit' /\ Retired'
  BY Zenon, QuietKeeps
<1>4. InPacket'
  BY Zenon, QuietPacket DEF InList
<1> QED BY Zenon, <1>1, <1>2, <1>3, <1>4 DEF EventsInv, ThreadsInv

\* Every step keeps the invariant.
LEMMA EventsStep ==
  EventsInv /\ [Next]_vars => EventsInv'
<1> SUFFICES ASSUME EventsInv, [Next]_vars PROVE EventsInv'
  BY Zenon
<1>1. CASE UNCHANGED vars
  BY Zenon, <1>1, EventsStutter
<1>2. ASSUME NEW t \in Threads, client_device_add(t) PROVE EventsInv'
  <2>1. ThreadsInv'
    BY Zenon, <1>2, LockKeeps, VisibleKeeps, SkipKeeps, NotifyKeeps, EnlargedKeeps,
       NotifiedKeeps, UnlockKeeps DEF client_device_add
  <2> QED BY Zenon, <1>2, <2>1, AddPacket DEF EventsInv
<1>3. ASSUME NEW d \in Devices, Preflight(d) \/ np_callback(d) PROVE EventsInv'
  <2>1. ThreadsInv'
    BY Zenon, <1>3, PreflightFailsKeeps, PreflightSucceedsKeeps, AskForTrustKeeps,
       ArmRemovalKeeps, ReturnFromAddKeeps, StopWaitingKeeps, DisarmRemovalKeeps,
       NpCallbackKeeps DEF Preflight
  <2> QED BY Zenon, <1>3, <2>1, WorkerPacket DEF EventsInv
<1>4. ASSUME NEW d \in Devices,
             \/ device_add(d) \/ device_version_input_unknown(d) \/ device_version_input(d)
             \/ device_version_input_direct(d) \/ device_remove(d) \/ reap_dead_devices(d)
      PROVE  EventsInv'
  <2>1. ThreadsInv'
    BY Zenon, <1>4, DeviceAddKeeps, VersionUnknownKeeps, VersionInputKeeps, VersionDirectKeeps,
       DeviceRemoveKeeps, ReapKeeps
  <2>2. main.pc = "poll"
    BY Zenon, <1>4 DEF device_add, device_version_input_unknown, device_version_input,
       device_version_input_direct, device_remove, reap_dead_devices
  <2> QED BY Zenon, <1>4, <2>1, <2>2, PollPacket DEF EventsInv
<1>5. ASSUME MainContinues PROVE EventsInv'
  <2>1. CASE \/ MainReturnsFromAdd \/ client_device_remove \/ RemoveFree \/ start_listen
             \/ device_get_list \/ (\E d \in Devices : CollectDevice(d)) \/ ListDone
             \/ process_send \/ NothingToSend \/ SendOutput \/ client_close
    <3>1. ThreadsInv'
      BY Zenon, <2>1, MainReturnsFromAddKeeps, RemoveNotifyKeeps, RemoveFreeKeeps,
         StartListenKeeps, GetListKeeps, CollectDeviceKeeps, ListDoneKeeps, ProcessSendKeeps,
         NothingToSendKeeps, SendOutputKeeps, ClientCloseKeeps
    <3> QED BY Zenon, <2>1, <3>1, MainPacket DEF EventsInv
  <2>2. CASE (\E d \in Devices : ListDevice(d)) \/ DeviceReported \/ WrongState \/ Replied
    <3>1. ThreadsInv'
      BY Zenon, <2>2, ListDeviceKeeps, DeviceReportedKeeps, WrongStateKeeps, RepliedKeeps
    <3> QED BY Zenon, <2>2, <3>1, ServePacket DEF EventsInv
  <2>3. CASE RemoveClient
    BY Zenon, <2>3, RemoveClientKeeps, RemovalPacket DEF EventsInv
  <2> QED BY Zenon, <1>5, <2>1, <2>2, <2>3 DEF MainContinues
<1>6. ASSUME NEW c \in Clients, client_accept(c) \/ client_process(c) PROVE EventsInv'
  <2>1. ThreadsInv'
    BY Zenon, <1>6, ClientAcceptKeeps, ClientProcessKeeps
  <2>2. main.pc = "poll"
    BY Zenon, <1>6 DEF client_accept, client_process
  <2> QED BY Zenon, <1>6, <2>1, <2>2, PollPacket DEF EventsInv
<1> QED BY Zenon, <1>1, <1>2, <1>3, <1>4, <1>5, <1>6 DEF Next

\* Whatever the interleaving of the main thread and the workers, for any devices
\* and clients, the inductive invariant holds.
THEOREM EventsInvariance == Spec => []EventsInv
BY EventsInit, EventsStep, PTL DEF Spec

\* Every variable keeps its type.
THEOREM EventTypes == Spec => []TypeOK
<1>1. EventsInv => TypeOK
  BY Zenon DEF EventsInv, ThreadsInv
<1> QED BY <1>1, EventsInvariance, PTL

\* device_remove never follows preflight_cb_data into a stack frame that the
\* worker has left.
THEOREM CbDataNeverDangles == Spec => []CbDataAlive
<1>1. EventsInv => CbDataAlive
  BY Zenon DEF EventsInv, ThreadsInv
<1> QED BY <1>1, EventsInvariance, PTL

\* No interleaving of start_listen and client_device_add leaves a listening
\* client without the Attached of a visible device.
THEOREM NoDeviceMissed == Spec => []NoneMissed
<1>1. EventsInv => NoneMissed
  BY Zenon DEF EventsInv, ThreadsInv
<1> QED BY <1>1, EventsInvariance, PTL

\* When device_remove lets a device go, Detached is the last that a listening
\* client was told of it: the mutex that device_remove holds keeps the worker
\* from announcing the device after client_device_remove.
THEOREM DetachedIsLast == Spec => RemovalIsLast
<1>1. ASSUME EventsInv, [Next]_vars, NEW c \in Clients, NEW d \in Devices,
             device[d] = "DEAD", device'[d] = "GONE", client[c] = "LISTEN"
      PROVE  LastIsDetached(c, d)
  <2>1. main.pc \in Removing /\ main.dev = d
    BY Zenon, <1>1 DEF EventsInv, ThreadsInv, Living
  <2>2. CASE main.pc = "remove_free"
    BY Zenon, <1>1, <2>1, <2>2 DEF EventsInv, ThreadsInv, Retired
  <2>3. CASE main.pc = "remove_notify"
    <3>1. device' = device
      <4> USE DEF deviceVars
      <4>1. CASE UNCHANGED vars
        BY Zenon, <4>1 DEF vars
      <4>2. ASSUME NEW t \in Threads, client_device_add(t) PROVE device' = device
        BY ZenonT(40), <4>2
        DEF client_device_add, LockClients, device_set_visible, SkipClient, notify_device_add,
           Enlarged, Notified, UnlockClients
      <4>3. ASSUME NEW x \in Devices, Preflight(x) \/ np_callback(x) PROVE device' = device
        BY Zenon, <4>3 DEF Preflight, np_callback, PreflightFails, PreflightSucceeds, AskForTrust,
           ArmRemoval, ReturnFromAdd, StopWaiting, DisarmRemoval
      <4>4. ASSUME NEW x \in Devices,
                   \/ device_add(x) \/ device_version_input_unknown(x)
                   \/ device_version_input(x) \/ device_version_input_direct(x)
                   \/ device_remove(x) \/ reap_dead_devices(x)
            PROVE  FALSE
        BY Zenon, <2>3, <4>4 DEF device_add, device_version_input_unknown, device_version_input,
           device_version_input_direct, device_remove, reap_dead_devices
      <4>5. ASSUME MainContinues PROVE device' = device
        BY Zenon, <2>3, <4>5
        DEF MainContinues, MainReturnsFromAdd, client_device_remove, RemoveFree,
           start_listen, device_get_list, CollectDevice, ListDevice, DeviceReported, ListDone,
           WrongState, Replied, process_send, NothingToSend, SendOutput, client_close, RemoveClient
      <4>6. ASSUME NEW x \in Clients, client_accept(x) \/ client_process(x)
            PROVE  FALSE
        BY Zenon, <2>3, <4>6 DEF client_accept, client_process
      <4> QED BY Zenon, <1>1, <4>1, <4>2, <4>3, <4>4, <4>5, <4>6 DEF Next
    <3> QED BY Zenon, <1>1, <3>1
  <2> QED BY Zenon, <2>1, <2>2, <2>3 DEF Removing
<1>2. EventsInv /\ [Next]_vars
      => [\A c \in Clients, d \in Devices :
            device[d] = "DEAD" /\ device'[d] = "GONE" /\ client[c] = "LISTEN"
            => LastIsDetached(c, d)]_vars
  BY Zenon, <1>1
<1> QED BY <1>2, EventsInvariance, PTL DEF Spec, RemovalIsLast

-----------------------------------------------------------------------------
(* The order of the output.                                                *)

\* What send() takes from the front of the buffer, and what stays.
LEMMA CutAndJoined ==
  ASSUME NEW s \in Seq(Event), NEW b \in Seq(Event), NEW n \in 1..Len(b)
  PROVE  (s \o SubSeq(b, 1, n)) \o SubSeq(b, n + 1, Len(b)) = s \o b
<1> DEFINE x == SubSeq(b, 1, n)
           y == SubSeq(b, n + 1, Len(b))
           k == Len(s)
           l == Len(b)
           r == l - n
           sx == s \o x
           sb == s \o b
           xy == sx \o y
<1>1. k \in Nat /\ l \in Nat /\ n \in Nat /\ r \in Nat /\ k + n \in Nat /\ n \in 1..l
  OBVIOUS
<1>2. x \in Seq(Event) /\ n = Len(x) /\ y \in Seq(Event) /\ r = Len(y)
  BY <1>1
<1>3. (\A i \in 1..n : x[i] = b[i]) /\ (\A i \in 1..r : y[i] = b[n + i])
  BY <1>1
<1>4. s \in Seq(Event) /\ b \in Seq(Event) /\ k = Len(s) /\ l = Len(b) /\ r = l - n
  BY Zenon
<1> HIDE DEF x, y, k, l, r
<1>5. /\ sx \in Seq(Event) /\ Len(sx) = k + n
      /\ \A i \in 1..k : sx[i] = s[i]
      /\ \A i \in (k + 1)..(k + n) : sx[i] = x[i - k]
  BY SMTT(20), <1>1, <1>2, <1>4
<1>6. /\ sb \in Seq(Event) /\ Len(sb) = k + l
      /\ \A i \in 1..k : sb[i] = s[i]
      /\ \A i \in (k + 1)..(k + l) : sb[i] = b[i - k]
  BY SMTT(20), <1>1, <1>4
<1> HIDE DEF sx, sb
<1> DEFINE m == k + n
<1>7. sx \in Seq(Event) /\ m = Len(sx) /\ m \in Nat
  BY Zenon, <1>1, <1>5
<1> HIDE DEF m
<1>8. /\ xy \in Seq(Event) /\ Len(xy) = m + r
      /\ \A i \in 1..m : xy[i] = sx[i]
      /\ \A i \in (m + 1)..(m + r) : xy[i] = y[i - m]
  BY SMTT(20), <1>1, <1>2, <1>7
<1> USE DEF m
<1> HIDE DEF xy
<1>9. ASSUME NEW i \in 1..(k + l) PROVE xy[i] = sb[i]
  <2>1. CASE i \in 1..k
    <3>1. i \in 1..(k + n)
      BY <1>1, <2>1
    <3> QED BY Zenon, <1>5, <1>6, <1>8, <2>1, <3>1
  <2>2. CASE i \in (k + 1)..(k + n)
    <3>1. i - k \in 1..n /\ i \in 1..(k + n) /\ i \in (k + 1)..(k + l)
      BY <1>1, <2>2
    <3> QED BY SMTT(40), <1>3, <1>5, <1>6, <1>8, <2>2, <3>1
  <2>3. CASE i \in ((k + n) + 1)..(k + l)
    <3>1. /\ i - (k + n) \in 1..r /\ n + (i - (k + n)) = i - k
          /\ i \in (k + 1)..(k + l) /\ i \in ((k + n) + 1)..((k + n) + r)
      BY <1>1, <1>4, <2>3
    <3> QED BY SMTT(40), <1>3, <1>6, <1>8, <3>1
  <2>4. i \in 1..k \/ i \in (k + 1)..(k + n) \/ i \in ((k + n) + 1)..(k + l)
    BY <1>1
  <2> QED BY Zenon, <2>1, <2>2, <2>3, <2>4
<1>10. Len(xy) = k + l
  BY <1>1, <1>4, <1>8
<1>11. xy = sb
  BY Zenon, <1>6, <1>8, <1>9, <1>10, SeqEqual
<1> QED BY Zenon, <1>11 DEF xy, sb, sx, x, y, l

\* An event appended to the buffer comes behind what was not sent.
LEMMA JoinedAndAppended ==
  ASSUME NEW s \in Seq(Event), NEW b \in Seq(Event), NEW e \in Event
  PROVE  s \o Append(b, e) = Append(s \o b, e)
OBVIOUS

\* What a step may do to the output of a client: nothing, an event more in the buffer
\* and in what it was told, or events sent.
Orderly(c) ==
  \/ sent'[c] = sent[c] /\ ob_buf'[c] = ob_buf[c] /\ told'[c] = told[c]
  \/ /\ sent'[c] = sent[c]
     /\ \E e \in Event :
          ob_buf'[c] = Append(ob_buf[c], e) /\ told'[c] = Append(told[c], e)
  \/ sent'[c] \o ob_buf'[c] = sent[c] \o ob_buf[c] /\ told'[c] = told[c]

\* A torn buffer stays torn until the client is freed, and with it what is known of it.
Ordered(c) ==
  \/ c \in torn'
  \/ c \notin torn /\ Orderly(c)
  \/ sent'[c] = <<>> /\ ob_buf'[c] = <<>> /\ told'[c] = <<>>

LEMMA OrderedKeeps ==
  ASSUME TypeOK, OutputInOrder, NEW c \in Clients, c \notin torn', Ordered(c)
  PROVE  sent'[c] \o ob_buf'[c] = told'[c]
<1>1. sent[c] \in Seq(Event) /\ told[c] \in Seq(Event) /\ ob_buf[c] \in Seq(Event)
  BY Zenon DEF TypeOK
<1>2. CASE sent'[c] = <<>> /\ ob_buf'[c] = <<>> /\ told'[c] = <<>>
  BY <1>2
<1>3. CASE c \notin torn /\ Orderly(c)
  <2>1. sent[c] \o ob_buf[c] = told[c]
    BY Zenon, <1>3 DEF OutputInOrder
  <2>2. ASSUME sent'[c] = sent[c], NEW e \in Event,
               ob_buf'[c] = Append(ob_buf[c], e), told'[c] = Append(told[c], e)
        PROVE  sent'[c] \o ob_buf'[c] = told'[c]
    <3>1. sent[c] \o Append(ob_buf[c], e) = Append(sent[c] \o ob_buf[c], e)
      BY Zenon, <1>1, JoinedAndAppended
    <3> QED BY Zenon, <2>1, <2>2, <3>1
  <2> QED BY Zenon, <1>3, <2>1, <2>2 DEF Orderly
<1> QED BY Zenon, <1>2, <1>3 DEF Ordered

\* A step that touches no output.
LEMMA QuietOutput ==
  ASSUME NEW c \in Clients, told' = told, sent' = sent, ob_buf' = ob_buf, torn \subseteq torn'
  PROVE  Ordered(c)
BY Zenon DEF Ordered, Orderly

\* The end of send_pkt.
LEMMA PutOutput ==
  ASSUME TypeOK, NEW c \in Clients, NEW cs \in SUBSET Clients, NEW e \in Event, Put(cs, e),
         sent' = sent, torn \subseteq torn'
  PROVE  Ordered(c)
<1>1. /\ told'[c] = IF c \in cs THEN Append(told[c], e) ELSE told[c]
      /\ ob_buf'[c] = IF c \in cs \ torn THEN Append(ob_buf[c], e) ELSE ob_buf[c]
  BY Zenon DEF Put
<1>2. CASE c \in torn
  BY Zenon, <1>2 DEF Ordered
<1>3. CASE c \notin torn /\ c \in cs
  <2>1. told'[c] = Append(told[c], e) /\ ob_buf'[c] = Append(ob_buf[c], e)
    BY Zenon, <1>1, <1>3
  <2> QED BY Zenon, <1>3, <2>1 DEF Ordered, Orderly
<1>4. CASE c \notin torn /\ c \notin cs
  <2>1. told'[c] = told[c] /\ ob_buf'[c] = ob_buf[c]
    BY Zenon, <1>1, <1>4
  <2> QED BY Zenon, <1>4, <2>1 DEF Ordered, Orderly
<1> QED BY Zenon, <1>2, <1>3, <1>4

\* client_device_add.
LEMMA AddOutput ==
  ASSUME EventsInv, NEW t \in Threads, client_device_add(t), NEW c \in Clients
  PROVE  Ordered(c)
<1>1. CASE \/ LockClients(t) \/ device_set_visible(t) \/ UnlockClients(t) \/ Enlarged(t)
           \/ \E x \in Clients : SkipClient(t, x) \/ notify_device_add(t, x)
  <2>1. told' = told /\ sent' = sent /\ ob_buf' = ob_buf /\ torn \subseteq torn'
    BY Zenon, <1>1 DEF LockClients, device_set_visible, UnlockClients, Enlarged, SkipClient,
       notify_device_add, send_pkt, clientVars
  <2> QED BY Zenon, <2>1, QuietOutput
<1>2. CASE Notified(t)
  <2>1. /\ adding[t] = "notify" /\ into[t] # Nobody /\ Put({into[t]}, Attached(Announced(t)))
        /\ sent' = sent /\ torn \subseteq torn'
    BY Zenon, <1>2 DEF Notified, PktDone
  <2>2. TypeOK /\ {into[t]} \in SUBSET Clients
    BY Zenon, <2>1, PacketFacts
  <2>3. Announced(t) \in Devices
    BY Zenon, <2>1 DEF EventsInv, ThreadsInv, Locking, Announced, Threads
  <2>4. Attached(Announced(t)) \in Event
    BY Zenon, <2>3, EventFacts
  <2> QED BY Zenon, <2>1, <2>2, <2>4, PutOutput
<1> QED BY Zenon, <1>1, <1>2 DEF client_device_add

\* Packets of the main thread.
LEMMA ReportOutput ==
  ASSUME EventsInv, client_device_remove \/ start_listen \/ DeviceReported \/ Replied,
         NEW c \in Clients
  PROVE  Ordered(c)
<1>0. TypeOK /\ Locking /\ InPacket /\ Main \in Threads
  BY Zenon, PacketFacts
<1>1. sent' = sent /\ torn \subseteq torn'
  BY Zenon DEF client_device_remove, start_listen, DeviceReported, Replied, FreeBuffers
<1>2. CASE client_device_remove
  <2>1. Detached(main.dev) \in Event
    BY Zenon, <1>0, <1>2, EventFacts DEF client_device_remove, Locking, Removing
  <2>2. Put({x \in Clients : client[x] = "LISTEN"}, Detached(main.dev))
    BY Zenon, <1>2 DEF client_device_remove
  <2>3. {x \in Clients : client[x] = "LISTEN"} \in SUBSET Clients
    BY Zenon
  <2> QED BY Zenon, <1>0, <1>1, <2>1, <2>2, <2>3, PutOutput
<1>3. CASE start_listen
  <2>1. Put({main.client}, Result) /\ {main.client} \in SUBSET Clients /\ Result \in Event
    BY Zenon, <1>0, <1>3 DEF start_listen, Locking, Serving, Event
  <2> QED BY Zenon, <1>0, <1>1, <2>1, PutOutput
<1>4. CASE DeviceReported \/ Replied
  <2>1. \/ into[Main] # Nobody /\ Put({into[Main]}, Result)
        \/ main.pc = "list" /\ into[Main] # Nobody /\ Put({into[Main]}, Attached(main.dev))
    BY Zenon, <1>4 DEF DeviceReported, Replied, PktDone
  <2>2. {into[Main]} \in SUBSET Clients
    BY Zenon, <2>1, PacketFacts
  <2>3. Result \in Event
    BY Zenon DEF Event
  <2>4. main.pc = "list" => Attached(main.dev) \in Event
    <3> SUFFICES ASSUME main.pc = "list" PROVE Attached(main.dev) \in Event
      BY Zenon
    <3>1. adding[Main] = "no" /\ main.left \in SUBSET Devices
      BY Zenon, <1>0, PacketFacts DEF TypeOK, MainThread
    <3>2. main.dev \in Devices
      BY Zenon, <1>0, <2>1, <3>1 DEF InPacket
    <3> QED BY Zenon, <3>2, EventFacts
  <2>5. CASE into[Main] # Nobody /\ Put({into[Main]}, Result)
    BY Zenon, <1>0, <1>1, <2>2, <2>3, <2>5, PutOutput
  <2>6. CASE main.pc = "list" /\ into[Main] # Nobody /\ Put({into[Main]}, Attached(main.dev))
    <3>1. Attached(main.dev) \in Event
      BY Zenon, <2>4, <2>6
    <3> QED BY Zenon, <1>0, <1>1, <2>2, <2>6, <3>1, PutOutput
  <2> QED BY Zenon, <2>1, <2>5, <2>6
<1> QED BY Zenon, <1>2, <1>3, <1>4

\* process_send moves events from the front of the buffer to what was sent.
LEMMA SendOrdered ==
  ASSUME EventsInv, SendOutput, NEW c \in Clients
  PROVE  Ordered(c)
<1>0. /\ ob_buf \in [Clients -> Seq(Event)] /\ sent \in [Clients -> Seq(Event)]
      /\ main.client \in Clients
  BY Zenon, PacketFacts DEF TypeOK, Locking, Serving, SendOutput
<1>1. told' = told /\ torn' = torn
  BY Zenon DEF SendOutput
<1>2. CASE main.client \in torn
  <2>1. sent' = sent /\ ob_buf' = ob_buf
    BY Zenon, <1>2 DEF SendOutput
  <2> QED BY Zenon, <1>1, <2>1, QuietOutput
<1>3. CASE main.client \notin torn
  <2>0. PICK b \in Seq(Event) : b = ob_buf[main.client]
    BY Zenon, <1>0
  <2>1. PICK n \in 1..Len(b) :
          /\ sent' = [sent EXCEPT ![main.client] = @ \o SubSeq(b, 1, n)]
          /\ ob_buf' = [ob_buf EXCEPT ![main.client] = SubSeq(b, n + 1, Len(b))]
    BY Zenon, <1>3, <2>0 DEF SendOutput
  <2>2. CASE c = main.client
    <3>1. sent'[c] = sent[c] \o SubSeq(b, 1, n) /\ ob_buf'[c] = SubSeq(b, n + 1, Len(b))
      BY Zenon, <1>0, <2>1, <2>2
    <3>2. sent[c] \in Seq(Event) /\ ob_buf[c] = b
      BY Zenon, <1>0, <2>0, <2>2
    <3>3. (sent[c] \o SubSeq(b, 1, n)) \o SubSeq(b, n + 1, Len(b)) = sent[c] \o b
      BY Zenon, <3>2, CutAndJoined
    <3>4. sent'[c] \o ob_buf'[c] = sent[c] \o ob_buf[c]
      BY Zenon, <3>1, <3>2, <3>3
    <3> QED BY Zenon, <1>1, <1>3, <2>2, <3>4 DEF Ordered, Orderly
  <2>3. CASE c # main.client
    <3>1. sent'[c] = sent[c] /\ ob_buf'[c] = ob_buf[c] /\ told'[c] = told[c]
      BY Zenon, <1>0, <1>1, <2>1, <2>3
    <3> QED BY Zenon, <1>1, <3>1 DEF Ordered, Orderly
  <2> QED BY Zenon, <2>2, <2>3
<1> QED BY Zenon, <1>2, <1>3

\* What was recorded of a client that is freed.
LEMMA RemoveClientOutput ==
  ASSUME EventsInv, RemoveClient, NEW c \in Clients
  PROVE  Ordered(c)
<1>1. /\ told \in [Clients -> Seq(Event)] /\ sent \in [Clients -> Seq(Event)]
      /\ ob_buf \in [Clients -> Seq(Event)]
  BY Zenon, PacketFacts DEF TypeOK
<1>2. /\ told' = [told EXCEPT ![main.client] = <<>>] /\ sent' = [sent EXCEPT ![main.client] = <<>>]
      /\ ob_buf' = [ob_buf EXCEPT ![main.client] = <<>>] /\ torn' = torn \ {main.client}
  BY Zenon DEF RemoveClient
<1>3. CASE c = main.client
  <2>1. told'[c] = <<>> /\ sent'[c] = <<>> /\ ob_buf'[c] = <<>>
    BY Zenon, <1>1, <1>2, <1>3
  <2> QED BY Zenon, <2>1 DEF Ordered
<1>4. CASE c # main.client
  <2>1. /\ told'[c] = told[c] /\ sent'[c] = sent[c] /\ ob_buf'[c] = ob_buf[c]
        /\ c \in torn => c \in torn'
    BY Zenon, <1>1, <1>2, <1>4
  <2> QED BY Zenon, <2>1 DEF Ordered, Orderly
<1> QED BY Zenon, <1>3, <1>4

\* Every step keeps the order of the output.
LEMMA OrderStep ==
  ASSUME EventsInv, OutputInOrder, [Next]_vars
  PROVE  OutputInOrder'
<1>1. ASSUME NEW c \in Clients PROVE Ordered(c)
  <2> USE DEF clientVars
  <2>1. CASE UNCHANGED vars
    BY Zenon, <2>1, QuietOutput DEF vars
  <2>2. ASSUME NEW t \in Threads, client_device_add(t) PROVE Ordered(c)
    BY Zenon, <2>2, AddOutput
  <2>3. ASSUME NEW d \in Devices, Preflight(d) \/ np_callback(d) PROVE Ordered(c)
    <3>1. told' = told /\ sent' = sent /\ ob_buf' = ob_buf /\ torn' = torn
      BY Zenon, <2>3 DEF Preflight, np_callback, PreflightFails, PreflightSucceeds, AskForTrust,
         ArmRemoval, ReturnFromAdd, StopWaiting, DisarmRemoval
    <3> QED BY Zenon, <3>1, QuietOutput
  <2>4. ASSUME NEW d \in Devices,
               \/ device_add(d) \/ device_version_input_unknown(d) \/ device_version_input(d)
               \/ device_version_input_direct(d) \/ device_remove(d) \/ reap_dead_devices(d)
        PROVE  Ordered(c)
    <3>1. told' = told /\ sent' = sent /\ ob_buf' = ob_buf /\ torn' = torn
      BY Zenon, <2>4
      DEF device_add, device_version_input_unknown, device_version_input,
         device_version_input_direct, device_remove, reap_dead_devices
    <3> QED BY Zenon, <3>1, QuietOutput
  <2>5. ASSUME \/ MainReturnsFromAdd \/ RemoveFree \/ device_get_list
               \/ (\E d \in Devices : CollectDevice(d) \/ ListDevice(d))
               \/ ListDone \/ WrongState \/ process_send \/ NothingToSend \/ client_close
        PROVE  Ordered(c)
    <3>1. told' = told /\ sent' = sent /\ ob_buf' = ob_buf /\ torn \subseteq torn'
      BY Zenon, <2>5 DEF MainReturnsFromAdd, RemoveFree, device_get_list, CollectDevice,
         ListDevice, ListDone, WrongState, process_send, NothingToSend, client_close, send_pkt,
         FreeBuffers
    <3> QED BY Zenon, <3>1, QuietOutput
  <2>6. ASSUME MainContinues PROVE Ordered(c)
    BY Zenon, <2>5, <2>6, ReportOutput, SendOrdered, RemoveClientOutput DEF MainContinues
  <2>7. ASSUME NEW x \in Clients, client_accept(x) \/ client_process(x) PROVE Ordered(c)
    <3>1. told' = told /\ sent' = sent /\ ob_buf' = ob_buf /\ torn' = torn
      BY Zenon, <2>7 DEF client_accept, client_process
    <3> QED BY Zenon, <3>1, QuietOutput
  <2> QED BY Zenon, <2>1, <2>2, <2>3, <2>4, <2>6, <2>7 DEF Next
<1>2. ASSUME NEW c \in Clients, c \notin torn' PROVE sent'[c] \o ob_buf'[c] = told'[c]
  BY Zenon, <1>1, <1>2, PacketFacts, OrderedKeeps
<1> QED BY Zenon, <1>2 DEF OutputInOrder

-----------------------------------------------------------------------------
(* The users of a buffer.                                                  *)

\* A step after which no thread is in a buffer where it was not before, except one that
\* tears the buffer if it finds another thread there.
LEMMA OverlapKeeps ==
  ASSUME NoOverlap, torn \subseteq torn', NEW t \in Threads, NEW c \in Clients,
         c \in torn' \/ Others(t, c) = {} \/ ~InBuffer(t, c)',
         \A u \in Threads, x \in Clients : InBuffer(u, x)' => InBuffer(u, x) \/ (u = t /\ x = c)
  PROVE  NoOverlap'
<1>1. ASSUME NEW x \in Clients, x \notin torn', NEW u \in Threads, NEW v \in Threads,
             InBuffer(u, x)', InBuffer(v, x)', u # v
      PROVE  FALSE
  <2>1. InBuffer(u, x) /\ InBuffer(v, x) => FALSE
    BY Zenon, <1>1 DEF NoOverlap
  <2>2. CASE x # c
    BY Zenon, <1>1, <2>1, <2>2
  <2>3. CASE x = c
    <3>1. u = t \/ v = t
      BY Zenon, <1>1, <2>1
    <3>2. Others(t, c) = {}
      BY Zenon, <1>1, <2>3, <3>1
    <3>3. \A w \in Threads : w # t => ~InBuffer(w, c)
      BY Zenon, <3>2 DEF Others
    <3> QED BY Zenon, <1>1, <2>3, <3>1, <3>3
  <2> QED BY Zenon, <2>2, <2>3
<1> QED BY Zenon, <1>1 DEF NoOverlap

\* Steps that enter no buffer.
LEMMA QuietOverlap ==
  ASSUME EventsInv, NoOverlap, torn \subseteq torn',
         \A t \in Threads : into'[t] = into[t] \/ into'[t] = Nobody,
         main'.pc = "send" => main.pc = "send" /\ main'.client = main.client
  PROVE  NoOverlap'
<1>1. ASSUME NEW t \in Threads, NEW c \in Clients, InBuffer(t, c)' PROVE InBuffer(t, c)
  BY Zenon, <1>1, EventsAssumption DEF InBuffer
<1> QED BY Zenon, <1>1 DEF NoOverlap

\* A thread enters send_pkt.
LEMMA BeginOverlap ==
  ASSUME EventsInv, NoOverlap, NEW t \in Threads, NEW c \in Clients, NEW serial,
         send_pkt(t, c, serial), main'.pc # "send" \/ main' = main
  PROVE  NoOverlap'
<1>1. torn \subseteq torn' /\ into' = [into EXCEPT ![t] = c]
  BY Zenon DEF send_pkt
<1>2. c \in torn' \/ Others(t, c) = {}
  BY Zenon DEF send_pkt, Torn
<1>3. \A u \in Threads : u # t => into'[u] = into[u]
  BY Zenon, <1>1, PacketFacts DEF TypeOK
<1>4. into'[t] = c
  BY Zenon, <1>1, PacketFacts DEF TypeOK
<1>5. ASSUME NEW u \in Threads, NEW x \in Clients, InBuffer(u, x)'
      PROVE  InBuffer(u, x) \/ (u = t /\ x = c)
  BY Zenon, <1>3, <1>4, <1>5 DEF InBuffer
<1> QED BY Zenon, <1>1, <1>2, <1>5, OverlapKeeps

\* Two threads meet in a buffer only when it is torn by the second.
LEMMA OverlapStep ==
  ASSUME EventsInv, NoOverlap, [Next]_vars
  PROVE  NoOverlap'
<1>0. TypeOK /\ main \in MainThread /\ into \in [Threads -> Clients \cup {Nobody}] /\ Main \in Threads
  BY Zenon, PacketFacts DEF TypeOK
<1> USE DEF clientVars, addVars
<1>1. CASE UNCHANGED vars
  BY Zenon, <1>1, QuietOverlap DEF vars
<1>2. ASSUME NEW t \in Threads, client_device_add(t) PROVE NoOverlap'
  <2>1. CASE \/ LockClients(t) \/ device_set_visible(t) \/ UnlockClients(t) \/ Enlarged(t)
             \/ \E x \in Clients : SkipClient(t, x)
    <3>1. torn' = torn /\ into' = into /\ main' = main
      BY Zenon, <2>1 DEF LockClients, device_set_visible, UnlockClients, Enlarged, SkipClient
    <3> QED BY Zenon, <3>1, QuietOverlap
  <2>2. ASSUME NEW c \in Clients, notify_device_add(t, c) PROVE NoOverlap'
    BY Zenon, <2>2, BeginOverlap DEF notify_device_add
  <2>3. CASE Notified(t)
    <3>1. torn' = torn /\ into' = [into EXCEPT ![t] = Nobody] /\ main' = main
      BY Zenon, <2>3 DEF Notified, PktDone
    <3>2. \A u \in Threads : into'[u] = into[u] \/ into'[u] = Nobody
      BY Zenon, <1>0, <3>1
    <3> QED BY Zenon, <3>1, <3>2, QuietOverlap
  <2> QED BY Zenon, <1>2, <2>1, <2>2, <2>3 DEF client_device_add
<1>3. ASSUME NEW d \in Devices, Preflight(d) \/ np_callback(d) PROVE NoOverlap'
  <2>1. torn' = torn /\ into' = into /\ main' = main
    BY Zenon, <1>3 DEF Preflight, np_callback, PreflightFails, PreflightSucceeds, AskForTrust,
       ArmRemoval, ReturnFromAdd, StopWaiting, DisarmRemoval
  <2> QED BY Zenon, <2>1, QuietOverlap
<1>4. ASSUME NEW d \in Devices,
             \/ device_add(d) \/ device_version_input_unknown(d) \/ device_version_input(d)
             \/ device_version_input_direct(d) \/ device_remove(d) \/ reap_dead_devices(d)
      PROVE  NoOverlap'
  <2>1. torn' = torn /\ into' = into
    BY Zenon, <1>4 DEF device_add, device_version_input_unknown, device_version_input,
       device_version_input_direct, device_remove, reap_dead_devices
  <2>2. main' = main \/ main'.pc = "add" \/ main'.pc = "remove_notify" \/ main'.pc = "remove_free"
    BY Zenon, <1>0, <1>4 DEF device_add, device_version_input_unknown, device_version_input,
       device_version_input_direct, device_remove, reap_dead_devices, MainThread
  <2> QED BY Zenon, <2>1, <2>2, QuietOverlap
<1>5. ASSUME \/ MainReturnsFromAdd \/ client_device_remove \/ RemoveFree \/ start_listen
             \/ device_get_list \/ (\E d \in Devices : CollectDevice(d)) \/ DeviceReported
             \/ ListDone \/ Replied \/ NothingToSend \/ SendOutput \/ client_close
      PROVE  NoOverlap'
  <2>1. torn \subseteq torn' /\ (into' = into \/ into' = [into EXCEPT ![Main] = Nobody])
    BY Zenon, <1>5 DEF MainReturnsFromAdd, client_device_remove, RemoveFree, start_listen,
       device_get_list, CollectDevice, DeviceReported, ListDone, Replied, NothingToSend,
       SendOutput, client_close, FreeBuffers, PktDone
  <2>2. \A u \in Threads : into'[u] = into[u] \/ into'[u] = Nobody
    BY Zenon, <1>0, <2>1
  <2>3. main'.pc # "send"
    <3>1. CASE MainReturnsFromAdd \/ RemoveFree \/ ListDone \/ NothingToSend \/ SendOutput
      <4>1. main' = Idle
        BY Zenon, <3>1 DEF MainReturnsFromAdd, RemoveFree, ListDone, NothingToSend, SendOutput
      <4>2. Idle.pc = "poll"
        BY Zenon DEF Idle
      <4> QED BY Zenon, <4>1, <4>2
    <3>2. CASE client_device_remove \/ start_listen \/ Replied \/ client_close
      BY Zenon, <1>0, <3>2 DEF client_device_remove, start_listen, Replied, client_close, MainThread
    <3>3. CASE device_get_list
      <4>1. PICK l : main' = [main EXCEPT !.pc = "list", !.todo = l]
        BY Zenon, <3>3 DEF device_get_list
      <4> QED BY Zenon, <1>0, <4>1 DEF MainThread
    <3>4. CASE \E d \in Devices : CollectDevice(d)
      <4>1. PICK k, l : main.pc = "list" /\ main' = [main EXCEPT !.todo = k, !.left = l]
        BY Zenon, <3>4 DEF CollectDevice
      <4> QED BY Zenon, <1>0, <4>1 DEF MainThread
    <3>5. CASE DeviceReported
      <4>1. PICK l : main.pc = "list" /\ main' = [main EXCEPT !.left = l]
        BY Zenon, <3>5 DEF DeviceReported
      <4> QED BY Zenon, <1>0, <4>1 DEF MainThread
    <3> QED BY Zenon, <1>5, <3>1, <3>2, <3>3, <3>4, <3>5
  <2> QED BY Zenon, <2>1, <2>2, <2>3, QuietOverlap
<1>6. ASSUME (\E d \in Devices : ListDevice(d)) \/ WrongState PROVE NoOverlap'
  <2>1. send_pkt(Main, main.client, {}) /\ main.client \in Clients
    BY Zenon, <1>6, PacketFacts DEF ListDevice, WrongState, Locking, Serving
  <2>2. main'.pc # "send"
    BY Zenon, <1>0, <1>6 DEF ListDevice, WrongState, MainThread
  <2> QED BY Zenon, <1>0, <2>1, <2>2, BeginOverlap
<1>7. CASE process_send
  <2>1. /\ torn' = torn \cup Torn(Main, main.client) /\ into' = into /\ main.client \in Clients
        /\ main' = [main EXCEPT !.pc = "send"]
    BY Zenon, <1>7, PacketFacts DEF process_send, Locking, Serving
  <2>2. main'.pc = "send" /\ main'.client = main.client
    BY Zenon, <1>0, <2>1 DEF MainThread
  <2>3. main.client \in torn' \/ Others(Main, main.client) = {}
    BY Zenon, <2>1 DEF Torn
  <2>4. ASSUME NEW u \in Threads, NEW x \in Clients, InBuffer(u, x)'
        PROVE  InBuffer(u, x) \/ (u = Main /\ x = main.client)
    BY Zenon, <2>1, <2>2, <2>4 DEF InBuffer
  <2>5. torn \subseteq torn'
    BY Zenon, <2>1
  <2>6. PICK c \in Clients : c = main.client
    BY Zenon, <2>1
  <2>7. /\ c \in torn' \/ Others(Main, c) = {}
        /\ \A u \in Threads, x \in Clients : InBuffer(u, x)' => InBuffer(u, x) \/ (u = Main /\ x = c)
    BY Zenon, <2>3, <2>4, <2>6
  <2> QED BY Zenon, <1>0, <2>5, <2>7, OverlapKeeps
<1>8. CASE RemoveClient
  <2>1. main'.pc = "poll" /\ into' = into
    BY Zenon, <1>8 DEF RemoveClient, Idle
  <2>2. \A t \in Threads : into'[t] = Nobody
    BY Zenon, <1>8, <2>1, RemovalPacket
  <2>3. \A t \in Threads, c \in Clients : ~InBuffer(t, c)'
    BY Zenon, <2>1, <2>2, EventsAssumption DEF InBuffer
  <2> QED BY Zenon, <2>3 DEF NoOverlap
<1>9. ASSUME MainContinues PROVE NoOverlap'
  BY Zenon, <1>5, <1>6, <1>7, <1>8, <1>9 DEF MainContinues
<1>10. ASSUME NEW x \in Clients, client_accept(x) \/ client_process(x) PROVE NoOverlap'
  <2>1. torn' = torn /\ into' = into /\ (main' = main \/ main'.pc = "process")
    BY Zenon, <1>0, <1>10 DEF client_accept, client_process, MainThread
  <2> QED BY Zenon, <2>1, QuietOverlap
<1> QED BY Zenon, <1>1, <1>2, <1>3, <1>4, <1>9, <1>10 DEF Next

\* A client whose buffers are freed is about to leave the list.
LEMMA FreedStep ==
  ASSUME EventsInv, FreedLeaves, [Next]_vars
  PROVE  FreedLeaves'
<1>0. /\ client \in [Clients -> ClientStates] /\ freed \subseteq Clients /\ main \in MainThread
      /\ main.pc \in Serving => main.client \in Clients
  BY Zenon, PacketFacts DEF TypeOK, Locking
<1>1. ASSUME freed' = freed, client' = client, main' = main PROVE FreedLeaves'
  BY Zenon, <1>1 DEF FreedLeaves
<1>2. ASSUME freed' = freed, \A c \in Clients : client[c] = "CLOSED" => client'[c] = "CLOSED",
             main.pc \notin Closing
      PROVE  FreedLeaves'
  BY Zenon, <1>0, <1>2 DEF FreedLeaves
<1> USE DEF clientVars
<1>3. CASE UNCHANGED vars
  BY Zenon, <1>1, <1>3 DEF vars
<1>4. ASSUME NEW t \in Threads, client_device_add(t) PROVE FreedLeaves'
  <2>1. freed' = freed /\ client' = client /\ main' = main
    BY Zenon, <1>4 DEF client_device_add, LockClients, device_set_visible, UnlockClients,
       SkipClient, notify_device_add, Enlarged, Notified, send_pkt
  <2> QED BY Zenon, <1>1, <2>1
<1>5. ASSUME NEW d \in Devices, Preflight(d) \/ np_callback(d) PROVE FreedLeaves'
  <2>1. freed' = freed /\ client' = client /\ main' = main
    BY Zenon, <1>5 DEF Preflight, np_callback, PreflightFails, PreflightSucceeds, AskForTrust,
       ArmRemoval, ReturnFromAdd, StopWaiting, DisarmRemoval
  <2> QED BY Zenon, <1>1, <2>1
<1>6. ASSUME NEW d \in Devices,
             \/ device_add(d) \/ device_version_input_unknown(d) \/ device_version_input(d)
             \/ device_version_input_direct(d) \/ device_remove(d) \/ reap_dead_devices(d)
      PROVE  FreedLeaves'
  <2>1. freed' = freed /\ client' = client /\ main.pc = "poll"
    BY Zenon, <1>6 DEF device_add, device_version_input_unknown, device_version_input,
       device_version_input_direct, device_remove, reap_dead_devices
  <2> QED BY Zenon, <1>2, <2>1 DEF Closing
<1>7. CASE \/ MainReturnsFromAdd \/ client_device_remove \/ RemoveFree \/ device_get_list
           \/ (\E d \in Devices : CollectDevice(d) \/ ListDevice(d)) \/ DeviceReported
           \/ ListDone \/ WrongState \/ process_send \/ NothingToSend \/ SendOutput
  <2>1. freed' = freed /\ client' = client /\ main.pc # "close" /\ main.pc # "close_command"
    BY Zenon, <1>7
    DEF MainReturnsFromAdd, client_device_remove, RemoveFree, device_get_list, CollectDevice,
       ListDevice, DeviceReported, ListDone, WrongState, process_send, NothingToSend, SendOutput,
       send_pkt
  <2> QED BY Zenon, <1>2, <2>1 DEF Closing
<1>8. CASE start_listen
  <2>1. freed' = freed /\ main.pc = "process" /\ client[main.client] = "COMMAND"
        /\ client' = [client EXCEPT ![main.client] = "LISTEN"]
    BY Zenon, <1>8 DEF start_listen
  <2>2. \A c \in Clients : client[c] = "CLOSED" => client'[c] = "CLOSED"
    BY Zenon, <1>0, <2>1
  <2> QED BY Zenon, <1>2, <2>1, <2>2 DEF Closing
<1>9. CASE client_close \/ Replied
  <2>1. /\ freed' = freed \cup {main.client} /\ client' = client
        /\ main.pc # "close" /\ main.pc # "close_command"
    BY Zenon, <1>9 DEF client_close, Replied, FreeBuffers
  <2>2. main'.pc \in Closing /\ main'.client = main.client
    BY Zenon, <1>0, <1>9 DEF client_close, Replied, MainThread, Closing
  <2>3. \A c \in freed : client[c] = "CLOSED"
    BY Zenon, <2>1 DEF FreedLeaves, Closing
  <2> QED BY Zenon, <2>1, <2>2, <2>3 DEF FreedLeaves
<1>10. CASE RemoveClient
  <2>1. freed' = freed /\ client' = [client EXCEPT ![main.client] = "CLOSED"]
        /\ main.client \in Clients
    BY Zenon, <1>0, <1>10 DEF RemoveClient, Serving
  <2>2. \A c \in freed : client'[c] = "CLOSED"
    BY Zenon, <1>0, <2>1 DEF FreedLeaves
  <2> QED BY Zenon, <2>1, <2>2 DEF FreedLeaves
<1>11. ASSUME NEW x \in Clients, client_accept(x) \/ client_process(x) PROVE FreedLeaves'
  <2>1. /\ freed' = freed /\ main.pc = "poll"
        /\ client' = client \/ (client[x] = "NEW" /\ client' = [client EXCEPT ![x] = "COMMAND"])
    BY Zenon, <1>11 DEF client_accept, client_process
  <2>2. \A c \in Clients : client[c] = "CLOSED" => client'[c] = "CLOSED"
    BY Zenon, <1>0, <2>1
  <2> QED BY Zenon, <1>2, <2>1, <2>2 DEF Closing
<1>12. ASSUME MainContinues PROVE FreedLeaves'
  BY Zenon, <1>7, <1>8, <1>9, <1>10, <1>12 DEF MainContinues
<1> QED BY Zenon, <1>3, <1>4, <1>5, <1>6, <1>11, <1>12 DEF Next

\* Nothing was sent, nothing is freed, and no buffer is in use.
LEMMA OutputInit ==
  ASSUME Init
  PROVE  OutputInOrder /\ NoOverlap /\ FreedLeaves
<1>1. <<>> \o <<>> = <<>>
  OBVIOUS
<1>2. \A c \in Clients : sent[c] = <<>> /\ ob_buf[c] = <<>> /\ told[c] = <<>>
  BY Zenon DEF Init
<1>3. OutputInOrder
  BY Zenon, <1>1, <1>2 DEF OutputInOrder
<1>4. \A t \in Threads, c \in Clients : ~InBuffer(t, c)
  BY Zenon, EventsAssumption DEF Init, Idle, InBuffer
<1>5. NoOverlap /\ FreedLeaves
  BY Zenon, <1>4 DEF Init, NoOverlap, FreedLeaves
<1> QED BY Zenon, <1>3, <1>5

\* The inductive invariant of the threads, the devices, the output of the clients and
\* the users of their buffers, for any devices and clients.
THEOREM MuxEventsInvariance == Spec => []MuxEventsInv
<1>1. Init => MuxEventsInv
  BY Zenon, EventsInit, OutputInit DEF MuxEventsInv
<1>2. MuxEventsInv /\ [Next]_vars => MuxEventsInv'
  BY Zenon, EventsStep, OrderStep, OverlapStep, FreedStep DEF MuxEventsInv
<1> QED BY <1>1, <1>2, PTL DEF Spec

\* A client whose buffer was never used by two threads at once receives what was
\* reported to it, all of it, each event once and in that order.
THEOREM OutputKeepsOrder == Spec => []OutputInOrder
<1>1. MuxEventsInv => OutputInOrder
  BY Zenon DEF MuxEventsInv
<1> QED BY <1>1, MuxEventsInvariance, PTL

-----------------------------------------------------------------------------
(* The windows in which memory is misused.                                 *)

\* What a thread finds in a buffer that it begins to use or to free: another thread is
\* there only if one of the two is a worker that visits the client and the other is
\* the main thread, which serves it.
LEMMA MeetFacts ==
  ASSUME MuxEventsInv
  PROVE  /\ \A t \in Threads, c \in Clients :
              adding[t] = "notify" =>
                \A u \in Others(t, c) :
                  u = Main /\ t # Main /\ main.client = c /\ main.pc \in Using
         /\ \A c \in Clients : main.pc # "add" =>
              \A u \in Others(Main, c) : u \in Devices /\ Visits(u, c)
         /\ \A c \in freed : InList(c) => main.pc \in Closing /\ main.client = c
<1>0. EventsInv /\ InPacket /\ FreedLeaves /\ Nobody \notin Clients
  BY Zenon, EventsAssumption DEF MuxEventsInv, EventsInv
<1>1. ASSUME NEW t \in Threads, NEW c \in Clients, adding[t] = "notify", NEW u \in Others(t, c)
      PROVE  u = Main /\ t # Main /\ main.client = c /\ main.pc \in Using
  <2>1. u \in Threads /\ u # t /\ InBuffer(u, c)
    BY Zenon DEF Others
  <2>2. adding[u] # "notify"
    BY Zenon, <1>0, <1>1, <2>1, PacketFacts
  <2>3. CASE into[u] = c
    <3>1. into[u] # Nobody
      BY Zenon, <1>0, <2>3
    <3>2. u = Main /\ into[u] = main.client /\ (main.pc = "list" \/ main.pc = "reply")
      BY Zenon, <1>0, <2>1, <2>2, <3>1 DEF InPacket
    <3> QED BY Zenon, <2>1, <2>3, <3>2 DEF Using
  <2>4. CASE u = Main /\ main.client = c /\ main.pc = "send"
    BY Zenon, <2>1, <2>4 DEF Using
  <2> QED BY Zenon, <2>1, <2>3, <2>4 DEF InBuffer
<1>2. ASSUME NEW c \in Clients, main.pc # "add", NEW u \in Others(Main, c)
      PROVE  u \in Devices /\ Visits(u, c)
  <2>1. u \in Threads /\ u # Main /\ into[u] = c
    BY Zenon DEF Others, InBuffer
  <2>2. u \in Devices /\ into[u] # Nobody
    BY Zenon, <1>0, <2>1 DEF Threads
  <2>3. adding[u] = "notify" /\ into[u] \in left[u]
    BY Zenon, <1>0, <2>1, <2>2 DEF InPacket
  <2> QED BY Zenon, <2>1, <2>2, <2>3 DEF Visits
<1>3. ASSUME NEW c \in freed, InList(c) PROVE main.pc \in Closing /\ main.client = c
  BY Zenon, <1>0, <1>3 DEF FreedLeaves, InList
<1> QED BY Zenon, <1>1, <1>2, <1>3

\* The steps that add to stale or torn; every other step keeps both.
Misusing ==
  \/ \E t \in Threads, c \in Clients : notify_device_add(t, c)
  \/ \E d \in Devices : ListDevice(d)
  \/ WrongState \/ process_send \/ Replied \/ client_close \/ RemoveClient

LEMMA OnlyMisusing ==
  ASSUME [Next]_vars, ~Misusing
  PROVE  stale' = stale /\ torn' = torn
<1> USE DEF clientVars
<1>1. CASE UNCHANGED vars
  BY Zenon, <1>1 DEF vars
<1>2. ASSUME NEW t \in Threads, client_device_add(t) PROVE stale' = stale /\ torn' = torn
  <2>1. \A c \in Clients : ~notify_device_add(t, c)
    BY Zenon DEF Misusing
  <2> QED BY Zenon, <1>2, <2>1 DEF client_device_add, LockClients, device_set_visible,
       SkipClient, Enlarged, Notified, UnlockClients
<1>3. ASSUME NEW d \in Devices, Preflight(d) \/ np_callback(d)
      PROVE  stale' = stale /\ torn' = torn
  BY Zenon, <1>3 DEF Preflight, np_callback, PreflightFails, PreflightSucceeds, AskForTrust,
     ArmRemoval, ReturnFromAdd, StopWaiting, DisarmRemoval
<1>4. ASSUME NEW d \in Devices,
             \/ device_add(d) \/ device_version_input_unknown(d) \/ device_version_input(d)
             \/ device_version_input_direct(d) \/ device_remove(d) \/ reap_dead_devices(d)
      PROVE  stale' = stale /\ torn' = torn
  BY Zenon, <1>4 DEF device_add, device_version_input_unknown, device_version_input,
     device_version_input_direct, device_remove, reap_dead_devices
<1>5. ASSUME MainContinues PROVE stale' = stale /\ torn' = torn
  BY Zenon, <1>5
  DEF Misusing, MainContinues, MainReturnsFromAdd, client_device_remove, RemoveFree,
     start_listen, device_get_list, CollectDevice, DeviceReported, ListDone, NothingToSend,
     SendOutput
<1>6. ASSUME NEW c \in Clients, client_accept(c) \/ client_process(c)
      PROVE  stale' = stale /\ torn' = torn
  BY Zenon, <1>6 DEF client_accept, client_process
<1> QED BY Zenon, <1>1, <1>2, <1>3, <1>4, <1>5, <1>6 DEF Next

\* A thread announces a device.
LEMMA NotifyMisuse ==
  ASSUME MuxEventsInv, NEW t \in Threads, NEW c \in Clients, notify_device_add(t, c)
  PROVE  StaleStep /\ TornStep
<1>1. /\ adding[t] = "notify" /\ c \in left[t] /\ client[c] = "LISTEN" /\ main' = main
      /\ send_pkt(t, c, {x \in {"serial"} : device[Announced(t)] = "REAPED"})
  BY Zenon DEF notify_device_add
<1>2. PICK grows \in BOOLEAN :
        /\ enlarging' = enlarging \cup {x \in {t} : grows}
        /\ stale' = stale \cup {x \in {"serial"} : device[Announced(t)] = "REAPED"}
                          \cup Misused(t, c, grows)
        /\ torn' = torn \cup Torn(t, c)
  BY Zenon, <1>1 DEF send_pkt
<1>3. CASE t = Main
  <2>1. main.pc = "add" /\ device[main.dev] = "ACTIVE"
    BY Zenon, <1>1, <1>3 DEF MuxEventsInv, EventsInv, ThreadsInv, Locking, Living
  <2>2. Others(t, c) = {}
    BY Zenon, <1>1, <1>3, MeetFacts
  <2>3. c \notin freed
    <3>1. InList(c)
      BY Zenon, <1>1 DEF InList
    <3> QED BY Zenon, <2>1, <3>1, MeetFacts DEF Closing
  <2>4. device[Announced(t)] # "REAPED"
    BY Zenon, <1>3, <2>1 DEF Announced
  <2>5. stale' = stale /\ torn' = torn
    BY Zenon, <1>2, <2>2, <2>3, <2>4 DEF Misused, Torn
  <2> QED BY Zenon, <2>5 DEF StaleStep, TornStep
<1>4. CASE t # Main
  <2>1. t \in Devices /\ Visits(t, c) /\ Announced(t) = t
    BY Zenon, <1>1, <1>4 DEF Threads, Visits, Announced
  <2>2. c \in freed => main'.pc \in Closing /\ main.client = c
    <3>1. InList(c)
      BY Zenon, <1>1 DEF InList
    <3> QED BY Zenon, <1>1, <3>1, MeetFacts
  <2>3. \A u \in Others(t, c) : u = Main /\ main.client = c /\ main'.pc \in Using
    BY Zenon, <1>1, MeetFacts
  <2>4. ASSUME NEW x \in stale' \ stale
        PROVE  \/ /\ x = "ob_buf"
                  /\ \E d \in Devices : Visits(d, main.client)
                  /\ main'.pc \in Closing
               \/ /\ x = "enlarged"
                  /\ \E d \in Devices : Visits(d, main.client) /\ enlarging' \cap {d, Main} # {}
                  /\ main'.pc \in Using
               \/ x = "serial" /\ \E d \in Devices : adding[d] = "notify" /\ ~Listed(d)
    <3>1. CASE x = "serial" /\ device[t] = "REAPED"
      BY Zenon, <1>1, <2>1, <3>1 DEF Listed
    <3>2. CASE x = "ob_buf" /\ c \in freed
      BY Zenon, <2>1, <2>2, <3>2
    <3>3. ASSUME x = "enlarged", NEW u \in Others(t, c), grows \/ u \in enlarging
          PROVE  /\ \E d \in Devices : Visits(d, main.client) /\ enlarging' \cap {d, Main} # {}
                 /\ main'.pc \in Using
      <4>1. u = Main /\ main.client = c /\ main'.pc \in Using
        BY Zenon, <2>3
      <4>2. t \in enlarging' \/ Main \in enlarging'
        BY Zenon, <1>2, <3>3, <4>1
      <4>3. enlarging' \cap {t, Main} # {}
        BY Zenon, <4>2
      <4> QED BY Zenon, <2>1, <4>1, <4>3
    <3>4. \/ x \in {y \in {"serial"} : device[t] = "REAPED"}
          \/ x \in {y \in {"ob_buf"} : c \in freed}
          \/ x \in {y \in {"enlarged"} : \E u \in Others(t, c) : grows \/ u \in enlarging}
      BY Zenon, <1>2, <2>1 DEF Misused
    <3> QED BY Zenon, <3>1, <3>2, <3>3, <3>4
  <2>5. StaleStep
    BY Zenon, <2>4 DEF StaleStep
  <2>6. ASSUME NEW x \in torn' \ torn
        PROVE  /\ \E d \in Devices : Visits(d, x)
               /\ main.client = x /\ main'.pc \in Using \cup Closing
    <3>1. x = c /\ (c \in freed \/ Others(t, c) # {})
      BY Zenon, <1>2 DEF Torn
    <3>2. main.client = c /\ (main'.pc \in Using \/ main'.pc \in Closing)
      BY Zenon, <2>2, <2>3, <3>1
    <3> QED BY Zenon, <2>1, <3>1, <3>2
  <2>7. TornStep
    BY Zenon, <2>6 DEF TornStep
  <2> QED BY Zenon, <2>5, <2>7
<1> QED BY Zenon, <1>3, <1>4

\* The main thread begins to use the buffer of the client that it serves.
LEMMA UseMisuse ==
  ASSUME MuxEventsInv, NEW frees \in BOOLEAN, main.client \in Clients,
         main.pc \in Serving, main.pc \notin Closing,
         stale' = stale \cup Misused(Main, main.client, frees),
         torn' = torn \cup Torn(Main, main.client),
         enlarging' = enlarging \cup {x \in {Main} : frees},
         main'.pc \in Using
  PROVE  StaleStep /\ TornStep
<1>1. main.pc # "add"
  BY Zenon DEF Serving, Closing
<1>2. main.client \notin freed
  <2>1. InList(main.client)
    BY Zenon DEF MuxEventsInv, EventsInv, InPacket
  <2> QED BY Zenon, <2>1, MeetFacts
<1>3. \A u \in Others(Main, main.client) : u \in Devices /\ Visits(u, main.client)
  BY Zenon, <1>1, MeetFacts
<1>4. ASSUME NEW x \in stale' \ stale
      PROVE  /\ x = "enlarged"
             /\ \E d \in Devices : Visits(d, main.client) /\ enlarging' \cap {d, Main} # {}
  <2>1. x \in {y \in {"enlarged"} :
                 \E u \in Others(Main, main.client) : frees \/ u \in enlarging}
    BY Zenon, <1>2 DEF Misused
  <2>2. PICK u \in Others(Main, main.client) : frees \/ u \in enlarging
    BY Zenon, <2>1
  <2>3. u \in enlarging' \/ Main \in enlarging'
    BY Zenon, <2>2
  <2>4. enlarging' \cap {u, Main} # {}
    BY Zenon, <2>3
  <2> QED BY Zenon, <1>3, <2>1, <2>4
<1>5. StaleStep
  BY Zenon, <1>4 DEF StaleStep
<1>6. ASSUME NEW x \in torn' \ torn
      PROVE  x = main.client /\ \E d \in Devices : Visits(d, x)
  <2>1. x = main.client /\ Others(Main, main.client) # {}
    BY Zenon, <1>2 DEF Torn
  <2> QED BY Zenon, <1>3, <2>1
<1>7. TornStep
  BY Zenon, <1>6 DEF TornStep
<1> QED BY Zenon, <1>5, <1>7

\* client_close frees the buffers of the client that the main thread serves.
LEMMA CloseMisuse ==
  ASSUME MuxEventsInv, client_close \/ Replied
  PROVE  StaleStep /\ TornStep
<1>1. /\ FreeBuffers(main.client) /\ main.pc # "add" /\ main.pc \notin Closing
      /\ main.pc \in Serving
  BY Zenon DEF client_close, Replied, Closing, Serving
<1>2. main.client \in Clients /\ main \in MainThread /\ InList(main.client)
  BY Zenon, <1>1 DEF MuxEventsInv, EventsInv, ThreadsInv, Locking, TypeOK, InPacket
<1>3. main'.pc \in Closing
  BY Zenon, <1>2 DEF client_close, Replied, MainThread, Closing
<1>4. main.client \notin freed
  BY Zenon, <1>1, <1>2, MeetFacts
<1>5. \A u \in Others(Main, main.client) : u \in Devices /\ Visits(u, main.client)
  BY Zenon, <1>1, <1>2, MeetFacts
<1>6. ASSUME NEW x \in stale' \ stale
      PROVE  x = "ob_buf" /\ \E d \in Devices : Visits(d, main.client)
  <2>1. x = "ob_buf" /\ Others(Main, main.client) # {}
    BY Zenon, <1>1 DEF FreeBuffers
  <2> QED BY Zenon, <1>5, <2>1
<1>7. ASSUME NEW x \in torn' \ torn
      PROVE  x = main.client /\ \E d \in Devices : Visits(d, x)
  <2>1. x = main.client /\ Others(Main, main.client) # {}
    BY Zenon, <1>1, <1>4 DEF FreeBuffers, Torn
  <2> QED BY Zenon, <1>5, <2>1
<1>8. StaleStep
  BY Zenon, <1>3, <1>6 DEF StaleStep
<1>9. TornStep
  BY Zenon, <1>3, <1>7 DEF TornStep
<1> QED BY Zenon, <1>8, <1>9

\* Memory is misused only in the windows that StaleStep and TornStep name, for any
\* devices and clients.
THEOREM StaleUsesAreConfined == Spec => StaleConfined
<1>1. ASSUME MuxEventsInv, [Next]_vars PROVE StaleStep /\ TornStep
  <2>0. EventsInv /\ main \in MainThread
    BY Zenon, <1>1 DEF MuxEventsInv, EventsInv, ThreadsInv, TypeOK
  <2>1. CASE ~Misusing
    BY Zenon, <1>1, <2>1, OnlyMisusing DEF StaleStep, TornStep
  <2>2. ASSUME NEW t \in Threads, NEW c \in Clients, notify_device_add(t, c)
        PROVE  StaleStep /\ TornStep
    BY Zenon, <1>1, <2>2, NotifyMisuse
  <2>3. CASE (\E d \in Devices : ListDevice(d)) \/ WrongState
    <3>1. /\ send_pkt(Main, main.client, {}) /\ main.pc \in {"list", "process"}
          /\ main'.pc \in {"list", "reply"}
      BY Zenon, <2>0, <2>3 DEF ListDevice, WrongState, MainThread
    <3>2. PICK grows \in BOOLEAN :
            /\ enlarging' = enlarging \cup {x \in {Main} : grows}
            /\ stale' = stale \cup {} \cup Misused(Main, main.client, grows)
            /\ torn' = torn \cup Torn(Main, main.client)
      BY Zenon, <3>1 DEF send_pkt
    <3>3. stale' = stale \cup Misused(Main, main.client, grows)
      BY Zenon, <3>2
    <3>4. /\ main.pc \in Serving /\ main.pc \notin Closing /\ main'.pc \in Using
          /\ main.client \in Clients
      BY Zenon, <2>0, <3>1, PacketFacts DEF Serving, Closing, Using, Locking
    <3> QED BY Zenon, <1>1, <3>2, <3>3, <3>4, UseMisuse
  <2>4. CASE process_send
    <3>1. /\ main.pc = "process" /\ main'.pc = "send" /\ enlarging' = enlarging
          /\ stale' = stale \cup Misused(Main, main.client, FALSE)
          /\ torn' = torn \cup Torn(Main, main.client)
      BY Zenon, <2>0, <2>4 DEF process_send, MainThread, addVars
    <3>2. enlarging' = enlarging \cup {x \in {Main} : FALSE} /\ FALSE \in BOOLEAN
      BY Zenon, <3>1
    <3>3. /\ main.pc \in Serving /\ main.pc \notin Closing /\ main'.pc \in Using
          /\ main.client \in Clients
      BY Zenon, <2>0, <3>1, PacketFacts DEF Serving, Closing, Using, Locking
    <3> QED BY Zenon, <1>1, <3>1, <3>2, <3>3, UseMisuse
  <2>5. CASE client_close \/ Replied
    BY Zenon, <1>1, <2>5, CloseMisuse
  <2>6. CASE RemoveClient
    <3>1. /\ stale' = stale \cup {x \in {"client"} : main.pc = "close_command"}
          /\ torn' = torn \ {main.client}
      BY Zenon, <2>6 DEF RemoveClient
    <3> QED BY Zenon, <3>1 DEF StaleStep, TornStep
  <2> QED BY Zenon, <2>1, <2>2, <2>3, <2>4, <2>5, <2>6 DEF Misusing
<1>2. MuxEventsInv /\ [Next]_vars => [StaleStep /\ TornStep]_vars
  BY Zenon, <1>1
<1> QED BY <1>2, MuxEventsInvariance, PTL DEF Spec, StaleConfined
=============================================================================
