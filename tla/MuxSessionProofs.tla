-------------------------- MODULE MuxSessionProofs --------------------------
(***************************************************************************)
(* For any number of clients, devices and commands: a client and its       *)
(* connection stay linked, no wakeup is lost and commands are answered in  *)
(* order, as long as none of the faults of MuxSession happened.            *)
(***************************************************************************)
EXTENDS MuxSession, FiniteSetTheorems, SequenceTheorems, TLAPS

\* Appending the next tag.
LEMMA NextTag ==
  ASSUME NEW n \in Nat
  PROVE  Append(Tags(n), n + 1) = Tags(n + 1) /\ Tags(n) \in Seq(Nat)
BY DEF Tags

\* The structures that replace freed ones.
LEMMA BlankTypes ==
  /\ Blank("CLOSED") \in Client /\ Blank("NEW") \in Client /\ NoConn \in Connection
  /\ Blank("CLOSED").state = "CLOSED" /\ Blank("CLOSED").ob = 0
  /\ NoConn.state = "NONE"
BY DEF Blank, Client, ClientStates, NoConn, Connection, Poll

\* A bundle and its parts.
LEMMA BundleFields ==
  ASSUME NEW s \in BundleType
  PROVE  /\ s.cl \in Client /\ s.cn \in Connection /\ s.ans \in Seq(Nat) /\ s.fault \in Faults
         /\ s.cl.state \in ClientStates /\ s.cl.events \in SUBSET Poll
         /\ s.cl.devents \in SUBSET Poll /\ s.cl.ib \in 0..1 /\ s.cl.ob \in Nat
         /\ s.cl.connect_tag \in Nat
         /\ s.cn.state \in {"NONE", "CONNECTING", "CONNECTED"}
         /\ s.cn.dev \in Devices \cup {NoDevice} /\ s.cn.events \in SUBSET Poll
BY Zenon DEF BundleType, Client, Connection

\* Queueing messages changes ob and events only.
LEMMA QueuedFields ==
  ASSUME NEW cl \in Client, NEW n \in Nat
  PROVE  LET r == Queued(cl, n)
         IN  /\ r \in Client /\ r.state = cl.state /\ r.devents = cl.devents
             /\ r.connect_tag = cl.connect_tag /\ r.ob = cl.ob + n
             /\ n > 0 => "POLLOUT" \in r.events
             /\ cl.events \subseteq r.events
<1> DEFINE r == Queued(cl, n)
<1>1. CASE n = 0
  BY <1>1 DEF Queued, Client
<1>2. CASE n # 0
  <2>1. PICK e \in SUBSET Poll : e = cl.events \cup {"POLLOUT"}
    BY Zenon DEF Client, Poll
  <2>2. PICK k \in Nat : k = cl.ob + n
    BY DEF Client
  <2>3. r = [cl EXCEPT !.ob = k, !.events = e]
    BY Zenon, <1>2, <2>1, <2>2 DEF Queued
  <2>4. /\ r \in Client /\ r.state = cl.state /\ r.devents = cl.devents
        /\ r.connect_tag = cl.connect_tag /\ r.ob = k /\ r.events = e
    BY Zenon, <2>3 DEF Client
  <2> QED
    BY Zenon, <2>1, <2>2, <2>4
<1> QED
  BY Zenon, <1>1, <1>2

\* A result is one message, and one tag more.
LEMMA SendResultFields ==
  ASSUME NEW s \in BundleType, NEW tag \in Nat, NEW r, r = send_result(s, tag)
  PROVE  /\ r \in BundleType /\ r.cn = s.cn /\ r.ans = Append(s.ans, tag) /\ r.fault = s.fault
         /\ r.cl.state = s.cl.state /\ r.cl.devents = s.cl.devents
         /\ r.cl.connect_tag = s.cl.connect_tag
         /\ r.cl.ob = s.cl.ob + 1 /\ r.cl.ob > 0 /\ "POLLOUT" \in r.cl.events
<1>1. s.cl \in Client /\ s.cl.ob \in Nat /\ s.ans \in Seq(Nat)
  BY Zenon DEF BundleType, Client
<1>0. PICK q : q = Queued(s.cl, 1)
  BY Zenon
<1>2. /\ q \in Client /\ q.state = s.cl.state /\ q.devents = s.cl.devents
      /\ q.connect_tag = s.cl.connect_tag /\ q.ob = s.cl.ob + 1 /\ "POLLOUT" \in q.events
  <2>1. PICK k \in Client : k = s.cl
    BY Zenon, <1>1
  <2>2. Queued(k, 1) \in Client
    BY Zenon, QueuedFields
  <2>3. /\ Queued(k, 1).state = k.state /\ Queued(k, 1).devents = k.devents
        /\ Queued(k, 1).connect_tag = k.connect_tag /\ Queued(k, 1).ob = k.ob + 1
        /\ "POLLOUT" \in Queued(k, 1).events
    BY QueuedFields
  <2> QED
    BY Zenon, <1>0, <2>1, <2>2, <2>3
<1>3. PICK a \in Seq(Nat) : a = Append(s.ans, tag)
  BY Zenon, <1>1, AppendProperties
<1>4. r = [s EXCEPT !.cl = q, !.ans = a]
  BY Zenon, <1>0, <1>3 DEF send_result
<1>5. /\ r \in BundleType /\ r.cn = s.cn /\ r.ans = a /\ r.fault = s.fault
      /\ r.cl = q
  BY Zenon, <1>2, <1>4 DEF BundleType
<1> QED
  BY <1>1, <1>2, <1>3, <1>5

\* A bundle in the middle of client_close or connection_teardown.
WideClient ==
  [state : ClientStates \cup {"DEAD"}, events : SUBSET Poll, devents : SUBSET Poll,
   ib : 0..1, ob : Nat, connect_tag : Nat]
WideConnection ==
  [state : {"NONE", "CONNECTING", "CONNECTED", "DEAD"}, dev : Devices \cup {NoDevice},
   events : SUBSET Poll]
WideType == [cl : WideClient, cn : WideConnection, ans : Seq(Nat), fault : Faults]

\* Every bundle is a wide one.
LEMMA Widen == BundleType \subseteq WideType
BY Zenon DEF BundleType, WideType, Client, WideClient, Connection, WideConnection

\* Freeing the client leaves the connection and the answers alone.
LEMMA FreeFields ==
  ASSUME NEW s \in WideType
  PROVE  /\ Free(s) \in WideType /\ Free(s).cl = Blank("CLOSED")
         /\ Free(s).cn = s.cn /\ Free(s).ans = s.ans
         /\ s.cl.state # "CLOSED" => Free(s).fault = s.fault
         /\ s.cl.state = "CLOSED" => Free(s).fault = "freed twice"
<1>1. Blank("CLOSED") \in WideClient
  BY DEF Blank, WideClient, ClientStates
<1>2. PICK f \in Faults : f = IF s.cl.state = "CLOSED" THEN "freed twice" ELSE s.fault
  BY Zenon DEF WideType, Faults
<1>3. Free(s) = [s EXCEPT !.cl = Blank("CLOSED"), !.fault = f]
  BY Zenon, <1>2 DEF Free
<1>4. /\ Free(s) \in WideType /\ Free(s).cl = Blank("CLOSED")
      /\ Free(s).cn = s.cn /\ Free(s).ans = s.ans /\ Free(s).fault = f
  <2>1. PICK b \in WideClient : b = Blank("CLOSED")
    BY Zenon, <1>1
  <2>2. Free(s) = [s EXCEPT !.cl = b, !.fault = f]
    BY Zenon, <1>3, <2>1
  <2> QED
    BY Zenon, <2>1, <2>2 DEF WideType
<1> QED
  BY Zenon, <1>2, <1>4

\* Dropping the connection.
LEMMA DropFields ==
  ASSUME NEW s \in WideType
  PROVE  LET r == [s EXCEPT !.cn = NoConn]
         IN  /\ r \in WideType /\ r.cn = NoConn /\ r.cl = s.cl /\ r.ans = s.ans /\ r.fault = s.fault
<1>1. PICK b \in WideConnection : b = NoConn
  BY Zenon DEF NoConn, WideConnection
<1> DEFINE r == [s EXCEPT !.cn = b]
<1>2. r \in WideType /\ r.cn = b /\ r.cl = s.cl /\ r.ans = s.ans /\ r.fault = s.fault
  BY Zenon DEF WideType
<1> QED
  BY Zenon, <1>1, <1>2

\* Marking the client and the connection on the way.
LEMMA MarkFields ==
  ASSUME NEW s \in WideType
  PROVE  /\ LET r == [s EXCEPT !.cl.state = "DEAD"]
            IN  /\ r \in WideType /\ r.cl.state = "DEAD"
                /\ r.cn = s.cn /\ r.ans = s.ans /\ r.fault = s.fault
         /\ LET r == [s EXCEPT !.cn.state = "DEAD"]
            IN  /\ r \in WideType /\ r.cl = s.cl /\ r.cn.state = "DEAD"
                /\ r.ans = s.ans /\ r.fault = s.fault
         /\ LET r == [s EXCEPT !.fault = "locked twice"]
            IN  /\ r \in WideType /\ r.cl = s.cl /\ r.cn = s.cn
                /\ r.ans = s.ans /\ r.fault = "locked twice"
<1>1. PICK a \in WideClient : a = [s.cl EXCEPT !.state = "DEAD"]
  <2>1. PICK k \in WideClient : k = s.cl
    BY Zenon DEF WideType
  <2> QED
    BY Zenon, <2>1 DEF WideClient
<1>2. a.state = "DEAD"
  <2>1. PICK k \in WideClient : k = s.cl
    BY Zenon DEF WideType
  <2> QED
    BY Zenon, <1>1, <2>1 DEF WideClient
<1>3. PICK b \in WideConnection : b = [s.cn EXCEPT !.state = "DEAD"] /\ b.state = "DEAD"
  <2>1. PICK k \in WideConnection : k = s.cn
    BY Zenon DEF WideType
  <2>2. [k EXCEPT !.state = "DEAD"] \in WideConnection /\ [k EXCEPT !.state = "DEAD"].state = "DEAD"
    BY Zenon DEF WideConnection
  <2> QED
    BY Zenon, <2>1, <2>2
<1>4. LET r == [s EXCEPT !.cl = a]
      IN  r \in WideType /\ r.cl = a /\ r.cn = s.cn /\ r.ans = s.ans /\ r.fault = s.fault
  BY Zenon DEF WideType
<1>5. LET r == [s EXCEPT !.cn = b]
      IN  r \in WideType /\ r.cl = s.cl /\ r.cn = b /\ r.ans = s.ans /\ r.fault = s.fault
  BY Zenon DEF WideType
<1>6. LET r == [s EXCEPT !.fault = "locked twice"]
      IN  /\ r \in WideType /\ r.cl = s.cl /\ r.cn = s.cn
          /\ r.ans = s.ans /\ r.fault = "locked twice"
  BY Zenon DEF WideType, Faults
<1> QED
  BY Zenon, <1>1, <1>2, <1>3, <1>4, <1>5, <1>6

\* What device_abort_connect leaves behind.
LEMMA AbortFields ==
  ASSUME NEW s \in WideType, NEW locked \in BOOLEAN
  PROVE  LET r == device_abort_connect(s, locked)
         IN  /\ r \in WideType /\ r.ans = s.ans
             /\ locked => r.cl = s.cl /\ r.fault = "locked twice"
             /\ ~locked /\ s.cn.state # "CONNECTED" => r.cl = s.cl /\ r.fault = s.fault
             /\ ~locked /\ s.cn.state = "CONNECTED" => r.cl = Blank("CLOSED")
             /\ ~locked /\ s.cn.state \in {"CONNECTING", "CONNECTED"} => r.cn = NoConn
             /\ ~locked /\ s.cn.state \in {"NONE", "DEAD"} => r.cn = s.cn
<1>0. s.cn.state \in {"NONE", "CONNECTING", "CONNECTED", "DEAD"}
  BY Zenon DEF WideType, WideConnection
<1>1. CASE locked
  <2>1. device_abort_connect(s, locked) = [s EXCEPT !.fault = "locked twice"]
    BY Zenon, <1>1 DEF device_abort_connect
  <2>2. LET r == [s EXCEPT !.fault = "locked twice"]
        IN  r \in WideType /\ r.cl = s.cl /\ r.ans = s.ans /\ r.fault = "locked twice"
    BY Zenon, MarkFields
  <2> QED
    BY Zenon, <1>1, <2>1, <2>2
<1>2. CASE ~locked /\ s.cn.state \in {"NONE", "DEAD"}
  <2>1. device_abort_connect(s, locked) = s
    BY Zenon, <1>2 DEF device_abort_connect
  <2> QED
    BY Zenon, <1>2, <2>1
<1>3. CASE ~locked /\ s.cn.state = "CONNECTING"
  <2>1. device_abort_connect(s, locked) = [s EXCEPT !.cn = NoConn]
    BY Zenon, <1>3 DEF device_abort_connect
  <2> QED
    BY Zenon, <1>3, <2>1, DropFields
<1>4. CASE ~locked /\ s.cn.state = "CONNECTED"
  <2>1. device_abort_connect(s, locked) = [Free(s) EXCEPT !.cn = NoConn]
    BY Zenon, <1>4 DEF device_abort_connect
  <2>2. PICK f \in WideType : f = Free(s)
    BY Zenon, FreeFields
  <2>3. LET r == [f EXCEPT !.cn = NoConn]
        IN  r \in WideType /\ r.cl = f.cl /\ r.ans = f.ans /\ r.cn = NoConn
    BY Zenon, DropFields
  <2> QED
    BY Zenon, <1>4, <2>1, <2>2, <2>3, FreeFields
<1> QED
  BY Zenon, <1>0, <1>1, <1>2, <1>3, <1>4

\* client_close frees the client and, if it was connecting and
\* device_list_mutex is free, its connection.
LEMMA CloseFields ==
  ASSUME NEW s \in WideType, NEW locked \in BOOLEAN
  PROVE  LET r == client_close(s, locked)
         IN  /\ r \in WideType /\ r.cl = Blank("CLOSED") /\ r.ans = s.ans
             /\ s.cl.state \notin Connecting => r.cn = s.cn
             /\ s.cl.state \in Connecting /\ ~locked =>
                  /\ s.cn.state \in {"CONNECTING", "CONNECTED"} => r.cn = NoConn
                  /\ s.cn.state \in {"NONE", "DEAD"} => r.cn = s.cn
<1>1. CASE s.cl.state \notin Connecting
  BY Zenon, <1>1, FreeFields DEF client_close
<1>2. CASE s.cl.state \in Connecting
  <2>1. PICK d \in WideType : d = [s EXCEPT !.cl.state = "DEAD"]
    BY Zenon, MarkFields
  <2>2. d.cl.state = "DEAD" /\ d.cn = s.cn /\ d.ans = s.ans /\ d.fault = s.fault
    BY Zenon, <2>1, MarkFields
  <2>3. PICK a \in WideType : a = device_abort_connect(d, locked)
    BY Zenon, AbortFields
  <2>4. /\ a.ans = d.ans
        /\ locked => a.cl = d.cl /\ a.fault = "locked twice"
        /\ ~locked /\ d.cn.state # "CONNECTED" => a.cl = d.cl /\ a.fault = d.fault
        /\ ~locked /\ d.cn.state = "CONNECTED" => a.cl = Blank("CLOSED")
        /\ ~locked /\ d.cn.state \in {"CONNECTING", "CONNECTED"} => a.cn = NoConn
        /\ ~locked /\ d.cn.state \in {"NONE", "DEAD"} => a.cn = d.cn
    BY Zenon, <2>3, AbortFields
  <2>5. client_close(s, locked) = Free(a)
    BY Zenon, <1>2, <2>1, <2>3 DEF client_close
  <2>6. /\ Free(a) \in WideType /\ Free(a).cl = Blank("CLOSED")
        /\ Free(a).cn = a.cn /\ Free(a).ans = a.ans
        /\ a.cl.state # "CLOSED" => Free(a).fault = a.fault
        /\ a.cl.state = "CLOSED" => Free(a).fault = "freed twice"
    BY Zenon, FreeFields
  <2> QED
    BY Zenon, <1>2, <2>2, <2>4, <2>5, <2>6, BlankTypes
<1> QED
  BY Zenon, <1>1, <1>2

\* A wide bundle between two steps.
LEMMA Narrow ==
  ASSUME NEW s \in WideType, s.cl \in Client, s.cn \in Connection
  PROVE  s \in BundleType
BY Zenon DEF BundleType, WideType

\* A freed client without a connection.
LEMMA ClosedConsistent ==
  ASSUME NEW s \in WideType, NEW n, s.cl = Blank("CLOSED"), s.cn = NoConn
  PROVE  s \in BundleType /\ Consistent(s, n)
<1>1. s \in BundleType
  BY Zenon, BlankTypes, Narrow
<1>2. s.cl.state = "CLOSED" /\ s.cl.ob = 0 /\ s.cn.state = "NONE"
  BY Zenon, BlankTypes
<1> QED
  BY <1>1, <1>2 DEF Consistent

\* The two outcomes of a connect.
LEMMA NotifyFields ==
  ASSUME NEW s \in BundleType, NEW ok \in BOOLEAN, s.cl.state = "CONNECTING1"
  PROVE  LET r == client_notify_connect(s, ok)
         IN  /\ r \in BundleType /\ r.cn = s.cn /\ r.fault = s.fault
             /\ r.ans = Append(s.ans, s.cl.connect_tag)
             /\ r.cl.ob > 0 /\ "POLLOUT" \in r.cl.events /\ r.cl.devents = s.cl.devents
             /\ r.cl.state = IF ok THEN "CONNECTING2" ELSE "COMMAND"
<1>1. PICK t \in Nat : t = s.cl.connect_tag
  BY Zenon, BundleFields
<1>2. PICK q : q = send_result(s, t)
  BY Zenon
<1>3. /\ q \in BundleType /\ q.cn = s.cn /\ q.ans = Append(s.ans, t) /\ q.fault = s.fault
      /\ q.cl.devents = s.cl.devents
      /\ q.cl.ob > 0 /\ "POLLOUT" \in q.cl.events
  BY Zenon, <1>2, SendResultFields
<1>4. PICK k \in Client : k = q.cl
  BY Zenon, <1>3, BundleFields
<1>5. CASE ok
  <2>1. PICK e \in SUBSET Poll : e = {"POLLOUT"}
    BY Zenon DEF Poll
  <2>2. PICK j : j = [k EXCEPT !.state = "CONNECTING2", !.events = e]
    BY Zenon
  <2>3. /\ j \in Client /\ j.state = "CONNECTING2" /\ j.events = e
        /\ j.devents = k.devents /\ j.ob = k.ob
    BY Zenon, <2>2 DEF Client, ClientStates
  <2>4. client_notify_connect(s, ok) = [q EXCEPT !.cl = j]
    BY Zenon, <1>1, <1>2, <1>4, <1>5, <2>1, <2>2 DEF client_notify_connect
  <2>5. LET r == [q EXCEPT !.cl = j]
        IN  r \in BundleType /\ r.cl = j /\ r.cn = q.cn /\ r.ans = q.ans /\ r.fault = q.fault
    BY Zenon, <1>3, <2>3 DEF BundleType
  <2> QED
    BY Zenon, <1>1, <1>3, <1>4, <1>5, <2>1, <2>3, <2>4, <2>5
<1>6. CASE ~ok
  <2>2. PICK j : j = [k EXCEPT !.state = "COMMAND"]
    BY Zenon
  <2>3. /\ j \in Client /\ j.state = "COMMAND" /\ j.events = k.events
        /\ j.devents = k.devents /\ j.ob = k.ob
    BY Zenon, <2>2 DEF Client, ClientStates
  <2>4. client_notify_connect(s, ok) = [q EXCEPT !.cl = j]
    BY Zenon, <1>1, <1>2, <1>4, <1>6, <2>2 DEF client_notify_connect
  <2>5. LET r == [q EXCEPT !.cl = j]
        IN  r \in BundleType /\ r.cl = j /\ r.cn = q.cn /\ r.ans = q.ans /\ r.fault = q.fault
    BY Zenon, <1>3, <2>3 DEF BundleType
  <2> QED
    BY Zenon, <1>1, <1>3, <1>4, <1>6, <2>3, <2>4, <2>5
<1> QED
  BY Zenon, <1>5, <1>6

\* connection_teardown leaves no connection, and a client that is closed or
\* takes commands again.
LEMMA TeardownConsistent ==
  ASSUME NEW s \in BundleType, NEW n \in Nat, Consistent(s, n), NEW locked \in BOOLEAN,
         s.cn.state # "NONE"
  PROVE  LET r == connection_teardown(s, locked)
         IN  /\ r \in BundleType /\ r.cn = NoConn /\ r.cl.state \in {"COMMAND", "CLOSED"}
             /\ r.fault = "none" => Consistent(r, n)
             /\ s.cn.state = "CONNECTED" => r.cl.state = "CLOSED" /\ r.ans = s.ans
<1>1. CASE s.cn.state = "CONNECTING"
  <2>1. s.cl.state = "CONNECTING1" /\ n > 0 /\ s.cl.connect_tag = n /\ s.ans = Tags(n - 1)
    BY Zenon, <1>1 DEF Consistent
  <2>2. PICK q : q = client_notify_connect(s, FALSE)
    BY Zenon
  <2>3. /\ q \in BundleType /\ q.ans = Append(s.ans, s.cl.connect_tag)
        /\ q.cl.ob > 0 /\ "POLLOUT" \in q.cl.events /\ q.cl.state = "COMMAND"
    BY Zenon, <2>1, <2>2, NotifyFields
  <2>4. Append(Tags(n - 1), n) = Tags(n)
    <3>1. PICK m \in Nat : m = n - 1 /\ n = m + 1
      BY <2>1
    <3>2. Append(Tags(m), m + 1) = Tags(m + 1)
      BY Zenon, NextTag
    <3> QED
      BY Zenon, <3>1, <3>2
  <2>5. PICK r : r = [q EXCEPT !.cn = NoConn]
    BY Zenon
  <2>6. r \in WideType /\ r.cn = NoConn /\ r.cl = q.cl /\ r.ans = q.ans /\ r.fault = q.fault
    BY Zenon, <2>3, <2>5, Widen, DropFields
  <2>7. r \in BundleType
    BY Zenon, <2>3, <2>6, Narrow, BundleFields, BlankTypes
  <2>8. Consistent(r, n)
    BY Zenon, <2>1, <2>3, <2>4, <2>6, BlankTypes DEF Consistent
  <2> QED
    BY Zenon, <1>1, <2>2, <2>3, <2>5, <2>6, <2>7, <2>8 DEF connection_teardown
<1>2. CASE s.cn.state = "CONNECTED"
  <2>1. PICK d \in WideType : d = [s EXCEPT !.cn.state = "DEAD"]
    BY Zenon, Widen, MarkFields
  <2>2. d.ans = s.ans
    BY Zenon, <2>1, Widen, MarkFields
  <2>3. PICK q \in WideType : q = client_close(d, locked)
    BY Zenon, CloseFields
  <2>4. q.cl = Blank("CLOSED") /\ q.ans = d.ans
    BY Zenon, <2>3, CloseFields
  <2>5. PICK r : r = [q EXCEPT !.cn = NoConn]
    BY Zenon
  <2>6. r \in WideType /\ r.cn = NoConn /\ r.cl = q.cl /\ r.ans = q.ans /\ r.fault = q.fault
    BY Zenon, <2>5, DropFields
  <2>7. r \in BundleType /\ Consistent(r, n)
    BY Zenon, <2>4, <2>6, ClosedConsistent
  <2>8. connection_teardown(s, locked) = r
    BY Zenon, <1>2, <2>1, <2>3, <2>5 DEF connection_teardown
  <2> QED
    BY Zenon, <1>2, <2>2, <2>4, <2>6, <2>7, <2>8, BlankTypes
<1> QED
  BY Zenon, <1>1, <1>2, BundleFields

\* What client_set_events changes.
LEMMA SetEventsFields ==
  ASSUME NEW s \in BundleType, NEW m \in SUBSET Poll
  PROVE  LET r == client_set_events(s, m)
         IN  /\ r \in BundleType /\ r.ans = s.ans /\ r.fault = s.fault
             /\ r.cl.state = s.cl.state /\ r.cl.ob = s.cl.ob
             /\ r.cl.connect_tag = s.cl.connect_tag
             /\ s.cl.state = "CONNECTED" => r.cl.events = m
             /\ s.cl.state # "CONNECTED" => r.cl.events = s.cl.events
             /\ s.cl.state \in {"CONNECTING2", "CONNECTED"} => r.cl.devents = m
             /\ r.cn.state = s.cn.state /\ r.cn.dev = s.cn.dev /\ r.cn.events = m
<1>1. PICK k \in Client : k = s.cl
  BY Zenon, BundleFields
<1>2. PICK j \in Connection : j = s.cn
  BY Zenon, BundleFields
<1>3. PICK d \in SUBSET Poll :
        d = IF k.state \in {"CONNECTING2", "CONNECTED"} THEN m ELSE k.devents
  BY Zenon DEF Client
<1>4. PICK e \in SUBSET Poll : e = IF k.state = "CONNECTED" THEN m ELSE k.events
  BY Zenon DEF Client
<1>5. PICK a : a = [k EXCEPT !.devents = d, !.events = e]
  BY Zenon
<1>6. /\ a \in Client /\ a.state = k.state /\ a.ob = k.ob /\ a.connect_tag = k.connect_tag
      /\ a.events = e /\ a.devents = d
  BY Zenon, <1>5 DEF Client
<1>7. PICK b : b = [j EXCEPT !.events = m]
  BY Zenon
<1>8. b \in Connection /\ b.state = j.state /\ b.dev = j.dev /\ b.events = m
  BY Zenon, <1>7 DEF Connection
<1>9. PICK r : r = [s EXCEPT !.cn = b, !.cl = a]
  BY Zenon
<1>10. r \in BundleType /\ r.cl = a /\ r.cn = b /\ r.ans = s.ans /\ r.fault = s.fault
  BY Zenon, <1>6, <1>8, <1>9 DEF BundleType
<1>11. r = client_set_events(s, m)
  BY Zenon, <1>1, <1>2, <1>3, <1>4, <1>5, <1>7, <1>9 DEF client_set_events
<1> QED
  BY SMTT(40), <1>1, <1>2, <1>3, <1>4, <1>6, <1>8, <1>10, <1>11

\* A new mask for an established connection.
LEMMA SetEventsConsistent ==
  ASSUME NEW s \in BundleType, NEW n \in Nat, Consistent(s, n), s.cn.state = "CONNECTED",
         NEW m \in SUBSET Poll
  PROVE  Consistent(client_set_events(s, m), n)
<1>1. PICK r : r = client_set_events(s, m)
  BY Zenon
<1>2. /\ r \in BundleType /\ r.ans = s.ans /\ r.fault = s.fault
      /\ r.cl.state = s.cl.state /\ r.cl.ob = s.cl.ob
      /\ r.cl.connect_tag = s.cl.connect_tag
      /\ s.cl.state = "CONNECTED" => r.cl.events = m
      /\ s.cl.state # "CONNECTED" => r.cl.events = s.cl.events
      /\ s.cl.state \in {"CONNECTING2", "CONNECTED"} => r.cl.devents = m
      /\ r.cn.state = s.cn.state /\ r.cn.dev = s.cn.dev /\ r.cn.events = m
  BY <1>1, SetEventsFields
<1>3. s.cl.state \in {"CONNECTING2", "CONNECTED"} /\ s.cn.dev \in Devices
  BY Zenon DEF Consistent
<1>4. /\ s.cl.state = "CONNECTED" => s.cl.ob = 0
      /\ s.cl.state = "CONNECTING2" => s.cl.ob > 0
      /\ s.cl.ob > 0 => "POLLOUT" \in s.cl.events
      /\ s.ans = Tags(n)
  BY Zenon, <1>3 DEF Consistent
<1>5. r.cl.ob > 0 => "POLLOUT" \in r.cl.events
  BY <1>2, <1>3, <1>4
<1> QED
  BY Zenon, <1>1, <1>2, <1>3, <1>4, <1>5 DEF Consistent

\* The SYN+ACK: the connection is established and the client is told.
LEMMA EstablishConsistent ==
  ASSUME NEW s \in BundleType, NEW n \in Nat, Consistent(s, n), s.cn.state = "CONNECTING",
         NEW m \in SUBSET Poll
  PROVE  LET r == client_set_events(
                    client_notify_connect([s EXCEPT !.cn.state = "CONNECTED"], TRUE), m)
         IN  /\ r \in BundleType /\ Consistent(r, n) /\ r.fault = s.fault
             /\ r.cn.dev = s.cn.dev
<1>1. /\ s.cl.state = "CONNECTING1" /\ n > 0 /\ s.cl.connect_tag = n /\ s.ans = Tags(n - 1)
      /\ s.cn.dev \in Devices
  BY Zenon DEF Consistent
<1>2. PICK j \in Connection : j = s.cn
  BY Zenon, BundleFields
<1>3. PICK b : b = [j EXCEPT !.state = "CONNECTED"]
  BY Zenon
<1>4. b \in Connection /\ b.state = "CONNECTED" /\ b.dev = j.dev
  BY Zenon, <1>3 DEF Connection
<1>5. PICK q : q = [s EXCEPT !.cn = b]
  BY Zenon
<1>6. q \in BundleType /\ q.cl = s.cl /\ q.cn = b /\ q.ans = s.ans /\ q.fault = s.fault
  BY Zenon, <1>4, <1>5 DEF BundleType
<1>7. q = [s EXCEPT !.cn.state = "CONNECTED"]
  BY Zenon, <1>2, <1>3, <1>5
<1>8. PICK p : p = client_notify_connect(q, TRUE)
  BY Zenon
<1>9. /\ p \in BundleType /\ p.cn = b /\ p.fault = s.fault /\ p.ans = Append(s.ans, n)
      /\ p.cl.ob > 0 /\ "POLLOUT" \in p.cl.events /\ p.cl.state = "CONNECTING2"
  <2>1. q.cl.state = "CONNECTING1"
    BY Zenon, <1>1, <1>6
  <2>2. LET r == client_notify_connect(q, TRUE)
        IN  /\ r \in BundleType /\ r.cn = q.cn /\ r.fault = q.fault
            /\ r.ans = Append(q.ans, q.cl.connect_tag)
            /\ r.cl.ob > 0 /\ "POLLOUT" \in r.cl.events /\ r.cl.state = "CONNECTING2"
    BY Zenon, <1>6, <2>1, NotifyFields
  <2> QED
    BY Zenon, <1>1, <1>6, <1>8, <2>2
<1>10. p.ans = Tags(n)
  <2>1. PICK k \in Nat : k = n - 1 /\ n = k + 1
    BY <1>1
  <2>2. Append(Tags(k), k + 1) = Tags(k + 1)
    BY Zenon, NextTag
  <2> QED
    BY Zenon, <1>1, <1>9, <2>1, <2>2
<1>11. PICK r : r = client_set_events(p, m)
  BY Zenon
<1>12. /\ r \in BundleType /\ r.ans = p.ans /\ r.fault = p.fault
       /\ r.cl.state = p.cl.state /\ r.cl.ob = p.cl.ob /\ r.cl.events = p.cl.events
       /\ r.cl.devents = m /\ r.cn.state = b.state /\ r.cn.dev = b.dev /\ r.cn.events = m
  BY SMTT(40), <1>9, <1>11, SetEventsFields
<1>13. Consistent(r, n)
  BY Zenon, <1>1, <1>2, <1>4, <1>9, <1>10, <1>12 DEF Consistent
<1> QED
  BY Zenon, <1>2, <1>4, <1>7, <1>8, <1>9, <1>11, <1>12, <1>13

\* What a step does to the bundle s of a client that has sent m commands after
\* it: either a fault, or a consistent bundle; and a stream stays a stream.
Kept(s, r, m) ==
  /\ r \in BundleType
  /\ r.fault = "none" => Consistent(r, m)
  /\ s.cl.state \in {"CONNECTING2", "CONNECTED"} =>
       r.cl.state \in {s.cl.state, "CONNECTED", "CLOSED"} /\ r.ans = s.ans

\* client_close of a client that carries no data.
LEMMA CloseConsistent ==
  ASSUME NEW s \in BundleType, NEW n,
         s.cl.state # "CONNECTED", s.cl.state \notin Connecting => s.cn = NoConn,
         s.cl.state \in Connecting => s.cn.state \in {"CONNECTING", "CONNECTED"}
  PROVE  LET r == client_close(s, FALSE)
         IN  /\ r \in BundleType /\ Consistent(r, n) /\ r.cn = NoConn
             /\ r.cl.state = "CLOSED" /\ r.ans = s.ans
<1>1. PICK w \in WideType : w = s
  BY Zenon, Widen
<1>2. LET r == client_close(w, FALSE)
      IN  /\ r \in WideType /\ r.cl = Blank("CLOSED") /\ r.ans = w.ans
          /\ w.cl.state \notin Connecting => r.cn = w.cn
          /\ w.cl.state \in Connecting =>
               (w.cn.state \in {"CONNECTING", "CONNECTED"} => r.cn = NoConn)
  BY Zenon, CloseFields
<1>3. PICK r \in WideType : r = client_close(s, FALSE)
  BY Zenon, <1>1, <1>2
<1>4. r.cl = Blank("CLOSED") /\ r.cn = NoConn /\ r.ans = s.ans
  BY Zenon, <1>1, <1>2, <1>3
<1>5. r \in BundleType /\ Consistent(r, n)
  BY Zenon, <1>4, ClosedConsistent
<1> QED
  BY Zenon, <1>3, <1>4, <1>5, BlankTypes

\* The same in a consistent bundle.
LEMMA CloseKept ==
  ASSUME NEW s \in BundleType, NEW n, NEW m, Consistent(s, n), s.cl.state # "CONNECTED"
  PROVE  Kept(s, client_close(s, FALSE), m) /\ client_close(s, FALSE).cn = NoConn
<1>1. /\ s.cl.state \notin Connecting => s.cn = NoConn
      /\ s.cl.state \in Connecting => s.cn.state \in {"CONNECTING", "CONNECTED"}
  BY Zenon, BundleFields DEF Consistent, Connecting
<1>2. LET r == client_close(s, FALSE)
      IN  /\ r \in BundleType /\ Consistent(r, m) /\ r.cn = NoConn
          /\ r.cl.state = "CLOSED" /\ r.ans = s.ans
  BY Zenon, <1>1, CloseConsistent
<1> QED
  BY Zenon, <1>2 DEF Kept

\* Replacing the client of a bundle.
LEMMA WithClient ==
  ASSUME NEW s \in BundleType, NEW k \in Client
  PROVE  LET r == [s EXCEPT !.cl = k]
         IN  r \in BundleType /\ r.cl = k /\ r.cn = s.cn /\ r.ans = s.ans /\ r.fault = s.fault
BY Zenon DEF BundleType

\* A step that changes the buffers of a client and not its state.
LEMMA BuffersKept ==
  ASSUME NEW s \in BundleType, NEW n \in Nat, Consistent(s, n), NEW k \in Client,
         k.state = s.cl.state, k.devents = s.cl.devents, k.connect_tag = s.cl.connect_tag,
         k.ob > 0 => "POLLOUT" \in k.events,
         k.state # "CONNECTED", k.state = "CONNECTING2" => k.ob > 0
  PROVE  LET r == [s EXCEPT !.cl = k]
         IN  Kept(s, r, n) /\ r.cn = s.cn /\ r.fault = s.fault
<1>1. PICK r : r = [s EXCEPT !.cl = k]
  BY Zenon
<1>2. r \in BundleType /\ r.cl = k /\ r.cn = s.cn /\ r.ans = s.ans /\ r.fault = s.fault
  BY Zenon, <1>1, WithClient
<1>3. Consistent(r, n)
  BY Zenon, <1>2 DEF Consistent
<1> QED
  BY Zenon, <1>1, <1>2, <1>3 DEF Kept

\* connection_teardown, as a step.
LEMMA TeardownKept ==
  ASSUME NEW s \in BundleType, NEW n \in Nat, Consistent(s, n), NEW locked \in BOOLEAN,
         s.cn.state # "NONE"
  PROVE  LET r == connection_teardown(s, locked)
         IN  Kept(s, r, n) /\ r.cn = NoConn /\ r.cl.state \in {"COMMAND", "CLOSED"}
<1>1. s.cl.state \in {"CONNECTING2", "CONNECTED"} => s.cn.state = "CONNECTED"
  BY Zenon DEF Consistent
<1>2. LET r == connection_teardown(s, locked)
      IN  /\ r \in BundleType /\ r.cn = NoConn /\ r.cl.state \in {"COMMAND", "CLOSED"}
          /\ r.fault = "none" => Consistent(r, n)
          /\ s.cn.state = "CONNECTED" => r.cl.state = "CLOSED" /\ r.ans = s.ans
  BY Zenon, TeardownConsistent
<1> QED
  BY Zenon, <1>1, <1>2 DEF Kept

\* client_set_events, as a step.
LEMMA SetEventsKept ==
  ASSUME NEW s \in BundleType, NEW n \in Nat, Consistent(s, n), s.cn.state = "CONNECTED",
         NEW m \in SUBSET Poll
  PROVE  /\ Kept(s, client_set_events(s, m), n)
         /\ client_set_events(s, m).cn.dev = s.cn.dev
         /\ client_set_events(s, m).fault = s.fault
<1>1. LET r == client_set_events(s, m)
      IN  /\ r \in BundleType /\ r.ans = s.ans /\ r.fault = s.fault
          /\ r.cl.state = s.cl.state /\ r.cn.dev = s.cn.dev
  BY SetEventsFields
<1>2. Consistent(client_set_events(s, m), n)
  BY Zenon, SetEventsConsistent
<1> QED
  BY Zenon, <1>1, <1>2 DEF Kept

\* process_send: nothing to send, all written, or a part written.
LEMMA SendKept ==
  ASSUME NEW s \in BundleType, NEW n \in Nat, Consistent(s, n), s.cl.state # "CONNECTED"
  PROVE  /\ s.cl.ob = 0 =>
              LET r == [s EXCEPT !.cl.events = @ \ {"POLLOUT"}]
              IN  Kept(s, r, n) /\ r.cn = s.cn
         /\ s.cl.ob > 0 => Kept(s, Flushed(s), n) /\ Flushed(s).cn = s.cn
         /\ \A i \in 1..s.cl.ob :
              LET r == [s EXCEPT !.cl.ob = i]
              IN  Kept(s, r, n) /\ r.cn = s.cn
<1>1. PICK k \in Client : k = s.cl
  BY Zenon, BundleFields
<1>2. /\ k.ob \in Nat
      /\ k.ob > 0 => "POLLOUT" \in k.events
      /\ k.state = "CONNECTING2" => k.ob > 0
  BY Zenon, <1>1, BundleFields DEF Consistent
<1>3. ASSUME s.cl.ob = 0
      PROVE  LET r == [s EXCEPT !.cl.events = @ \ {"POLLOUT"}]
             IN  Kept(s, r, n) /\ r.cn = s.cn
  <2>1. PICK e \in SUBSET Poll : e = k.events \ {"POLLOUT"}
    BY Zenon DEF Client
  <2>2. PICK j : j = [k EXCEPT !.events = e]
    BY Zenon
  <2>3. /\ j \in Client /\ j.state = k.state /\ j.devents = k.devents
        /\ j.connect_tag = k.connect_tag /\ j.ob = k.ob
    BY Zenon, <2>2 DEF Client
  <2>4. ~(j.ob > 0) /\ j.state # "CONNECTING2"
    BY <1>1, <1>2, <1>3, <2>3
  <2>5. LET r == [s EXCEPT !.cl = j] IN Kept(s, r, n) /\ r.cn = s.cn
    BY Zenon, <1>1, <2>3, <2>4, BuffersKept
  <2>6. [s EXCEPT !.cl = j] = [s EXCEPT !.cl.events = @ \ {"POLLOUT"}]
    BY Zenon, <1>1, <2>1, <2>2
  <2> QED
    BY Zenon, <2>5, <2>6
<1>4. ASSUME s.cl.ob > 0, s.cl.state = "CONNECTING2"
      PROVE  Kept(s, Flushed(s), n) /\ Flushed(s).cn = s.cn
  <2>1. PICK e \in SUBSET Poll : e = k.devents
    BY Zenon DEF Client
  <2>2. PICK j : j = [k EXCEPT !.ob = 0, !.state = "CONNECTED", !.events = e]
    BY Zenon
  <2>3. j \in Client /\ j.state = "CONNECTED" /\ j.events = e /\ j.ob = 0
    BY Zenon, <2>2 DEF Client, ClientStates
  <2>4. Flushed(s) = [s EXCEPT !.cl = j]
    BY Zenon, <1>1, <1>4, <2>1, <2>2 DEF Flushed
  <2>5. PICK r : r = Flushed(s)
    BY Zenon
  <2>6. r \in BundleType /\ r.cl = j /\ r.cn = s.cn /\ r.ans = s.ans /\ r.fault = s.fault
    BY SMTT(40), <2>3, <2>4, <2>5, WithClient
  <2>7. Consistent(r, n)
    BY SMTT(40), <1>1, <1>4, <2>1, <2>3, <2>6 DEF Consistent
  <2> QED
    BY Zenon, <1>4, <2>3, <2>5, <2>6, <2>7 DEF Kept
<1>5. ASSUME s.cl.ob > 0, s.cl.state # "CONNECTING2"
      PROVE  Kept(s, Flushed(s), n) /\ Flushed(s).cn = s.cn
  <2>1. PICK e \in SUBSET Poll : e = k.events \ {"POLLOUT"}
    BY Zenon DEF Client
  <2>2. PICK j : j = [k EXCEPT !.ob = 0, !.events = e]
    BY Zenon
  <2>3. /\ j \in Client /\ j.state = k.state /\ j.devents = k.devents
        /\ j.connect_tag = k.connect_tag /\ j.ob = 0
    BY Zenon, <2>2 DEF Client
  <2>4. ~(j.ob > 0) /\ j.state # "CONNECTING2"
    BY <1>1, <1>5, <2>3
  <2>5. LET r == [s EXCEPT !.cl = j] IN Kept(s, r, n) /\ r.cn = s.cn
    BY Zenon, <1>1, <2>3, <2>4, BuffersKept
  <2>6. [s EXCEPT !.cl = j] = Flushed(s)
    BY Zenon, <1>1, <1>5, <2>1, <2>2 DEF Flushed
  <2> QED
    BY Zenon, <2>5, <2>6
<1>6. ASSUME NEW i \in 1..s.cl.ob
      PROVE  LET r == [s EXCEPT !.cl.ob = i] IN Kept(s, r, n) /\ r.cn = s.cn
  <2>1. i \in Nat /\ i > 0 /\ k.ob > 0
    <3>1. PICK o \in Nat : o = k.ob
      BY Zenon, <1>2
    <3>2. i \in 1..o
      BY Zenon, <1>1, <3>1
    <3>3. i \in Nat /\ i > 0 /\ o > 0
      BY <3>2
    <3> QED
      BY Zenon, <3>1, <3>3
  <2>2. PICK j : j = [k EXCEPT !.ob = i]
    BY Zenon
  <2>3. /\ j \in Client /\ j.state = k.state /\ j.devents = k.devents
        /\ j.connect_tag = k.connect_tag /\ j.ob = i /\ j.events = k.events
    BY Zenon, <2>1, <2>2 DEF Client
  <2>4. /\ j.state = s.cl.state /\ j.devents = s.cl.devents /\ j.connect_tag = s.cl.connect_tag
        /\ j.ob > 0 => "POLLOUT" \in j.events
        /\ j.state # "CONNECTED"
        /\ j.state = "CONNECTING2" => j.ob > 0
    BY Zenon, <1>1, <1>2, <2>1, <2>3
  <2>5. LET r == [s EXCEPT !.cl = j] IN Kept(s, r, n) /\ r.cn = s.cn
    BY Zenon, <2>3, <2>4, BuffersKept
  <2>6. [s EXCEPT !.cl = j] = [s EXCEPT !.cl.ob = i]
    BY Zenon, <1>1, <2>2
  <2> QED
    BY Zenon, <2>5, <2>6
<1> QED
  BY Zenon, <1>3, <1>4, <1>5, <1>6

\* Reading a header, and emptying ib_buf.
LEMMA InputKept ==
  ASSUME NEW s \in BundleType, NEW n \in Nat, Consistent(s, n), s.cl.state # "CONNECTED",
         NEW i \in 0..1
  PROVE  LET r == [s EXCEPT !.cl.ib = i]
         IN  Kept(s, r, n) /\ r.cn = s.cn /\ r.fault = s.fault
<1>1. PICK k \in Client : k = s.cl
  BY Zenon, BundleFields
<1>2. /\ k.ob \in Nat
      /\ k.ob > 0 => "POLLOUT" \in k.events
      /\ k.state = "CONNECTING2" => k.ob > 0
  BY Zenon, <1>1, BundleFields DEF Consistent
<1>3. PICK j : j = [k EXCEPT !.ib = i]
  BY Zenon
<1>4. /\ j \in Client /\ j.state = k.state /\ j.devents = k.devents
      /\ j.connect_tag = k.connect_tag /\ j.ob = k.ob /\ j.events = k.events
  BY Zenon, <1>3 DEF Client
<1>5. /\ j.state = s.cl.state /\ j.devents = s.cl.devents /\ j.connect_tag = s.cl.connect_tag
      /\ j.ob > 0 => "POLLOUT" \in j.events
      /\ j.state # "CONNECTED"
      /\ j.state = "CONNECTING2" => j.ob > 0
  BY Zenon, <1>1, <1>2, <1>4
<1>6. LET r == [s EXCEPT !.cl = j] IN Kept(s, r, n) /\ r.cn = s.cn /\ r.fault = s.fault
  BY Zenon, <1>4, <1>5, BuffersKept
<1>7. [s EXCEPT !.cl = j] = [s EXCEPT !.cl.ib = i]
  BY Zenon, <1>1, <1>3
<1> QED
  BY Zenon, <1>6, <1>7

\* A result for the next command, in the state that takes commands.
LEMMA AnswerConsistent ==
  ASSUME NEW s \in BundleType, NEW n \in Nat, Consistent(s, n), s.cl.state = "COMMAND"
  PROVE  LET r == send_result(s, n + 1)
         IN  /\ r \in BundleType /\ Consistent(r, n + 1) /\ r.cn = NoConn
             /\ r.fault = s.fault /\ r.cl.state = "COMMAND"
<1>1. PICK t \in Nat : t = n + 1
  OBVIOUS
<1>2. PICK r : r = send_result(s, t)
  BY Zenon
<1> t \in Nat
  BY Zenon, <1>1
<1>3. /\ r \in BundleType /\ r.cn = s.cn /\ r.ans = Append(s.ans, t) /\ r.fault = s.fault
      /\ r.cl.state = s.cl.state /\ r.cl.ob > 0 /\ "POLLOUT" \in r.cl.events
  <2>1. r \in BundleType /\ r.cn = s.cn /\ r.ans = Append(s.ans, t) /\ r.fault = s.fault
    BY ZenonT(40), <1>2, SendResultFields
  <2>2. r.cl.state = s.cl.state /\ r.cl.ob > 0 /\ "POLLOUT" \in r.cl.events
    BY ZenonT(40), <1>2, SendResultFields
  <2> QED BY Zenon, <2>1, <2>2
<1>4. s.ans = Tags(n) /\ s.cn = NoConn
  BY Zenon, BundleFields DEF Consistent
<1>5. r.ans = Tags(t)
  BY Zenon, <1>1, <1>3, <1>4, NextTag
<1>6. Consistent(r, t)
  BY Zenon, <1>3, <1>4, <1>5, BlankTypes DEF Consistent
<1> QED
  BY Zenon, <1>1, <1>2, <1>3, <1>4, <1>6

\* Queueing messages for a client that has no connection.
LEMMA SendKeeps ==
  ASSUME NEW s \in BundleType, NEW n \in Nat, Consistent(s, n),
         s.cl.state \in {"COMMAND", "LISTEN"}, NEW i \in Nat
  PROVE  LET r == send_pkt(s, i)
         IN  Kept(s, r, n) /\ r.cn = s.cn /\ r.fault = s.fault /\ r.cl.state = s.cl.state
<1>1. PICK k \in Client : k = s.cl
  BY Zenon, BundleFields
<1>2. PICK j : j = Queued(k, i)
  BY Zenon
<1>3. /\ j \in Client /\ j.state = k.state /\ j.devents = k.devents
      /\ j.connect_tag = k.connect_tag /\ j.ob = k.ob + i
      /\ i > 0 => "POLLOUT" \in j.events
      /\ k.events \subseteq j.events
  BY Zenon, <1>2, QueuedFields
<1>4. j.ob > 0 => "POLLOUT" \in j.events
  <2>1. k.ob \in Nat
    BY Zenon DEF Client
  <2>2. k.ob > 0 => "POLLOUT" \in k.events
    BY Zenon, <1>1 DEF Consistent
  <2>3. j.ob > 0 => k.ob > 0 \/ i > 0
    BY <1>3, <2>1
  <2> QED
    BY Zenon, <1>3, <2>2, <2>3
<1>5. /\ j.state = s.cl.state /\ j.devents = s.cl.devents /\ j.connect_tag = s.cl.connect_tag
      /\ j.state # "CONNECTED"
      /\ j.state # "CONNECTING2"
  BY Zenon, <1>1, <1>3
<1>6. LET r == [s EXCEPT !.cl = j] IN Kept(s, r, n) /\ r.cn = s.cn /\ r.fault = s.fault
  BY Zenon, <1>3, <1>4, <1>5, BuffersKept
<1>7. LET r == [s EXCEPT !.cl = j] IN r.cl = j
  BY Zenon, <1>3, WithClient
<1>8. [s EXCEPT !.cl = j] = send_pkt(s, i)
  BY Zenon, <1>1, <1>2 DEF send_pkt
<1> QED
  BY Zenon, <1>5, <1>6, <1>7, <1>8

\* Listen: the state, then one message per device.
LEMMA ListenConsistent ==
  ASSUME NEW s \in BundleType, NEW n \in Nat, Consistent(s, n), s.cl.state = "COMMAND"
  PROVE  LET r == start_listen(s)
         IN  /\ r \in BundleType /\ r.cn = NoConn /\ r.cl.state = "LISTEN"
             /\ r.fault = "none" => Consistent(r, n)
<1>1. PICK k \in Client : k = s.cl
  BY Zenon, BundleFields
<1>2. PICK j : j = [k EXCEPT !.state = "LISTEN"]
  BY Zenon
<1>3. j \in Client /\ j.state = "LISTEN" /\ j.ob = k.ob /\ j.events = k.events
  BY Zenon, <1>2 DEF Client, ClientStates
<1>4. PICK q : q = [s EXCEPT !.cl = j]
  BY Zenon
<1>5. q \in BundleType /\ q.cl = j /\ q.cn = s.cn /\ q.ans = s.ans /\ q.fault = s.fault
  BY Zenon, <1>3, <1>4, WithClient
<1>6. s.cn = NoConn
  BY Zenon, BundleFields DEF Consistent
<1>7. Consistent(q, n)
  BY Zenon, <1>1, <1>3, <1>5, <1>6, BlankTypes DEF Consistent
<1>8. PICK i \in Nat : i = Cardinality({d \in Devices : device[d] = "ACTIVE"})
  <2>1. {d \in Devices : device[d] = "ACTIVE"} \subseteq Devices
    BY Zenon
  <2>2. IsFiniteSet({d \in Devices : device[d] = "ACTIVE"})
    BY Zenon, <2>1, SessionAssumption, FS_Subset
  <2> QED
    BY Zenon, <2>2, FS_CardinalityType
<1>9. LET r == send_pkt(q, i) IN Kept(q, r, n) /\ r.cn = q.cn /\ r.cl.state = q.cl.state
  BY Zenon, <1>3, <1>5, <1>7, SendKeeps
<1>10. start_listen(s) = send_pkt(q, i)
  BY Zenon, <1>1, <1>2, <1>4, <1>8 DEF start_listen
<1> QED
  BY Zenon, <1>3, <1>5, <1>6, <1>9, <1>10 DEF Kept

\* Connect: the bundle waits for the device, the answer is outstanding.
LEMMA StartConnectConsistent ==
  ASSUME NEW s \in BundleType, NEW n \in Nat, Consistent(s, n), s.cl.state = "COMMAND",
         NEW d \in Devices
  PROVE  LET r == StartConnect(s, n + 1, d)
         IN  /\ r \in BundleType /\ Consistent(r, n + 1) /\ r.fault = s.fault
             /\ r.cn.dev = d /\ r.cl.state = "CONNECTING1"
<1>1. PICK k \in Client : k = s.cl
  BY Zenon, BundleFields
<1>2. PICK t \in Nat : t = n + 1 /\ t > 0 /\ n = t - 1
  OBVIOUS
<1>3. PICK j : j = [k EXCEPT !.state = "CONNECTING1", !.connect_tag = t]
  BY Zenon
<1>4. /\ j \in Client /\ j.state = "CONNECTING1" /\ j.connect_tag = t /\ j.ob = k.ob
      /\ j.events = k.events
  BY Zenon, <1>3 DEF Client, ClientStates
<1>5. PICK b : b = [state |-> "CONNECTING", dev |-> d, events |-> {}]
  BY Zenon
<1>6. b \in Connection /\ b.state = "CONNECTING" /\ b.dev = d
  BY Zenon, <1>5 DEF Connection
<1>7. PICK r : r = [s EXCEPT !.cn = b, !.cl = j]
  BY Zenon
<1>8. r \in BundleType /\ r.cl = j /\ r.cn = b /\ r.ans = s.ans /\ r.fault = s.fault
  BY Zenon, <1>4, <1>6, <1>7 DEF BundleType
<1>9. s.ans = Tags(n)
  BY Zenon DEF Consistent
<1>10. k.ob > 0 => "POLLOUT" \in k.events
  BY Zenon, <1>1 DEF Consistent
<1>11. Consistent(r, t)
  BY SMTT(40), <1>2, <1>4, <1>6, <1>8, <1>9, <1>10 DEF Consistent
<1>12. r = StartConnect(s, t, d)
  BY Zenon, <1>1, <1>3, <1>5, <1>7 DEF StartConnect
<1> QED
  BY Zenon, <1>2, <1>4, <1>6, <1>8, <1>11, <1>12

\* Every outcome of client_command before client->ib_size = 0, for a client
\* that sent n commands before this one.
LEMMA CommandOutcome ==
  ASSUME NEW s \in BundleType, NEW n \in Nat, Consistent(s, n),
         s.cl.state \notin {"CONNECTED", "CONNECTING2"},
         NEW msg \in Messages, NEW r \in client_command(s, n + 1, msg),
         NEW m \in Nat,
         m = IF msg = "Garbage" /\ s.cl.state = "COMMAND" THEN n ELSE n + 1
  PROVE  /\ r \in BundleType
         /\ r.fault = "none" => Consistent(r, m)
         /\ r.cl.state \notin {"CONNECTED", "CONNECTING2"}
         /\ r.cn.state # "NONE" => r.cn.dev \in Devices /\ device[r.cn.dev] = "ACTIVE"
<1>1. CASE s.cl.state # "COMMAND"
  <2>1. PICK t \in Nat : t = n + 1
    OBVIOUS
  <2>2. PICK q : q = send_result(s, t)
    BY Zenon
  <2>3. q \in BundleType /\ q.cn = s.cn /\ q.cl.state = s.cl.state
    <3>1. t \in Nat BY Zenon, <2>1
    <3> QED BY ZenonT(40), <2>2, <3>1, SendResultFields
  <2>4. r = client_close(q, FALSE)
    BY Zenon, <1>1, <2>1, <2>2 DEF client_command
  <2>5. /\ q.cl.state # "CONNECTED"
        /\ q.cl.state \notin Connecting => q.cn = NoConn
        /\ q.cl.state \in Connecting => q.cn.state \in {"CONNECTING", "CONNECTED"}
    BY Zenon, <2>3, BundleFields DEF Consistent, Connecting
  <2>6. r \in BundleType /\ Consistent(r, m) /\ r.cn = NoConn /\ r.cl.state = "CLOSED"
    BY Zenon, <2>3, <2>4, <2>5, CloseConsistent
  <2> QED
    BY Zenon, <2>6, BlankTypes
<1>2. CASE s.cl.state = "COMMAND" /\ msg = "Garbage"
  <2>1. r = s /\ m = n
    BY Zenon, <1>2, SessionAssumption DEF client_command
  <2>2. s.cn = NoConn
    BY Zenon, <1>2, BundleFields DEF Consistent
  <2> QED
    BY Zenon, <1>2, <2>1, <2>2, BlankTypes
<1>3. CASE s.cl.state = "COMMAND" /\ msg # "Garbage"
  <2>1. m = n + 1
    BY Zenon, <1>3
  <2>2. PICK q : q = send_result(s, n + 1)
    BY Zenon
  <2>3. /\ q \in BundleType /\ Consistent(q, n + 1) /\ q.cn = NoConn /\ q.cl.state = "COMMAND"
    BY Zenon, <1>3, <2>2, AnswerConsistent
  <2>4. CASE r = q
    BY Zenon, <2>1, <2>3, <2>4, BlankTypes
  <2>5. CASE r = start_listen(q)
    <3>1. PICK t \in Nat : t = n + 1
      OBVIOUS
    <3>2. /\ r \in BundleType /\ r.cn = NoConn /\ r.cl.state = "LISTEN"
          /\ r.fault = "none" => Consistent(r, t)
      BY Zenon, <2>3, <2>5, <3>1, ListenConsistent
    <3> QED
      BY Zenon, <2>1, <3>1, <3>2, BlankTypes
  <2>6. CASE msg \in Devices /\ device[msg] = "ACTIVE" /\ r = StartConnect(s, n + 1, msg)
    <3>1. PICK d \in Devices : d = msg
      BY Zenon, <2>6
    <3>2. LET x == StartConnect(s, n + 1, d)
          IN  /\ x \in BundleType /\ Consistent(x, n + 1)
              /\ x.cn.dev = d /\ x.cl.state = "CONNECTING1"
      BY <1>3, StartConnectConsistent
    <3> QED
      BY Zenon, <2>1, <2>6, <3>1, <3>2
  <2>7. \/ msg \in {"Other", "Listen"}
        \/ msg \in Devices /\ msg \notin {"Garbage", "Other", "Listen"}
    BY Zenon, <1>3, SessionAssumption DEF Messages
  <2>8. CASE msg \in {"Other", "Listen"}
    <3>1. msg \notin Devices
      BY Zenon, <2>8, SessionAssumption
    <3>2. r = q \/ r = start_listen(q)
      BY Zenon, <1>3, <2>2, <2>8, <3>1 DEF client_command
    <3> QED
      BY Zenon, <3>2, <2>4, <2>5
  <2>9. CASE msg \in Devices /\ msg \notin {"Garbage", "Other", "Listen"}
    <3>1. r = q \/ (device[msg] = "ACTIVE" /\ r = StartConnect(s, n + 1, msg))
      BY Zenon, <1>3, <2>2, <2>9 DEF client_command
    <3> QED
      BY Zenon, <2>9, <3>1, <2>4, <2>6
  <2> QED
    BY Zenon, <2>7, <2>8, <2>9
<1> QED
  BY Zenon, <1>1, <1>2, <1>3

\* A command, with the statement that follows client_command.
LEMMA CommandKept ==
  ASSUME NEW s \in BundleType, NEW n \in Nat, Consistent(s, n),
         s.cl.state \notin {"CONNECTED", "CONNECTING2"},
         NEW msg \in Messages, NEW r \in client_command(s, n + 1, msg),
         NEW m \in Nat,
         m = IF msg = "Garbage" /\ s.cl.state = "COMMAND" THEN n ELSE n + 1
  PROVE  LET q == ResetInput(r)
         IN  /\ Kept(s, q, m)
             /\ q.cn.state # "NONE" => q.cn.dev \in Devices /\ device[q.cn.dev] = "ACTIVE"
<1>1. /\ r \in BundleType
      /\ r.fault = "none" => Consistent(r, m)
      /\ r.cl.state \notin {"CONNECTED", "CONNECTING2"}
      /\ r.cn.state # "NONE" => r.cn.dev \in Devices /\ device[r.cn.dev] = "ACTIVE"
  BY CommandOutcome
<1>2. PICK q : q = ResetInput(r)
  BY Zenon
<1>3. CASE r.cl.state = "CLOSED"
  <2>1. PICK f \in Faults : f = (IF r.fault = "none" THEN "used after close" ELSE r.fault) /\ f # "none"
    BY Zenon, <1>1, BundleFields DEF Faults
  <2>2. q = [r EXCEPT !.fault = f]
    BY Zenon, <1>2, <1>3, <2>1 DEF ResetInput
  <2>3. q \in BundleType /\ q.fault # "none" /\ q.cn = r.cn
    BY Zenon, <1>1, <2>1, <2>2 DEF BundleType
  <2> QED
    BY Zenon, <1>1, <1>2, <2>3 DEF Kept
<1>4. CASE r.cl.state # "CLOSED"
  <2>1. q = [r EXCEPT !.cl.ib = 0]
    BY Zenon, <1>2, <1>4 DEF ResetInput
  <2>2. PICK k \in Client : k = r.cl
    BY Zenon, <1>1, BundleFields
  <2>3. PICK j \in Client : j = [k EXCEPT !.ib = 0]
    <3>1. [k EXCEPT !.ib = 0] \in Client
      BY DEF Client
    <3> QED
      BY Zenon, <3>1
  <2>4. q = [r EXCEPT !.cl = j]
    BY Zenon, <2>1, <2>2, <2>3
  <2>5. q \in BundleType /\ q.cn = r.cn /\ q.fault = r.fault
    BY Zenon, <1>1, <2>4, WithClient
  <2>6. r.fault = "none" => Consistent(q, m)
    <3>1. ASSUME r.fault = "none" PROVE LET x == [r EXCEPT !.cl.ib = 0] IN Kept(r, x, m)
      <4>1. PICK i \in 0..1 : i = 0
        OBVIOUS
      <4>2. LET x == [r EXCEPT !.cl.ib = i] IN Kept(r, x, m)
        BY Zenon, <1>1, <3>1, InputKept
      <4> QED
        BY Zenon, <4>1, <4>2
    <3> QED
      BY Zenon, <2>1, <2>5, <3>1 DEF Kept
  <2> QED
    BY Zenon, <1>1, <1>2, <2>5, <2>6 DEF Kept
<1> QED
  BY Zenon, <1>3, <1>4

\* The bundle of a client.
LEMMA BundleOf ==
  ASSUME SessionInv, NEW c \in Clients
  PROVE  LET s == Bundle(c)
         IN  /\ s \in BundleType /\ asked[c] \in Nat
             /\ s.cl = client[c] /\ s.cn = conn[c] /\ s.ans = answers[c] /\ s.fault = fault
             /\ fault = "none" =>
                  /\ Consistent(s, asked[c])
                  /\ conn[c].state # "NONE" => device[conn[c].dev] = "ACTIVE"
BY Zenon DEF SessionInv, TypeOK, Bundle, BundleType

\* A step of one client.
LEMMA ApplyKept ==
  ASSUME SessionInv, fault = "none", NEW c \in Clients, NEW r, NEW m \in Nat,
         Apply(c, r), Kept(Bundle(c), r, m),
         r.cn.state # "NONE" => device[r.cn.dev] = "ACTIVE",
         asked' = [asked EXCEPT ![c] = m], device' = device,
         phase' \in {"poll", "usb", "clients", "exit"}, revents' \in [Clients -> SUBSET Poll]
  PROVE  SessionInv' /\ StreamStep
<1>1. /\ client \in [Clients -> Client] /\ conn \in [Clients -> Connection]
      /\ device \in [Devices -> {"NEW", "ACTIVE", "GONE"}]
      /\ asked \in [Clients -> Nat] /\ answers \in [Clients -> Seq(Nat)]
  BY Zenon DEF SessionInv, TypeOK
<1>2. /\ r \in BundleType
      /\ r.fault = "none" => Consistent(r, m)
      /\ client[c].state \in {"CONNECTING2", "CONNECTED"} =>
           r.cl.state \in {client[c].state, "CONNECTED", "CLOSED"} /\ r.ans = answers[c]
  BY Zenon, BundleOf DEF Kept
<1>3. /\ r.cl \in Client /\ r.cn \in Connection /\ r.ans \in Seq(Nat) /\ r.fault \in Faults
  BY Zenon, <1>2, BundleFields
<1>4. /\ client' = [client EXCEPT ![c] = r.cl] /\ conn' = [conn EXCEPT ![c] = r.cn]
      /\ answers' = [answers EXCEPT ![c] = r.ans] /\ fault' = r.fault
  BY Zenon DEF Apply
<1>5. TypeOK'
  BY Zenon, <1>1, <1>3, <1>4 DEF TypeOK
<1>6. ASSUME NEW x \in Clients, fault' = "none"
      PROVE  /\ Consistent(Bundle(x)', asked'[x])
             /\ conn'[x].state # "NONE" => device'[conn'[x].dev] = "ACTIVE"
  <2>1. CASE x = c
    <3>1. /\ client'[x] = r.cl /\ conn'[x] = r.cn /\ answers'[x] = r.ans /\ asked'[x] = m
      BY Zenon, <1>1, <1>4, <2>1
    <3>2. Bundle(x)' = r
      BY Zenon, <1>2, <1>4, <3>1 DEF Bundle, BundleType
    <3> QED
      BY Zenon, <1>2, <1>4, <1>6, <3>1, <3>2
  <2>2. CASE x # c
    <3>1. /\ client'[x] = client[x] /\ conn'[x] = conn[x] /\ answers'[x] = answers[x]
          /\ asked'[x] = asked[x]
      BY Zenon, <1>1, <1>4, <2>2
    <3>2. Bundle(x)' = Bundle(x)
      BY Zenon, <1>6, <3>1 DEF Bundle
    <3> QED
      BY SMTT(40), <3>1, <3>2, BundleOf
  <2> QED
    BY Zenon, <2>1, <2>2
<1>7. StreamStep
  BY Zenon, <1>1, <1>2, <1>4 DEF StreamStep
<1> QED
  BY Zenon, <1>5, <1>6, <1>7 DEF SessionInv

\* A step of all clients.
LEMMA ApplyAllKept ==
  ASSUME SessionInv, fault = "none", NEW b, ApplyAll(b),
         \A c \in Clients : Kept(Bundle(c), b[c], asked[c]),
         \A c \in Clients : b[c].cn.state # "NONE" => device'[b[c].cn.dev] = "ACTIVE",
         device' \in [Devices -> {"NEW", "ACTIVE", "GONE"}], asked' = asked,
         phase' \in {"poll", "usb", "clients", "exit"}, revents' \in [Clients -> SUBSET Poll]
  PROVE  SessionInv' /\ StreamStep
<1>1. /\ client' = [c \in Clients |-> b[c].cl] /\ conn' = [c \in Clients |-> b[c].cn]
      /\ answers' = [c \in Clients |-> b[c].ans]
  BY Zenon DEF ApplyAll
<1>2. ASSUME NEW c \in Clients
      PROVE  /\ b[c] \in BundleType
             /\ b[c].fault = "none" => Consistent(b[c], asked[c])
             /\ client[c].state \in {"CONNECTING2", "CONNECTED"} =>
                  b[c].cl.state \in {client[c].state, "CONNECTED", "CLOSED"}
                    /\ b[c].ans = answers[c]
  BY SMTT(40), BundleOf DEF Kept
<1>3. ASSUME NEW c \in Clients
      PROVE  /\ b[c].cl \in Client /\ b[c].cn \in Connection /\ b[c].ans \in Seq(Nat)
             /\ b[c].fault \in Faults
  BY Zenon, <1>2, BundleFields
<1>4. fault' \in Faults /\ (fault' = "none" => \A c \in Clients : b[c].fault = "none")
  <2>1. CASE \E c \in Clients : b[c].fault # "none"
    <3>1. PICK x \in Clients : x = (CHOOSE c \in Clients : b[c].fault # "none") /\ b[x].fault # "none"
      BY Zenon, <2>1
    <3>2. fault' = b[x].fault
      BY Zenon, <2>1, <3>1 DEF ApplyAll
    <3> QED
      BY Zenon, <1>3, <3>1, <3>2
  <2>2. CASE ~ \E c \in Clients : b[c].fault # "none"
    BY Zenon, <2>2 DEF ApplyAll, Faults
  <2> QED
    BY Zenon, <2>1, <2>2
<1>5. client' \in [Clients -> Client] /\ conn' \in [Clients -> Connection]
        /\ answers' \in [Clients -> Seq(Nat)]
  BY Zenon, <1>1, <1>3
<1>6. TypeOK'
  BY Zenon, <1>4, <1>5 DEF SessionInv, TypeOK
<1>7. ASSUME NEW x \in Clients, fault' = "none"
      PROVE  /\ Consistent(Bundle(x)', asked'[x])
             /\ conn'[x].state # "NONE" => device'[conn'[x].dev] = "ACTIVE"
  <2>1. /\ client'[x] = b[x].cl /\ conn'[x] = b[x].cn /\ answers'[x] = b[x].ans
        /\ b[x].fault = "none" /\ b[x] \in BundleType
    BY Zenon, <1>1, <1>2, <1>4, <1>7
  <2>2. Bundle(x)' = b[x]
    BY Zenon, <1>7, <2>1 DEF Bundle, BundleType
  <2> QED
    BY SMTT(40), <1>2, <2>1, <2>2
<1>8. StreamStep
  BY Zenon, <1>1, <1>2 DEF StreamStep
<1> QED
  BY Zenon, <1>6, <1>7, <1>8 DEF SessionInv

\* The invariant holds initially.
LEMMA InitEstablishes == Init => SessionInv
<1> SUFFICES ASSUME Init PROVE SessionInv
  BY Zenon
<1>1. TypeOK
  BY BlankTypes DEF Init, TypeOK, Faults
<1>2. ASSUME NEW c \in Clients
      PROVE  Consistent(Bundle(c), asked[c]) /\ conn[c].state = "NONE"
  <2>1. /\ client[c] = Blank("NEW") /\ conn[c] = NoConn /\ answers[c] = <<>> /\ asked[c] = 0
    BY Zenon DEF Init
  <2>2. PICK s : s = Bundle(c)
    BY Zenon
  <2>3. s.cl = Blank("NEW") /\ s.cn = NoConn /\ s.ans = <<>>
    BY Zenon, <2>1, <2>2 DEF Bundle
  <2>4. s.cl.state = "NEW" /\ s.cl.ob = 0 /\ s.cn.state = "NONE"
    BY <2>3 DEF Blank, NoConn
  <2>5. Tags(0) = <<>>
    BY DEF Tags
  <2>6. Consistent(s, 0)
    BY SMTT(40), <2>3, <2>4, <2>5 DEF Consistent
  <2> QED
    BY Zenon, <2>1, <2>2, <2>6, BlankTypes
<1> QED
  BY Zenon, <1>1, <1>2 DEF SessionInv

\* Steps of main_loop that touch no client.
LEMMA LoopKept ==
  ASSUME SessionInv, UNCHANGED <<client, conn, device, asked, answers, fault>>,
         phase' \in {"poll", "usb", "clients", "exit"}, revents' \in [Clients -> SUBSET Poll]
  PROVE  SessionInv' /\ StreamStep
<1>1. TypeOK'
  BY Zenon DEF SessionInv, TypeOK
<1>2. \A c \in Clients : Bundle(c)' = Bundle(c)
  BY Zenon DEF Bundle
<1>3. StreamStep
  BY Zenon DEF StreamStep
<1> QED
  BY Zenon, <1>1, <1>2, <1>3 DEF SessionInv

\* Accepting a client.
LEMMA AcceptKept ==
  ASSUME SessionInv, fault = "none", NEW c \in Clients, client_accept(c)
  PROVE  SessionInv' /\ StreamStep
<1>1. PICK s : s = Bundle(c)
  BY Zenon
<1>2. PICK n \in Nat : n = asked[c]
  BY Zenon, BundleOf
<1>3. /\ s \in BundleType /\ Consistent(s, n) /\ s.fault = "none" /\ s.cl.state = "NEW"
      /\ s.cn = conn[c] /\ s.ans = answers[c]
  BY Zenon, <1>1, <1>2, BundleOf DEF client_accept
<1>4. PICK k : k = [Blank("COMMAND") EXCEPT !.events = {"POLLIN"}]
  BY Zenon
<1>5. k \in Client /\ k.state = "COMMAND" /\ k.ob = 0
  BY <1>4 DEF Blank, Client, ClientStates, Poll
<1>6. PICK r : r = [s EXCEPT !.cl = k]
  BY Zenon
<1>7. r \in BundleType /\ r.cl = k /\ r.cn = s.cn /\ r.ans = s.ans /\ r.fault = s.fault
  BY Zenon, <1>3, <1>5, <1>6, WithClient
<1>8. s.ans = Tags(n) /\ s.cn = NoConn
  BY Zenon, <1>3, BundleFields DEF Consistent
<1>9. Consistent(r, n)
  BY SMTT(40), <1>5, <1>7, <1>8, BlankTypes DEF Consistent
<1>10. Kept(s, r, n)
  BY Zenon, <1>3, <1>7, <1>9 DEF Kept
<1>11. Apply(c, r)
  <2>1. conn' = [conn EXCEPT ![c] = r.cn] /\ answers' = [answers EXCEPT ![c] = r.ans]
    BY Zenon, <1>3, <1>7 DEF client_accept, SessionInv, TypeOK
  <2> QED
    BY Zenon, <1>3, <1>4, <1>7, <2>1 DEF Apply, client_accept
<1>12. asked' = [asked EXCEPT ![c] = n]
  BY Zenon, <1>2 DEF client_accept, SessionInv, TypeOK
<1>13. /\ device' = device /\ phase' \in {"poll", "usb", "clients", "exit"}
       /\ revents' \in [Clients -> SUBSET Poll]
  BY Zenon DEF client_accept, SessionInv, TypeOK
<1>14. r.cn.state = "NONE"
  BY Zenon, <1>7, <1>8, BlankTypes
<1> QED
  BY Zenon, <1>1, <1>10, <1>11, <1>12, <1>13, <1>14, ApplyKept

\* The steps of one client that leave asked, device and phase alone.
LEMMA OneClient ==
  ASSUME SessionInv, fault = "none", NEW c \in Clients, NEW r,
         Apply(c, r), Kept(Bundle(c), r, asked[c]),
         r.cn.state # "NONE" => r.cn.dev = conn[c].dev /\ conn[c].state # "NONE",
         asked' = asked, device' = device, phase' = phase, revents' \in [Clients -> SUBSET Poll]
  PROVE  SessionInv' /\ StreamStep
<1>1. PICK n \in Nat : n = asked[c]
  BY Zenon, BundleOf
<1>2. asked' = [asked EXCEPT ![c] = n]
  BY Zenon, <1>1 DEF SessionInv, TypeOK
<1>3. phase' \in {"poll", "usb", "clients", "exit"}
  BY Zenon DEF SessionInv, TypeOK
<1>4. r.cn.state # "NONE" => device[r.cn.dev] = "ACTIVE"
  BY BundleOf
<1> QED
  BY Zenon, <1>1, <1>2, <1>3, <1>4, ApplyKept

\* A segment, an overdue acknowledgement or client data: the connection is
\* torn down, or goes on with a new mask.
LEMMA TransferKept ==
  ASSUME SessionInv, fault = "none", NEW c \in Clients, NEW locked \in BOOLEAN,
         conn[c].state = "CONNECTED",
         \/ Apply(c, connection_teardown(Bundle(c), locked))
         \/ \E m \in SUBSET Poll : Apply(c, client_set_events(Bundle(c), m)),
         asked' = asked, device' = device, phase' = phase, revents' \in [Clients -> SUBSET Poll]
  PROVE  SessionInv' /\ StreamStep
<1>1. PICK s : s = Bundle(c)
  BY Zenon
<1>2. PICK n \in Nat : n = asked[c]
  BY Zenon, BundleOf
<1>3. /\ s \in BundleType /\ Consistent(s, n) /\ s.cn = conn[c] /\ s.cn.state = "CONNECTED"
  BY Zenon, <1>1, <1>2, BundleOf
<1>4. CASE Apply(c, connection_teardown(s, locked))
  <2>1. PICK r : r = connection_teardown(s, locked)
    BY Zenon
  <2>2. Kept(s, r, n) /\ r.cn = NoConn
    BY Zenon, <1>3, <2>1, TeardownKept
  <2> QED
    BY SMTT(40), <1>1, <1>2, <1>4, <2>1, <2>2, OneClient, BlankTypes
<1>5. ASSUME NEW m \in SUBSET Poll, Apply(c, client_set_events(s, m))
      PROVE  SessionInv' /\ StreamStep
  <2>1. PICK r : r = client_set_events(s, m)
    BY Zenon
  <2>2. Kept(s, r, n) /\ r.cn.dev = s.cn.dev
    BY Zenon, <1>3, <2>1, SetEventsKept
  <2> QED
    BY Zenon, <1>1, <1>2, <1>3, <1>5, <2>1, <2>2, OneClient
<1> QED
  BY Zenon, <1>1, <1>4, <1>5

\* device_tcp_input.
LEMMA InputStep ==
  ASSUME SessionInv, fault = "none", NEW c \in Clients, device_tcp_input(c)
  PROVE  SessionInv' /\ StreamStep
<1>0. /\ asked' = asked /\ device' = device /\ phase' = phase
      /\ revents' \in [Clients -> SUBSET Poll]
  BY Zenon DEF device_tcp_input, SessionInv, TypeOK
<1>1. CASE conn[c].state = "CONNECTED"
  BY Zenon, <1>0, <1>1, TransferKept DEF device_tcp_input, InputConnected
<1>2. CASE conn[c].state = "CONNECTING"
  <2>1. PICK s : s = Bundle(c)
    BY Zenon
  <2>2. PICK n \in Nat : n = asked[c]
    BY Zenon, BundleOf
  <2>3. /\ s \in BundleType /\ Consistent(s, n) /\ s.cn = conn[c] /\ s.cn.state = "CONNECTING"
    BY Zenon, <1>2, <2>1, <2>2, BundleOf
  <2>4. CASE Apply(c, connection_teardown(s, FALSE))
    <3>1. PICK r : r = connection_teardown(s, FALSE)
      BY Zenon
    <3>2. Kept(s, r, n) /\ r.cn = NoConn
      BY Zenon, <2>3, <3>1, TeardownKept
    <3> QED
      BY Zenon, <1>0, <2>1, <2>2, <2>4, <3>1, <3>2, OneClient, BlankTypes
  <2>5. ASSUME NEW m \in SUBSET Poll,
               Apply(c, client_set_events(
                          client_notify_connect([s EXCEPT !.cn.state = "CONNECTED"], TRUE), m))
        PROVE  SessionInv' /\ StreamStep
    <3>1. PICK r : r = client_set_events(
                         client_notify_connect([s EXCEPT !.cn.state = "CONNECTED"], TRUE), m)
      BY Zenon
    <3>2. r \in BundleType /\ Consistent(r, n) /\ r.cn.dev = s.cn.dev
      BY Zenon, <2>3, <3>1, EstablishConsistent
    <3>3. s.cl.state = "CONNECTING1"
      BY Zenon, <2>3 DEF Consistent
    <3>4. Kept(s, r, n)
      BY Zenon, <3>2, <3>3 DEF Kept
    <3> QED
      BY Zenon, <1>0, <1>2, <2>1, <2>2, <2>3, <2>5, <3>1, <3>2, <3>4, OneClient
  <2> QED
    BY ZenonT(40), <1>2, <2>1, <2>4, <2>5 DEF device_tcp_input, InputConnecting
<1> QED
  BY Zenon, <1>1, <1>2 DEF device_tcp_input

\* A listener is sent an event.
LEMMA ListenerKept ==
  ASSUME NEW s \in BundleType, NEW n \in Nat, Consistent(s, n)
  PROVE  Kept(s, NotifyListener(s), n) /\ NotifyListener(s).cn = s.cn
<1>1. CASE s.cl.state = "LISTEN"
  <2>1. PICK i \in Nat : i = 1
    BY Zenon
  <2>2. LET r == send_pkt(s, i) IN Kept(s, r, n) /\ r.cn = s.cn
    BY Zenon, <1>1, SendKeeps
  <2> QED
    BY Zenon, <1>1, <2>1, <2>2 DEF NotifyListener
<1>2. CASE s.cl.state # "LISTEN"
  BY Zenon, <1>2 DEF NotifyListener, Kept
<1> QED
  BY Zenon, <1>1, <1>2

\* device_add.
LEMMA AddStep ==
  ASSUME SessionInv, fault = "none", NEW d \in Devices, device_add(d)
  PROVE  SessionInv' /\ StreamStep
<1>1. /\ device[d] = "NEW" /\ device' = [device EXCEPT ![d] = "ACTIVE"] /\ asked' = asked
      /\ device \in [Devices -> {"NEW", "ACTIVE", "GONE"}]
      /\ phase' \in {"poll", "usb", "clients", "exit"} /\ revents' \in [Clients -> SUBSET Poll]
  BY Zenon DEF device_add, SessionInv, TypeOK
<1>2. PICK b : b = [c \in Clients |-> NotifyListener(Bundle(c))]
  BY Zenon
<1>3. ApplyAll(b)
  BY Zenon, <1>2 DEF device_add
<1>4. ASSUME NEW c \in Clients
      PROVE  /\ Kept(Bundle(c), b[c], asked[c])
             /\ b[c].cn.state # "NONE" => device'[b[c].cn.dev] = "ACTIVE"
  <2>1. PICK s : s = Bundle(c)
    BY Zenon
  <2>2. PICK n \in Nat : n = asked[c]
    BY Zenon, BundleOf
  <2>3. /\ s \in BundleType /\ Consistent(s, n) /\ s.cn = conn[c]
        /\ conn[c].state # "NONE" => device[conn[c].dev] = "ACTIVE"
    BY Zenon, <2>1, <2>2, BundleOf
  <2>4. Kept(s, b[c], n) /\ b[c].cn = conn[c]
    BY Zenon, <1>2, <2>1, <2>3, ListenerKept
  <2>5. conn[c].state # "NONE" => conn[c].dev \in Devices
    BY Zenon, <2>3 DEF Consistent
  <2> QED
    BY Zenon, <1>1, <2>1, <2>2, <2>3, <2>4, <2>5
<1>5. device' \in [Devices -> {"NEW", "ACTIVE", "GONE"}]
  BY Zenon, <1>1
<1> QED
  BY Zenon, <1>1, <1>3, <1>4, <1>5, ApplyAllKept

\* device_remove.
LEMMA RemoveStep ==
  ASSUME SessionInv, fault = "none", NEW d \in Devices, device_remove(d)
  PROVE  SessionInv' /\ StreamStep
<1>1. /\ device[d] = "ACTIVE" /\ device' = [device EXCEPT ![d] = "GONE"] /\ asked' = asked
      /\ device \in [Devices -> {"NEW", "ACTIVE", "GONE"}]
      /\ phase' \in {"poll", "usb", "clients", "exit"} /\ revents' \in [Clients -> SUBSET Poll]
  BY Zenon DEF device_remove, SessionInv, TypeOK
<1>2. PICK b : b = [c \in Clients |->
                      IF conn[c].dev = d THEN connection_teardown(Bundle(c), TRUE)
                      ELSE NotifyListener(Bundle(c))]
  BY Zenon
<1>3. ApplyAll(b)
  BY Zenon, <1>2 DEF device_remove
<1>4. ASSUME NEW c \in Clients
      PROVE  /\ Kept(Bundle(c), b[c], asked[c])
             /\ b[c].cn.state # "NONE" => device'[b[c].cn.dev] = "ACTIVE"
  <2>1. PICK s : s = Bundle(c)
    BY Zenon
  <2>2. PICK n \in Nat : n = asked[c]
    BY Zenon, BundleOf
  <2>3. /\ s \in BundleType /\ Consistent(s, n) /\ s.cn = conn[c]
        /\ conn[c].state # "NONE" => device[conn[c].dev] = "ACTIVE"
    BY Zenon, <2>1, <2>2, BundleOf
  <2>4. CASE conn[c].dev = d
    <3>1. s.cn.state # "NONE"
      BY SMTT(40), <2>3, <2>4, SessionAssumption DEF Consistent, NoConn
    <3>2. Kept(s, connection_teardown(s, TRUE), n) /\ connection_teardown(s, TRUE).cn = NoConn
      BY Zenon, <2>3, <3>1, TeardownKept
    <3>3. b[c] = connection_teardown(s, TRUE)
      BY ZenonT(40), <1>2, <2>1, <2>4
    <3> QED
      BY ZenonT(40), <2>1, <2>2, <3>2, <3>3, BlankTypes
  <2>5. CASE conn[c].dev # d
    <3>1. Kept(s, b[c], n) /\ b[c].cn = conn[c]
      BY SMTT(40), <1>2, <2>1, <2>3, <2>5, ListenerKept
    <3>2. conn[c].state # "NONE" => conn[c].dev \in Devices
      BY Zenon, <2>3 DEF Consistent
    <3> QED
      BY SMTT(40), <1>1, <2>1, <2>2, <2>3, <2>5, <3>1, <3>2
  <2> QED
    BY SMTT(40), <2>4, <2>5
<1>5. device' \in [Devices -> {"NEW", "ACTIVE", "GONE"}]
  BY Zenon, <1>1
<1> QED
  BY Zenon, <1>1, <1>3, <1>4, <1>5, ApplyAllKept

\* shutdown.
LEMMA ShutdownStep ==
  ASSUME SessionInv, fault = "none", shutdown
  PROVE  SessionInv' /\ StreamStep
<1>1. /\ device' = device /\ asked' = asked
      /\ device \in [Devices -> {"NEW", "ACTIVE", "GONE"}]
      /\ phase' \in {"poll", "usb", "clients", "exit"} /\ revents' \in [Clients -> SUBSET Poll]
  BY Zenon DEF shutdown, SessionInv, TypeOK
<1> DEFINE torn(c) == IF conn[c].state = "NONE" THEN Bundle(c)
                      ELSE connection_teardown(Bundle(c), FALSE)
<1>2. PICK b : b = [c \in Clients |->
                      IF torn(c).cl.state \in {"NEW", "CLOSED"} THEN torn(c)
                      ELSE client_close(torn(c), FALSE)]
  BY ZenonT(40)
<1>3. ApplyAll(b)
  BY Zenon, <1>2 DEF shutdown
<1>4. ASSUME NEW c \in Clients
      PROVE  Kept(Bundle(c), b[c], asked[c]) /\ b[c].cn.state = "NONE"
  <2>1. PICK s : s = Bundle(c)
    BY Zenon
  <2>2. PICK n \in Nat : n = asked[c]
    BY Zenon, BundleOf
  <2>3. s \in BundleType /\ Consistent(s, n) /\ s.cn = conn[c] /\ s.fault = "none"
    BY Zenon, <2>1, <2>2, BundleOf
  <2>4. PICK t : t = torn(c)
    BY Zenon
  <2>5. Kept(s, t, n) /\ t.cn = NoConn /\ t.cl.state \notin Connecting \cup {"CONNECTED"}
    <3>1. CASE conn[c].state = "NONE"
      BY SMTT(40), <2>1, <2>3, <2>4, <3>1 DEF Kept, Consistent, Connecting
    <3>2. CASE conn[c].state # "NONE"
      <4>1. LET r == connection_teardown(s, FALSE)
            IN  Kept(s, r, n) /\ r.cn = NoConn /\ r.cl.state \in {"COMMAND", "CLOSED"}
        BY Zenon, <2>3, <3>2, TeardownKept
      <4> QED
        BY Zenon, <2>1, <2>4, <3>2, <4>1 DEF Connecting
    <3> QED
      BY Zenon, <3>1, <3>2
  <2>6. CASE t.cl.state \in {"NEW", "CLOSED"}
    <3>1. b[c] = t
      BY Zenon, <1>2, <2>4, <2>6
    <3> QED
      BY Zenon, <2>1, <2>2, <2>5, <3>1, BlankTypes
  <2>7. CASE t.cl.state \notin {"NEW", "CLOSED"}
    <3>1. b[c] = client_close(t, FALSE)
      BY Zenon, <1>2, <2>4, <2>7
    <3>2. t \in BundleType
      BY Zenon, <2>5 DEF Kept
    <3>3. LET r == client_close(t, FALSE)
          IN  /\ r \in BundleType /\ Consistent(r, n) /\ r.cn = NoConn
              /\ r.cl.state = "CLOSED" /\ r.ans = t.ans
      BY Zenon, <2>5, <3>2, CloseConsistent
    <3>4. Kept(s, b[c], n)
      BY Zenon, <2>5, <3>1, <3>3 DEF Kept
    <3> QED
      BY ZenonT(40), <2>1, <2>2, <3>1, <3>3, <3>4, BlankTypes
  <2> QED
    BY Zenon, <2>6, <2>7
<1> QED
  BY Zenon, <1>1, <1>3, <1>4, ApplyAllKept

\* client_process for a client that takes commands: reading.
LEMMA RecvStep ==
  ASSUME SessionInv, fault = "none", NEW c \in Clients, process_recv(c),
         client[c].state # "CONNECTED",
         device' = device, phase' = phase, revents' \in [Clients -> SUBSET Poll]
  PROVE  SessionInv' /\ StreamStep
<1>1. PICK s : s = Bundle(c)
  BY Zenon
<1>2. PICK n \in Nat : n = asked[c]
  BY Zenon, BundleOf
<1>3. /\ s \in BundleType /\ Consistent(s, n) /\ s.cl = client[c] /\ s.cn = conn[c]
      /\ conn[c].state # "NONE" => device[conn[c].dev] = "ACTIVE"
  BY Zenon, <1>1, <1>2, BundleOf
<1>4. CASE asked' = asked /\ Apply(c, [s EXCEPT !.fault = "no input buffer"])
  <2>1. PICK r : r = [s EXCEPT !.fault = "no input buffer"]
    BY Zenon
  <2>2. /\ r \in BundleType /\ r.fault # "none" /\ r.cl = s.cl /\ r.cn = s.cn
        /\ r.ans = s.ans
    BY Zenon, <1>3, <2>1 DEF BundleType, Faults
  <2>3. Kept(s, r, n)
    BY Zenon, <2>2 DEF Kept
  <2> QED
    BY Zenon, <1>1, <1>2, <1>3, <1>4, <2>1, <2>2, <2>3, OneClient
<1>5. CASE asked' = asked /\ Apply(c, client_close(s, FALSE))
  <2>1. PICK r : r = client_close(s, FALSE)
    BY Zenon
  <2>2. Kept(s, r, n) /\ r.cn = NoConn
    BY Zenon, <1>3, <2>1, CloseKept
  <2> QED
    BY Zenon, <1>1, <1>2, <1>5, <2>1, <2>2, OneClient, BlankTypes
<1>6. CASE asked' = asked /\ Apply(c, [s EXCEPT !.cl.ib = 1])
  <2>1. PICK i \in 0..1 : i = 1
    OBVIOUS
  <2>2. PICK r : r = [s EXCEPT !.cl.ib = i]
    BY Zenon
  <2>3. Kept(s, r, n) /\ r.cn = s.cn
    BY Zenon, <1>3, <2>2, InputKept
  <2> QED
    BY Zenon, <1>1, <1>2, <1>3, <1>6, <2>1, <2>2, <2>3, OneClient
<1>7. ASSUME s.cl.state # "CONNECTING2", NEW msg \in Messages,
             NEW r \in client_command(s, n + 1, msg), Apply(c, ResetInput(r)),
             asked' = IF msg = "Garbage" /\ s.cl.state = "COMMAND" THEN asked
                      ELSE [asked EXCEPT ![c] = @ + 1]
      PROVE  SessionInv' /\ StreamStep
  <2>1. PICK m \in Nat : m = IF msg = "Garbage" /\ s.cl.state = "COMMAND" THEN n ELSE n + 1
    OBVIOUS
  <2>2. asked' = [asked EXCEPT ![c] = m]
    BY Zenon, <1>2, <1>7, <2>1 DEF SessionInv, TypeOK
  <2>3. PICK q : q = ResetInput(r)
    BY Zenon
  <2>4. /\ Kept(s, q, m)
        /\ q.cn.state # "NONE" => q.cn.dev \in Devices /\ device[q.cn.dev] = "ACTIVE"
    BY SMTT(40), <1>3, <1>7, <2>1, <2>3, CommandKept
  <2>5. phase' \in {"poll", "usb", "clients", "exit"}
    BY Zenon DEF SessionInv, TypeOK
  <2> QED
    BY Zenon, <1>1, <1>7, <2>2, <2>3, <2>4, <2>5, ApplyKept
<1> QED
  BY Zenon, <1>1, <1>2, <1>4, <1>5, <1>6, <1>7 DEF process_recv

\* client_process for a client that takes commands: writing.
LEMMA SendStep ==
  ASSUME SessionInv, fault = "none", NEW c \in Clients, process_send(c),
         client[c].state # "CONNECTED",
         device' = device, phase' = phase, revents' \in [Clients -> SUBSET Poll]
  PROVE  SessionInv' /\ StreamStep
<1>1. PICK s : s = Bundle(c)
  BY Zenon
<1>2. PICK n \in Nat : n = asked[c]
  BY Zenon, BundleOf
<1>3. s \in BundleType /\ Consistent(s, n) /\ s.cl = client[c] /\ s.cn = conn[c]
  BY Zenon, <1>1, <1>2, BundleOf
<1>4. asked' = asked
  BY Zenon DEF process_send
<1>5. ASSUME NEW r, Kept(s, r, n), r.cn = s.cn \/ r.cn = NoConn, Apply(c, r)
      PROVE  SessionInv' /\ StreamStep
  BY Zenon, <1>1, <1>2, <1>3, <1>4, <1>5, OneClient, BlankTypes
<1>6. s.cl.state # "CONNECTED"
  BY Zenon, <1>3
<1>7. Kept(s, client_close(s, FALSE), n) /\ client_close(s, FALSE).cn = NoConn
  BY Zenon, <1>3, <1>6, CloseKept
<1>8. /\ s.cl.ob = 0 =>
           LET r == [s EXCEPT !.cl.events = @ \ {"POLLOUT"}]
           IN  Kept(s, r, n) /\ r.cn = s.cn
      /\ s.cl.ob > 0 => Kept(s, Flushed(s), n) /\ Flushed(s).cn = s.cn
      /\ \A i \in 1..s.cl.ob :
           LET r == [s EXCEPT !.cl.ob = i]
           IN  Kept(s, r, n) /\ r.cn = s.cn
  BY Zenon, <1>3, <1>6, SendKept
<1>9. \/ s.cl.ob = 0 /\ Apply(c, [s EXCEPT !.cl.events = @ \ {"POLLOUT"}])
      \/ s.cl.ob > 0 /\ Apply(c, client_close(s, FALSE))
      \/ s.cl.ob > 0 /\ Apply(c, Flushed(s))
      \/ \E i \in 1..s.cl.ob : Apply(c, [s EXCEPT !.cl.ob = i])
  BY Zenon, <1>1 DEF process_send
<1> QED
  BY ZenonT(40), <1>5, <1>7, <1>8, <1>9

\* client_process.
LEMMA ProcessStep ==
  ASSUME SessionInv, fault = "none", NEW c \in Clients, client_process(c)
  PROVE  SessionInv' /\ StreamStep
<1>1. device' = device /\ phase' = phase /\ revents' \in [Clients -> SUBSET Poll]
  BY Zenon DEF client_process, SessionInv, TypeOK
<1>2. CASE client[c].state = "CLOSED" /\ UNCHANGED <<client, conn, answers, fault, asked>>
  BY Zenon, <1>1, <1>2, LoopKept DEF SessionInv, TypeOK
<1>3. CASE client[c].state = "CONNECTED" /\ device_client_process(c)
  <2>1. conn[c].state = "CONNECTED"
    BY SMTT(40), <1>3, BundleOf DEF Consistent
  <2> QED
    BY ZenonT(40), <1>1, <1>3, <2>1, TransferKept DEF device_client_process
<1>4. CASE client[c].state # "CONNECTED" /\ process_recv(c)
  BY Zenon, <1>1, <1>4, RecvStep
<1>5. CASE client[c].state # "CONNECTED" /\ process_send(c)
  BY Zenon, <1>1, <1>5, SendStep
<1> QED
  BY Zenon, <1>2, <1>3, <1>4, <1>5 DEF client_process

\* Every step keeps the invariant and leaves streams streams.
LEMMA NextKeeps ==
  ASSUME SessionInv, [Next]_vars
  PROVE  SessionInv' /\ (StreamStep \/ UNCHANGED vars)
<1>1. /\ phase \in {"poll", "usb", "clients", "exit"} /\ revents \in [Clients -> SUBSET Poll]
  BY Zenon DEF SessionInv, TypeOK
<1>2. CASE UNCHANGED vars
  BY Zenon, <1>1, <1>2, LoopKept DEF vars
<1>3. CASE Next
  <2>1. fault = "none"
    BY Zenon, <1>3 DEF Next
  <2>2. CASE ppoll
    <3>1. revents' \in [Clients -> SUBSET Poll]
      BY Zenon, <2>2 DEF ppoll
    <3> QED
      BY Zenon, <2>2, <3>1, LoopKept DEF ppoll
  <2>3. CASE UsbDone \/ ClientsDone
    BY Zenon, <1>1, <2>3, LoopKept DEF UsbDone, ClientsDone
  <2>4. CASE shutdown
    BY Zenon, <2>1, <2>4, ShutdownStep
  <2>5. ASSUME NEW c \in Clients, client_accept(c) PROVE SessionInv' /\ StreamStep
    BY Zenon, <2>1, <2>5, AcceptKept
  <2>6. ASSUME NEW c \in Clients, device_tcp_input(c) PROVE SessionInv' /\ StreamStep
    BY Zenon, <2>1, <2>6, InputStep
  <2>7. ASSUME NEW c \in Clients, device_check_timeouts(c) PROVE SessionInv' /\ StreamStep
    BY Zenon, <1>1, <2>1, <2>7, TransferKept DEF device_check_timeouts
  <2>8. ASSUME NEW c \in Clients, client_process(c) PROVE SessionInv' /\ StreamStep
    BY Zenon, <2>1, <2>8, ProcessStep
  <2>9. ASSUME NEW d \in Devices, device_add(d) PROVE SessionInv' /\ StreamStep
    BY Zenon, <2>1, <2>9, AddStep
  <2>10. ASSUME NEW d \in Devices, device_remove(d) PROVE SessionInv' /\ StreamStep
    BY Zenon, <2>1, <2>10, RemoveStep
  <2> QED
    BY SMTT(40), <1>3, <2>2, <2>3, <2>4, <2>5, <2>6, <2>7, <2>8, <2>9, <2>10 DEF Next
<1> QED
  BY Zenon, <1>2, <1>3

-----------------------------------------------------------------------------

\* The inductive invariant holds in every reachable state of main_loop, for
\* any set of clients, any finite set of devices and any number of commands.
THEOREM SessionInvariance == Spec => []SessionInv
<1>1. Init => SessionInv
  BY Zenon, InitEstablishes
<1>2. SessionInv /\ [Next]_vars => SessionInv'
  BY Zenon, NextKeeps
<1> QED
  BY <1>1, <1>2, PTL DEF Spec

\* The structures of client.c and device.c keep their types.
THEOREM SessionTypes == Spec => []TypeOK
<1>1. SessionInv => TypeOK
  BY Zenon DEF SessionInv
<1> QED
  BY <1>1, SessionInvariance, PTL

\* A client and its connection live and die together, whichever of
\* client_close, connection_teardown, device_remove and the outcome of the
\* SYN comes first.
THEOREM ClientAndConnectionLinked == Spec => []Linked
<1>1. SessionInv => Linked
  <2> SUFFICES ASSUME SessionInv, fault = "none", NEW c \in Clients
               PROVE  /\ client[c].state = "CONNECTING1" <=> conn[c].state = "CONNECTING"
                      /\ client[c].state \in {"CONNECTING2", "CONNECTED"}
                           <=> conn[c].state = "CONNECTED"
                      /\ conn[c].state # "NONE" => device[conn[c].dev] = "ACTIVE"
    BY Zenon DEF Linked
  <2> QED
    BY SMTT(40), BundleOf DEF Consistent
<1> QED
  BY <1>1, SessionInvariance, PTL

\* No wakeup is lost: what client_get_fds gives to ppoll is what the client
\* and its connection wait for.
THEOREM NoLostWakeup == Spec => []Polled
<1>1. SessionInv => Polled
  <2> SUFFICES ASSUME SessionInv, fault = "none", NEW c \in Clients
               PROVE  /\ client[c].ob > 0 => "POLLOUT" \in client[c].events
                      /\ client[c].state = "CONNECTED" =>
                           client[c].events = conn[c].events /\ client[c].ob = 0
                      /\ client[c].state = "CONNECTING2" =>
                           client[c].ob > 0 /\ client[c].devents = conn[c].events
    BY Zenon DEF Polled
  <2> QED
    BY SMTT(40), BundleOf DEF Consistent
<1> QED
  BY <1>1, SessionInvariance, PTL

\* Every command that client_command answers is answered once and in order; a
\* Connect may be the one that is outstanding.
THEOREM CommandsAnswered == Spec => []AnsweredInOrder
<1>1. SessionInv => AnsweredInOrder
  <2> SUFFICES ASSUME SessionInv, fault = "none", NEW c \in Clients,
                      client[c].state # "CLOSED"
               PROVE  answers[c] = Tags(IF client[c].state = "CONNECTING1"
                                        THEN asked[c] - 1 ELSE asked[c])
    BY Zenon DEF AnsweredInOrder
  <2> QED
    BY BundleOf DEF Consistent
<1> QED
  BY <1>1, SessionInvariance, PTL

\* A client that was told it is connected is never sent a message again and
\* never goes back to commands.
THEOREM StreamsStayStreams == Spec => StreamIsFinal
<1>1. SessionInv /\ [Next]_vars => [StreamStep]_vars
  BY Zenon, NextKeeps
<1> QED
  BY <1>1, SessionInvariance, PTL DEF Spec, StreamIsFinal

-----------------------------------------------------------------------------
(* Where the errors of freeing and locking come from.                        *)

\* What a step makes of the bundle s of a client, if it is not a command in a
\* wrong state: only a client in CONNECTING2 can bring an error about, and a
\* slot that is not accepted yet is left alone.
Outcome(s, r) ==
  /\ s.cl.state = "NEW" => r.cl = s.cl
  /\ s.cl.state # "NEW" => r.cl.state # "NEW"
  /\ r.fault # "none" => s.cl.state = "CONNECTING2" /\ r.fault # "used after close"

\* client_close without the lock frees a structure twice only in CONNECTING2.
LEMMA CloseOutcome ==
  ASSUME NEW s \in BundleType, NEW n \in Nat, Consistent(s, n), s.fault = "none",
         s.cl.state \notin {"NEW", "CLOSED"}
  PROVE  Outcome(s, client_close(s, FALSE))
<1>1. PICK w \in WideType : w = s
  BY Zenon, Widen
<1>2. /\ client_close(w, FALSE).cl = Blank("CLOSED")
  BY Zenon, CloseFields
<1>3. CASE w.cl.state \notin Connecting
  <2>1. client_close(w, FALSE) = Free(w)
    BY Zenon, <1>3 DEF client_close
  <2>2. Free(w).fault = w.fault
    BY Zenon, <1>1, FreeFields
  <2> QED
    BY Zenon, <1>1, <1>2, <2>1, <2>2, BlankTypes DEF Outcome
<1>4. CASE w.cl.state \in Connecting
  <2>1. PICK d \in WideType : d = [w EXCEPT !.cl.state = "DEAD"]
    BY Zenon, MarkFields
  <2>2. d.cl.state = "DEAD" /\ d.cn = w.cn /\ d.fault = w.fault
    BY Zenon, <2>1, MarkFields
  <2>3. PICK a \in WideType : a = device_abort_connect(d, FALSE)
    BY Zenon, AbortFields
  <2>4. d.cn.state # "CONNECTED" => a.cl = d.cl /\ a.fault = d.fault
    BY Zenon, <2>3, AbortFields
  <2>5. client_close(w, FALSE) = Free(a)
    BY Zenon, <1>4, <2>1, <2>3 DEF client_close
  <2>6. /\ a.cl.state # "CLOSED" => Free(a).fault = a.fault
        /\ a.cl.state = "CLOSED" => Free(a).fault = "freed twice"
    BY Zenon, FreeFields
  <2>7. CASE s.cl.state = "CONNECTING1"
    <3>1. d.cn.state = "CONNECTING"
      BY Zenon, <1>1, <2>2, <2>7 DEF Consistent
    <3>2. Free(a).fault = "none"
      BY Zenon, <1>1, <2>2, <2>4, <2>6, <3>1
    <3> QED
      BY Zenon, <1>1, <1>2, <2>5, <3>2, BlankTypes DEF Outcome
  <2>8. CASE s.cl.state = "CONNECTING2"
    <3>1. d.cn.state = "CONNECTED"
      BY Zenon, <1>1, <2>2, <2>8 DEF Consistent
    <3>2. a.cl = Blank("CLOSED")
      BY Zenon, <2>3, <3>1, AbortFields
    <3>3. Free(a).fault = "freed twice"
      BY Zenon, <2>6, <3>2, BlankTypes
    <3> QED
      BY ZenonT(40), <1>1, <1>2, <2>5, <2>8, <3>3, BlankTypes DEF Outcome
  <2> QED
    BY Zenon, <1>1, <1>4, <2>7, <2>8 DEF Connecting
<1> QED
  BY Zenon, <1>3, <1>4

\* connection_teardown takes the lock twice only in CONNECTING2, and without
\* the lock never fails.
LEMMA TeardownOutcome ==
  ASSUME NEW s \in BundleType, NEW n \in Nat, Consistent(s, n), s.fault = "none",
         NEW locked \in BOOLEAN, s.cn.state # "NONE"
  PROVE  LET r == connection_teardown(s, locked)
         IN  Outcome(s, r) /\ (~locked => r.fault = "none")
<1>0. s.cl.state # "NEW"
  BY Zenon, BundleFields DEF Consistent
<1>1. CASE s.cn.state = "CONNECTING"
  <2>1. s.cl.state = "CONNECTING1"
    BY Zenon, <1>1 DEF Consistent
  <2>2. PICK q : q = client_notify_connect(s, FALSE)
    BY Zenon
  <2>3. q \in BundleType /\ q.fault = "none" /\ q.cl.state = "COMMAND"
    BY Zenon, <2>1, <2>2, NotifyFields
  <2>4. PICK w \in WideType : w = q
    BY Zenon, <2>3, Widen
  <2>5. LET r == [w EXCEPT !.cn = NoConn] IN r.cl = w.cl /\ r.fault = w.fault
    BY Zenon, DropFields
  <2>6. connection_teardown(s, locked) = [w EXCEPT !.cn = NoConn]
    BY Zenon, <1>1, <2>2, <2>4 DEF connection_teardown
  <2> QED
    BY Zenon, <1>0, <2>3, <2>4, <2>5, <2>6 DEF Outcome
<1>2. CASE s.cn.state = "CONNECTED"
  <2>0. s.cl.state \in {"CONNECTING2", "CONNECTED"}
    BY Zenon, <1>2 DEF Consistent
  <2>1. PICK d \in WideType : d = [s EXCEPT !.cn.state = "DEAD"]
    BY Zenon, Widen, MarkFields
  <2>2. d.cl = s.cl /\ d.cn.state = "DEAD" /\ d.fault = "none"
    BY Zenon, <2>1, Widen, MarkFields
  <2>3. PICK q \in WideType : q = client_close(d, locked)
    BY Zenon, CloseFields
  <2>4. q.cl = Blank("CLOSED")
    BY Zenon, <2>3, CloseFields
  <2>5. LET r == [q EXCEPT !.cn = NoConn] IN r.cl = q.cl /\ r.fault = q.fault
    BY Zenon, DropFields
  <2>6. connection_teardown(s, locked) = [q EXCEPT !.cn = NoConn]
    BY Zenon, <1>2, <2>1, <2>3 DEF connection_teardown
  <2>7. CASE s.cl.state = "CONNECTED"
    <3>1. q = Free(d)
      BY Zenon, <2>2, <2>3, <2>7 DEF client_close, Connecting
    <3>2. q.fault = "none"
      BY Zenon, <2>2, <2>7, <3>1, FreeFields
    <3> QED
      BY Zenon, <1>0, <2>4, <2>5, <2>6, <3>2, BlankTypes DEF Outcome
  <2>8. CASE s.cl.state = "CONNECTING2"
    <3>1. PICK e \in WideType : e = [d EXCEPT !.cl.state = "DEAD"]
      BY Zenon, MarkFields
    <3>2. e.cl.state = "DEAD" /\ e.cn.state = "DEAD" /\ e.fault = "none"
      BY Zenon, <2>2, <3>1, MarkFields
    <3>3. PICK a \in WideType : a = device_abort_connect(e, locked)
      BY Zenon, AbortFields
    <3>4. a.cl = e.cl /\ a.fault = IF locked THEN "locked twice" ELSE "none"
      BY Zenon, <3>2, <3>3, AbortFields
    <3>5. q = Free(a)
      BY Zenon, <2>2, <2>3, <2>8, <3>1, <3>3 DEF client_close, Connecting
    <3>6. q.fault = a.fault
      BY Zenon, <3>2, <3>4, <3>5, FreeFields
    <3> QED
      BY ZenonT(40), <1>0, <2>4, <2>5, <2>6, <2>8, <3>4, <3>6, BlankTypes DEF Outcome
  <2> QED
    BY Zenon, <2>0, <2>7, <2>8
<1> QED
  BY Zenon, <1>1, <1>2, BundleFields

\* Listen reports no error.
LEMMA ListenOutcome ==
  ASSUME NEW s \in BundleType, NEW n \in Nat, Consistent(s, n), s.cl.state = "COMMAND"
  PROVE  LET r == start_listen(s)
         IN  r \in BundleType /\ r.cl.state = "LISTEN" /\ r.fault = s.fault
<1>1. LET r == start_listen(s) IN r \in BundleType /\ r.cl.state = "LISTEN"
  BY Zenon, ListenConsistent
<1>2. start_listen(s).fault = s.fault
  BY Zenon DEF start_listen, send_pkt, BundleType
<1> QED
  BY Zenon, <1>1, <1>2

\* A step that does not change the state, or starts to carry data.
LEMMA SameOutcome ==
  ASSUME NEW s \in BundleType, s.fault = "none", s.cl.state # "NEW", NEW r,
         r.cl.state \in {s.cl.state, "CONNECTED"}, r.fault = s.fault
  PROVE  Outcome(s, r)
BY Zenon DEF Outcome

\* An event for a listener is no danger.
LEMMA ListenerOutcome ==
  ASSUME NEW s \in BundleType, NEW n \in Nat, Consistent(s, n), s.fault = "none"
  PROVE  Outcome(s, NotifyListener(s))
<1>1. CASE s.cl.state = "LISTEN"
  <2>1. PICK i \in Nat : i = 1
    BY Zenon
  <2>2. LET r == send_pkt(s, i) IN r.fault = s.fault /\ r.cl.state = s.cl.state
    BY Zenon, <1>1, SendKeeps
  <2> QED
    BY Zenon, <1>1, <2>1, <2>2 DEF NotifyListener, Outcome
<1>2. CASE s.cl.state # "LISTEN"
  BY Zenon, <1>2 DEF NotifyListener, Outcome
<1> QED
  BY Zenon, <1>1, <1>2

\* The SYN+ACK of the device is no danger.
LEMMA EstablishOutcome ==
  ASSUME NEW s \in BundleType, NEW n \in Nat, Consistent(s, n), s.fault = "none",
         s.cn.state = "CONNECTING", NEW m \in SUBSET Poll
  PROVE  Outcome(s, client_set_events(
                      client_notify_connect([s EXCEPT !.cn.state = "CONNECTED"], TRUE), m))
<1>1. s.cl.state = "CONNECTING1"
  BY Zenon DEF Consistent
<1>2. PICK j \in Connection : j = s.cn
  BY Zenon, BundleFields
<1>3. PICK b \in Connection : b = [j EXCEPT !.state = "CONNECTED"]
  <2>1. [j EXCEPT !.state = "CONNECTED"] \in Connection
    BY Zenon DEF Connection
  <2> QED
    BY Zenon, <2>1
<1>4. PICK p : p = [s EXCEPT !.cn = b]
  BY Zenon
<1>5. p \in BundleType /\ p.cl = s.cl /\ p.fault = s.fault
  BY Zenon, <1>4 DEF BundleType
<1>6. p = [s EXCEPT !.cn.state = "CONNECTED"]
  BY Zenon, <1>2, <1>3, <1>4
<1>7. PICK q : q = client_notify_connect(p, TRUE)
  BY Zenon
<1>8. q \in BundleType /\ q.fault = p.fault /\ q.cl.state = "CONNECTING2"
  <2>1. p.cl.state = "CONNECTING1"
    BY Zenon, <1>1, <1>5
  <2>2. LET r == client_notify_connect(p, TRUE)
        IN  r \in BundleType /\ r.fault = p.fault /\ r.cl.state = "CONNECTING2"
    BY Zenon, <1>5, <2>1, NotifyFields
  <2> QED
    BY Zenon, <1>7, <2>2
<1>9. LET r == client_set_events(q, m) IN r.fault = q.fault /\ r.cl.state = q.cl.state
  BY Zenon, <1>8, SetEventsFields
<1> QED
  BY ZenonT(40), <1>1, <1>5, <1>6, <1>7, <1>8, <1>9 DEF Outcome

\* Writing to a client is no danger.
LEMMA SendOutcome ==
  ASSUME NEW s \in BundleType, s.fault = "none", s.cl.state # "NEW"
  PROVE  /\ Outcome(s, [s EXCEPT !.cl.events = @ \ {"POLLOUT"}])
         /\ Outcome(s, Flushed(s))
         /\ \A i : Outcome(s, [s EXCEPT !.cl.ob = i])
<1>1. PICK k \in Client : k = s.cl
  BY Zenon, BundleFields
<1>2. Outcome(s, [s EXCEPT !.cl.events = @ \ {"POLLOUT"}])
  BY Zenon, <1>1 DEF Outcome, BundleType, Client
<1>3. Outcome(s, Flushed(s))
  BY Zenon, <1>1 DEF Flushed, Outcome, BundleType, Client
<1>4. \A i : Outcome(s, [s EXCEPT !.cl.ob = i])
  BY Zenon, <1>1 DEF Outcome, BundleType, Client
<1> QED
  BY Zenon, <1>2, <1>3, <1>4

\* A command in COMMAND is no danger; in LISTEN and CONNECTING1 it closes the
\* client, whose ib_size is then reset.
LEMMA CommandOutcomes ==
  ASSUME NEW s \in BundleType, NEW n \in Nat, Consistent(s, n), s.fault = "none",
         s.cl.state \in {"COMMAND", "LISTEN", "CONNECTING1"},
         NEW msg \in Messages, NEW r \in client_command(s, n + 1, msg)
  PROVE  LET q == ResetInput(r)
         IN  /\ q.cl.state # "NEW"
             /\ s.cl.state = "COMMAND" => q.fault = "none"
             /\ s.cl.state # "COMMAND" => q.fault = "used after close" /\ q.cl.state = "CLOSED"
<1>1. CASE s.cl.state # "COMMAND"
  <2>1. PICK t \in Nat : t = n + 1
    OBVIOUS
  <2>2. PICK q : q = send_result(s, t)
    BY Zenon
  <2>3. /\ q \in BundleType /\ q.cn = s.cn /\ q.cl.state = s.cl.state /\ q.fault = s.fault
    <3>1. t \in Nat BY Zenon, <2>1
    <3> QED BY ZenonT(40), <2>2, <3>1, SendResultFields
  <2>4. r = client_close(q, FALSE)
    BY Zenon, <1>1, <2>1, <2>2 DEF client_command
  <2>5. r.cl = Blank("CLOSED") /\ r.fault = "none"
    <3>1. PICK w \in WideType : w = q
      BY Zenon, <2>3, Widen
    <3>2. r.cl = Blank("CLOSED")
      BY Zenon, <2>4, <3>1, CloseFields
    <3>3. CASE s.cl.state = "LISTEN"
      <4>1. r = Free(w)
        BY Zenon, <2>3, <2>4, <3>1, <3>3 DEF client_close, Connecting
      <4>2. r.fault = "none"
        BY Zenon, <2>3, <3>1, <3>3, <4>1, FreeFields
      <4> QED
        BY Zenon, <3>2, <4>2
    <3>4. CASE s.cl.state = "CONNECTING1"
      <4>1. PICK d \in WideType : d = [w EXCEPT !.cl.state = "DEAD"]
        BY Zenon, MarkFields
      <4>2. d.cl.state = "DEAD" /\ d.cn = w.cn /\ d.fault = w.fault
        BY Zenon, <4>1, MarkFields
      <4>3. d.cn.state = "CONNECTING"
        BY SMTT(40), <2>3, <3>1, <3>4, <4>2 DEF Consistent
      <4>4. PICK a \in WideType : a = device_abort_connect(d, FALSE)
        BY Zenon, AbortFields
      <4>5. a.cl = d.cl /\ a.fault = d.fault
        BY Zenon, <4>3, <4>4, AbortFields
      <4>6. r = Free(a)
        BY ZenonT(40), <2>3, <2>4, <3>1, <3>4, <4>1, <4>4 DEF client_close, Connecting
      <4>7. r.fault = a.fault
        BY Zenon, <4>2, <4>5, <4>6, FreeFields
      <4> QED
        BY Zenon, <2>3, <3>1, <3>2, <4>2, <4>5, <4>7
    <3> QED
      BY Zenon, <1>1, <3>3, <3>4
  <2>6. r \in BundleType
    BY CommandOutcome
  <2>7. ResetInput(r) = [r EXCEPT !.fault = "used after close"]
    BY Zenon, <2>5, BlankTypes DEF ResetInput
  <2>8. ResetInput(r).cl = r.cl /\ ResetInput(r).fault = "used after close"
    BY Zenon, <2>6, <2>7 DEF BundleType
  <2> QED
    BY Zenon, <1>1, <2>5, <2>8, BlankTypes
<1>2. CASE s.cl.state = "COMMAND"
  <2>1. r \in BundleType /\ r.fault = "none" /\ r.cl.state \in {"COMMAND", "LISTEN", "CONNECTING1"}
    <3>1. PICK q : q = send_result(s, n + 1)
      BY Zenon
    <3>2. /\ q \in BundleType /\ Consistent(q, n + 1) /\ q.fault = s.fault
          /\ q.cl.state = "COMMAND"
      BY Zenon, <1>2, <3>1, AnswerConsistent
    <3>3. CASE r = s \/ r = q
      BY Zenon, <1>2, <3>2, <3>3
    <3>4. CASE r = start_listen(q)
      BY <3>2, <3>4, ListenOutcome
    <3>5. CASE msg \in Devices /\ r = StartConnect(s, n + 1, msg)
      <4>1. LET x == StartConnect(s, n + 1, msg)
            IN  x \in BundleType /\ x.fault = s.fault /\ x.cl.state = "CONNECTING1"
        BY ZenonT(40), <1>2, <3>5, StartConnectConsistent
      <4> QED
        BY Zenon, <3>5, <4>1
    <3>6. \/ r = s \/ r = q \/ r = start_listen(q)
          \/ msg \in Devices /\ r = StartConnect(s, n + 1, msg)
      <4>1. CASE msg = "Garbage"
        BY Zenon, <1>2, <4>1, SessionAssumption DEF client_command
      <4>2. CASE msg = "Other" \/ msg = "Listen"
        BY Zenon, <1>2, <3>1, <4>2, SessionAssumption DEF client_command
      <4>3. CASE msg \in Devices /\ msg \notin {"Garbage", "Other", "Listen"}
        BY Zenon, <1>2, <3>1, <4>3 DEF client_command
      <4> QED
        BY Zenon, <4>1, <4>2, <4>3, SessionAssumption DEF Messages
    <3> QED
      BY Zenon, <3>3, <3>4, <3>5, <3>6
  <2>2. ResetInput(r) = [r EXCEPT !.cl.ib = 0]
    BY Zenon, <2>1 DEF ResetInput
  <2>3. PICK k \in Client : k = r.cl
    BY Zenon, <2>1, BundleFields
  <2>4. ResetInput(r).fault = r.fault /\ ResetInput(r).cl.state = r.cl.state
    BY SMTT(40), <2>1, <2>2, <2>3 DEF BundleType, Client
  <2> QED
    BY Zenon, <1>2, <2>1, <2>4
<1> QED
  BY Zenon, <1>1, <1>2

\* A step of one client that is no command in a wrong state.
LEMMA ApplyConfined ==
  ASSUME SessionInv, Quiet, fault = "none", NEW c \in Clients, NEW r,
         Apply(c, r), Outcome(Bundle(c), r),
         revents' = revents \/ revents' = [revents EXCEPT ![c] = {}]
  PROVE  Quiet' /\ FaultStep
<1>1. /\ client \in [Clients -> Client] /\ revents \in [Clients -> SUBSET Poll]
  BY Zenon DEF SessionInv, TypeOK
<1>2. /\ client' = [client EXCEPT ![c] = r.cl] /\ fault' = r.fault
  BY Zenon DEF Apply
<1>3. /\ client[c].state = "NEW" => r.cl = client[c]
      /\ client[c].state # "NEW" => r.cl.state # "NEW"
      /\ r.fault # "none" => client[c].state = "CONNECTING2" /\ r.fault # "used after close"
  BY Zenon, BundleOf DEF Outcome
<1>4. Quiet'
  BY Zenon, <1>1, <1>2, <1>3 DEF Quiet
<1>5. FaultStep
  BY Zenon, <1>2, <1>3 DEF FaultStep
<1> QED
  BY Zenon, <1>4, <1>5

\* A step of all clients.
LEMMA ApplyAllConfined ==
  ASSUME SessionInv, Quiet, fault = "none", NEW b, ApplyAll(b),
         \A c \in Clients : Outcome(Bundle(c), b[c]), revents' = revents
  PROVE  Quiet' /\ FaultStep
<1>1. client' = [c \in Clients |-> b[c].cl]
  BY Zenon DEF ApplyAll
<1>2. ASSUME NEW c \in Clients
      PROVE  /\ client[c].state = "NEW" => b[c].cl = client[c]
             /\ client[c].state # "NEW" => b[c].cl.state # "NEW"
             /\ b[c].fault # "none" =>
                  client[c].state = "CONNECTING2" /\ b[c].fault # "used after close"
  <2>1. Bundle(c).cl = client[c]
    BY Zenon, BundleOf
  <2> QED
    BY Zenon, <2>1 DEF Outcome
<1>3. Quiet'
  BY Zenon, <1>1, <1>2 DEF Quiet
<1>4. FaultStep
  <2>1. CASE \E c \in Clients : b[c].fault # "none"
    <3>1. PICK x \in Clients : x = (CHOOSE c \in Clients : b[c].fault # "none") /\ b[x].fault # "none"
      BY Zenon, <2>1
    <3>2. fault' = b[x].fault
      BY Zenon, <2>1, <3>1 DEF ApplyAll
    <3> QED
      BY Zenon, <1>2, <3>1, <3>2 DEF FaultStep
  <2>2. CASE ~ \E c \in Clients : b[c].fault # "none"
    BY Zenon, <2>2 DEF ApplyAll, FaultStep
  <2> QED
    BY Zenon, <2>1, <2>2
<1> QED
  BY Zenon, <1>3, <1>4

\* The transfers of an established connection.
LEMMA TransferConfined ==
  ASSUME SessionInv, Quiet, fault = "none", NEW c \in Clients, NEW locked \in BOOLEAN,
         conn[c].state = "CONNECTED",
         \/ Apply(c, connection_teardown(Bundle(c), locked))
         \/ \E m \in SUBSET Poll : Apply(c, client_set_events(Bundle(c), m)),
         revents' = revents \/ revents' = [revents EXCEPT ![c] = {}]
  PROVE  Quiet' /\ FaultStep
<1>1. PICK s : s = Bundle(c)
  BY Zenon
<1>2. PICK n \in Nat : n = asked[c]
  BY Zenon, BundleOf
<1>3. /\ s \in BundleType /\ Consistent(s, n) /\ s.cn.state = "CONNECTED" /\ s.fault = "none"
  BY Zenon, <1>1, <1>2, BundleOf
<1>4. CASE Apply(c, connection_teardown(s, locked))
  <2>1. PICK r : r = connection_teardown(s, locked)
    BY Zenon
  <2>2. Outcome(s, r)
    BY Zenon, <1>3, <2>1, TeardownOutcome
  <2> QED
    BY Zenon, <1>1, <1>4, <2>1, <2>2, ApplyConfined
<1>5. ASSUME NEW m \in SUBSET Poll, Apply(c, client_set_events(s, m))
      PROVE  Quiet' /\ FaultStep
  <2>1. PICK r : r = client_set_events(s, m)
    BY Zenon
  <2>2. r.fault = s.fault /\ r.cl.state = s.cl.state
    BY ZenonT(40), <1>3, <2>1, SetEventsFields
  <2>3. s.cl.state # "NEW"
    BY Zenon, <1>3 DEF Consistent
  <2>4. Outcome(s, r)
    BY Zenon, <1>3, <2>2, <2>3 DEF Outcome
  <2> QED
    BY Zenon, <1>1, <1>5, <2>1, <2>4, ApplyConfined
<1> QED
  BY Zenon, <1>1, <1>4, <1>5

\* device_tcp_input.
LEMMA InputConfined ==
  ASSUME SessionInv, Quiet, fault = "none", NEW c \in Clients, device_tcp_input(c)
  PROVE  Quiet' /\ FaultStep
<1>0. revents' = revents
  BY Zenon DEF device_tcp_input
<1>1. CASE conn[c].state = "CONNECTED"
  BY Zenon, <1>0, <1>1, TransferConfined DEF device_tcp_input, InputConnected
<1>2. CASE conn[c].state = "CONNECTING"
  <2>1. PICK s : s = Bundle(c)
    BY Zenon
  <2>2. PICK n \in Nat : n = asked[c]
    BY Zenon, BundleOf
  <2>3. /\ s \in BundleType /\ Consistent(s, n) /\ s.cn.state = "CONNECTING" /\ s.fault = "none"
    BY Zenon, <1>2, <2>1, <2>2, BundleOf
  <2>4. CASE Apply(c, connection_teardown(s, FALSE))
    <3>1. PICK r : r = connection_teardown(s, FALSE)
      BY Zenon
    <3>2. Outcome(s, r)
      BY Zenon, <2>3, <3>1, TeardownOutcome
    <3> QED
      BY Zenon, <1>0, <2>1, <2>4, <3>1, <3>2, ApplyConfined
  <2>5. ASSUME NEW m \in SUBSET Poll,
               Apply(c, client_set_events(
                          client_notify_connect([s EXCEPT !.cn.state = "CONNECTED"], TRUE), m))
        PROVE  Quiet' /\ FaultStep
    <3>1. PICK r : r = client_set_events(
                         client_notify_connect([s EXCEPT !.cn.state = "CONNECTED"], TRUE), m)
      BY Zenon
    <3>2. Outcome(s, r)
      BY Zenon, <2>3, <3>1, EstablishOutcome
    <3> QED
      BY Zenon, <1>0, <2>1, <2>5, <3>1, <3>2, ApplyConfined
  <2> QED
    BY Zenon, <1>2, <2>1, <2>4, <2>5 DEF device_tcp_input, InputConnecting
<1> QED
  BY Zenon, <1>1, <1>2 DEF device_tcp_input

\* device_add and device_remove.
LEMMA DevicesConfined ==
  ASSUME SessionInv, Quiet, fault = "none", NEW d \in Devices, device_add(d) \/ device_remove(d)
  PROVE  Quiet' /\ FaultStep
<1>1. ASSUME NEW c \in Clients
      PROVE  /\ Outcome(Bundle(c), NotifyListener(Bundle(c)))
             /\ conn[c].dev = d => Outcome(Bundle(c), connection_teardown(Bundle(c), TRUE))
  <2>1. PICK s : s = Bundle(c)
    BY Zenon
  <2>2. PICK n \in Nat : n = asked[c]
    BY Zenon, BundleOf
  <2>3. s \in BundleType /\ Consistent(s, n) /\ s.cn = conn[c] /\ s.fault = "none"
    BY Zenon, <2>1, <2>2, BundleOf
  <2>4. Outcome(s, NotifyListener(s))
    BY Zenon, <2>3, ListenerOutcome
  <2>5. ASSUME conn[c].dev = d PROVE Outcome(s, connection_teardown(s, TRUE))
    <3>1. s.cn.state # "NONE"
      BY SMTT(40), <2>3, <2>5, SessionAssumption DEF Consistent, NoConn
    <3> QED
      BY Zenon, <2>3, <3>1, TeardownOutcome
  <2> QED
    BY Zenon, <2>1, <2>4, <2>5
<1>2. CASE device_add(d)
  <2>1. PICK b : b = [c \in Clients |-> NotifyListener(Bundle(c))]
    BY Zenon
  <2>2. ApplyAll(b) /\ revents' = revents
    BY Zenon, <1>2, <2>1 DEF device_add
  <2>3. \A c \in Clients : Outcome(Bundle(c), b[c])
    BY Zenon, <1>1, <2>1
  <2> QED
    BY Zenon, <2>2, <2>3, ApplyAllConfined
<1>3. CASE device_remove(d)
  <2>1. PICK b : b = [c \in Clients |->
                        IF conn[c].dev = d THEN connection_teardown(Bundle(c), TRUE)
                        ELSE NotifyListener(Bundle(c))]
    BY Zenon
  <2>2. ApplyAll(b) /\ revents' = revents
    BY Zenon, <1>3, <2>1 DEF device_remove
  <2>3. \A c \in Clients : Outcome(Bundle(c), b[c])
    BY Zenon, <1>1, <2>1
  <2> QED
    BY Zenon, <2>2, <2>3, ApplyAllConfined
<1> QED
  BY Zenon, <1>2, <1>3

\* shutdown: the connections first, then the clients, without an error.
LEMMA ShutdownConfined ==
  ASSUME SessionInv, Quiet, fault = "none", shutdown
  PROVE  Quiet' /\ FaultStep
<1> DEFINE torn(c) == IF conn[c].state = "NONE" THEN Bundle(c)
                      ELSE connection_teardown(Bundle(c), FALSE)
<1>1. PICK b : b = [c \in Clients |->
                      IF torn(c).cl.state \in {"NEW", "CLOSED"} THEN torn(c)
                      ELSE client_close(torn(c), FALSE)]
  BY Zenon
<1>2. ApplyAll(b) /\ revents' = revents
  BY Zenon, <1>1 DEF shutdown
<1>3. ASSUME NEW c \in Clients
      PROVE  Outcome(Bundle(c), b[c])
  <2>1. PICK s : s = Bundle(c)
    BY Zenon
  <2>2. PICK n \in Nat : n = asked[c]
    BY Zenon, BundleOf
  <2>3. s \in BundleType /\ Consistent(s, n) /\ s.cn = conn[c] /\ s.fault = "none"
    BY Zenon, <2>1, <2>2, BundleOf
  <2>4. PICK t : t = torn(c)
    BY Zenon
  <2>5. /\ t \in BundleType /\ t.fault = "none" /\ Outcome(s, t)
        /\ t.cl.state \notin Connecting
    <3>1. CASE conn[c].state = "NONE"
      BY ZenonT(40), <2>1, <2>3, <2>4, <3>1 DEF Outcome, Consistent, Connecting
    <3>2. CASE conn[c].state # "NONE"
      <4>1. LET r == connection_teardown(s, FALSE)
            IN  r \in BundleType /\ r.cl.state \in {"COMMAND", "CLOSED"}
        BY Zenon, <2>3, <3>2, TeardownConsistent
      <4>2. LET r == connection_teardown(s, FALSE)
            IN  Outcome(s, r) /\ r.fault = "none"
        BY Zenon, <2>3, <3>2, TeardownOutcome
      <4> QED
        BY Zenon, <2>1, <2>4, <3>2, <4>1, <4>2 DEF Connecting
    <3> QED
      BY Zenon, <3>1, <3>2
  <2>6. CASE t.cl.state \in {"NEW", "CLOSED"}
    <3>1. b[c] = t
      BY Zenon, <1>1, <2>4, <2>6
    <3> QED
      BY Zenon, <2>1, <2>5, <3>1
  <2>7. CASE t.cl.state \notin {"NEW", "CLOSED"}
    <3>1. b[c] = client_close(t, FALSE)
      BY Zenon, <1>1, <2>4, <2>7
    <3>2. client_close(t, FALSE) = Free(t)
      BY Zenon, <2>5 DEF client_close
    <3>3. PICK w \in WideType : w = t
      BY Zenon, <2>5, Widen
    <3>4. Free(w).cl = Blank("CLOSED") /\ Free(w).fault = "none"
      BY Zenon, <2>5, <2>7, <3>3, FreeFields
    <3>5. s.cl.state # "NEW"
      BY Zenon, <2>5, <2>7 DEF Outcome
    <3> QED
      BY Zenon, <2>1, <3>1, <3>2, <3>3, <3>4, <3>5, BlankTypes DEF Outcome
  <2> QED
    BY Zenon, <2>6, <2>7
<1> QED
  BY Zenon, <1>2, <1>3, ApplyAllConfined

\* client_process, the only place where a command in a wrong state is read.
LEMMA ProcessConfined ==
  ASSUME SessionInv, Quiet, fault = "none", NEW c \in Clients, client_process(c)
  PROVE  Quiet' /\ FaultStep
<1>1. PICK s : s = Bundle(c)
  BY Zenon
<1>2. PICK n \in Nat : n = asked[c]
  BY Zenon, BundleOf
<1>3. /\ s \in BundleType /\ Consistent(s, n) /\ s.cl = client[c] /\ s.cn = conn[c]
      /\ s.fault = "none" /\ s.cl.state \in ClientStates
  BY Zenon, <1>1, <1>2, BundleOf, BundleFields
<1>4. revents' = [revents EXCEPT ![c] = {}] /\ client[c].state # "NEW"
  BY Zenon DEF client_process, Quiet
<1>5. CASE client[c].state = "CLOSED" /\ UNCHANGED <<client, conn, answers, fault, asked>>
  <2>1. revents \in [Clients -> SUBSET Poll]
    BY Zenon DEF SessionInv, TypeOK
  <2> QED
    BY Zenon, <1>4, <1>5, <2>1 DEF Quiet, FaultStep
<1>6. CASE client[c].state = "CONNECTED" /\ device_client_process(c)
  <2>1. conn[c].state = "CONNECTED"
    BY Zenon, <1>3, <1>6 DEF Consistent
  <2> QED
    BY Zenon, <1>4, <1>6, <2>1, TransferConfined DEF device_client_process
<1>7. ASSUME NEW r, Outcome(s, r), Apply(c, r) PROVE Quiet' /\ FaultStep
  BY Zenon, <1>1, <1>4, <1>7, ApplyConfined
<1>8. ASSUME client[c].state \notin {"CLOSED", "CONNECTED"}
      PROVE  Outcome(s, client_close(s, FALSE))
  BY Zenon, <1>3, <1>4, <1>8, CloseOutcome
<1>9. CASE client[c].state \notin {"CLOSED", "CONNECTED"} /\ process_send(c)
  <2>1. /\ Outcome(s, [s EXCEPT !.cl.events = @ \ {"POLLOUT"}])
        /\ Outcome(s, Flushed(s))
        /\ \A i : Outcome(s, [s EXCEPT !.cl.ob = i])
    BY Zenon, <1>3, <1>4, SendOutcome
  <2>2. \/ Apply(c, [s EXCEPT !.cl.events = @ \ {"POLLOUT"}])
        \/ Apply(c, client_close(s, FALSE))
        \/ Apply(c, Flushed(s))
        \/ \E i \in 1..s.cl.ob : Apply(c, [s EXCEPT !.cl.ob = i])
    BY Zenon, <1>1, <1>9 DEF process_send
  <2> QED
    BY Zenon, <1>7, <1>8, <1>9, <2>1, <2>2
<1>10. CASE client[c].state \notin {"CLOSED", "CONNECTED"} /\ process_recv(c)
  <2>1. ASSUME s.cl.state = "CONNECTING2", Apply(c, [s EXCEPT !.fault = "no input buffer"])
        PROVE  Quiet' /\ FaultStep
    <3>1. Outcome(s, [s EXCEPT !.fault = "no input buffer"])
      BY Zenon, <1>3, <2>1 DEF Outcome, BundleType
    <3> QED
      BY Zenon, <1>7, <2>1, <3>1
  <2>2. ASSUME Apply(c, client_close(s, FALSE)) PROVE Quiet' /\ FaultStep
    BY Zenon, <1>7, <1>8, <1>10, <2>2
  <2>3. ASSUME Apply(c, [s EXCEPT !.cl.ib = 1]) PROVE Quiet' /\ FaultStep
    <3>1. PICK k \in Client : k = s.cl
      BY Zenon, <1>3, BundleFields
    <3>2. Outcome(s, [s EXCEPT !.cl.ib = 1])
      BY Zenon, <1>3, <1>4, <3>1 DEF Outcome, BundleType, Client
    <3> QED
      BY Zenon, <1>7, <2>3, <3>2
  <2>4. ASSUME s.cl.state # "CONNECTING2", NEW msg \in Messages,
               NEW r \in client_command(s, n + 1, msg), Apply(c, ResetInput(r)),
               asked' = IF msg = "Garbage" /\ s.cl.state = "COMMAND" THEN asked
                        ELSE [asked EXCEPT ![c] = @ + 1]
        PROVE  Quiet' /\ FaultStep
    <3>1. s.cl.state \in {"COMMAND", "LISTEN", "CONNECTING1"}
      BY Zenon, <1>3, <1>4, <1>10, <2>4 DEF ClientStates
    <3>2. PICK q : q = ResetInput(r)
      BY Zenon
    <3>3. /\ q.cl.state # "NEW"
          /\ s.cl.state = "COMMAND" => q.fault = "none"
          /\ s.cl.state # "COMMAND" => q.fault = "used after close" /\ q.cl.state = "CLOSED"
      BY ZenonT(40), <1>3, <2>4, <3>1, <3>2, CommandOutcomes
    <3>4. CASE s.cl.state = "COMMAND"
      <4>1. Outcome(s, q)
        BY Zenon, <3>3, <3>4 DEF Outcome
      <4> QED
        BY Zenon, <1>7, <2>4, <3>2, <4>1
    <3>5. CASE s.cl.state # "COMMAND"
      <4>1. /\ client \in [Clients -> Client] /\ revents \in [Clients -> SUBSET Poll]
            /\ asked \in [Clients -> Nat]
        BY Zenon DEF SessionInv, TypeOK
      <4>2. client' = [client EXCEPT ![c] = q.cl] /\ fault' = q.fault
        BY Zenon, <2>4, <3>2 DEF Apply
      <4>3. asked' = [asked EXCEPT ![c] = @ + 1] /\ asked'[c] > asked[c]
        BY SMTT(40), <2>4, <3>5, <4>1
      <4>4. Quiet'
        BY Zenon, <1>4, <3>3, <4>1, <4>2 DEF Quiet
      <4>5. client[c].state \in {"LISTEN", "CONNECTING1"} /\ client'[c].state = "CLOSED"
        BY ZenonT(40), <1>3, <3>1, <3>3, <3>5, <4>1, <4>2
      <4>6. FaultStep
        BY ZenonT(40), <3>3, <3>5, <4>2, <4>3, <4>5 DEF FaultStep
      <4> QED
        BY Zenon, <4>4, <4>6
    <3> QED
      BY Zenon, <3>4, <3>5
  <2> QED
    BY Zenon, <1>1, <1>2, <1>10, <2>1, <2>2, <2>3, <2>4 DEF process_recv
<1> QED
  BY Zenon, <1>5, <1>6, <1>9, <1>10 DEF client_process

\* Every step confines the errors.
LEMMA NextConfines ==
  ASSUME LoopInv, [Next]_vars
  PROVE  LoopInv' /\ (FaultStep \/ UNCHANGED vars)
<1>1. SessionInv /\ Quiet
  BY Zenon DEF LoopInv
<1>2. SessionInv'
  BY Zenon, <1>1, NextKeeps
<1>3. CASE UNCHANGED vars
  BY Zenon, <1>1, <1>2, <1>3 DEF vars, Quiet, LoopInv
<1>4. CASE Next
  <2>1. fault = "none"
    BY Zenon, <1>4 DEF Next
  <2>2. /\ client \in [Clients -> Client] /\ revents \in [Clients -> SUBSET Poll]
    BY Zenon, <1>1 DEF SessionInv, TypeOK
  <2> SUFFICES Quiet' /\ FaultStep
    BY Zenon, <1>2 DEF LoopInv
  <2>3. CASE ppoll
    BY Zenon, <1>1, <2>3 DEF ppoll, Quiet, FaultStep
  <2>4. CASE UsbDone \/ ClientsDone
    BY Zenon, <1>1, <2>4 DEF UsbDone, ClientsDone, Quiet, FaultStep
  <2>5. CASE shutdown
    BY Zenon, <1>1, <2>1, <2>5, ShutdownConfined
  <2>6. ASSUME NEW c \in Clients, client_accept(c) PROVE Quiet' /\ FaultStep
    <3>1. /\ client' = [client EXCEPT ![c] = [Blank("COMMAND") EXCEPT !.events = {"POLLIN"}]]
          /\ revents' = revents /\ fault' = fault
      BY Zenon, <2>6 DEF client_accept
    <3>2. [Blank("COMMAND") EXCEPT !.events = {"POLLIN"}].state = "COMMAND"
      BY Zenon DEF Blank
    <3>3. ASSUME NEW x \in Clients, client'[x].state = "NEW" PROVE client'[x] = client[x]
      BY Zenon, <2>2, <3>1, <3>2, <3>3
    <3> QED
      BY Zenon, <1>1, <3>1, <3>3 DEF Quiet, FaultStep
  <2>7. ASSUME NEW c \in Clients, device_tcp_input(c) PROVE Quiet' /\ FaultStep
    BY Zenon, <1>1, <2>1, <2>7, InputConfined
  <2>8. ASSUME NEW c \in Clients, device_check_timeouts(c) PROVE Quiet' /\ FaultStep
    BY Zenon, <1>1, <2>1, <2>8, TransferConfined DEF device_check_timeouts
  <2>9. ASSUME NEW c \in Clients, client_process(c) PROVE Quiet' /\ FaultStep
    BY Zenon, <1>1, <2>1, <2>9, ProcessConfined
  <2>10. ASSUME NEW d \in Devices, device_add(d) \/ device_remove(d) PROVE Quiet' /\ FaultStep
    BY SMTT(40), <1>1, <2>1, <2>10, DevicesConfined
  <2> QED
    BY SMTT(40), <1>4, <2>3, <2>4, <2>5, <2>6, <2>7, <2>8, <2>9, <2>10 DEF Next
<1> QED
  BY Zenon, <1>3, <1>4

\* The strengthened invariant of main_loop: a slot that client_accept has not
\* filled yet is not polled and has no events.
THEOREM LoopInvariance == Spec => []LoopInv
<1>1. Init => LoopInv
  <2> SUFFICES ASSUME Init PROVE Quiet
    BY SMTT(40), InitEstablishes DEF LoopInv
  <2> QED
    BY Zenon DEF Init, Quiet, Blank
<1>2. LoopInv /\ [Next]_vars => LoopInv'
  BY Zenon, NextConfines
<1> QED
  BY <1>1, <1>2, PTL DEF Spec

\* client_close and connection_teardown, which call each other, free each
\* structure once and take device_list_mutex once, except for a client in
\* CONNECTING2 and for a client closed because of a command in a wrong state.
THEOREM ErrorsAreConfined == Spec => FaultsConfined
<1>1. LoopInv /\ [Next]_vars => [FaultStep]_vars
  BY Zenon, NextConfines
<1> QED
  BY <1>1, LoopInvariance, PTL DEF Spec, FaultsConfined
=============================================================================
