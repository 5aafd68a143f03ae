------------------------ MODULE ServiceThreadsProofs ------------------------
(***************************************************************************)
(* Proofs about ServiceThreads, for any number of calls and messages: a    *)
(* thread that runs is always known by its handle, or about to be, or at   *)
(* its end, and what is freed under it is confined to two places.          *)
(***************************************************************************)
EXTENDS ServiceThreads, TLAPS

-----------------------------------------------------------------------------
(* Types.                                                                    *)

\* Goto leaves the thread at one of its places.
LEMMA GotoTypes ==
  ASSUME NEW p \in WorkerPlaces, Goto(p)
  PROVE  worker' \in [at : WorkerPlaces, msg : 0..MaxData]
BY ServicesAssumption DEF Goto

\* So do Then and Begin with the program.
LEMMA CallTypes ==
  ASSUME TypeOK
  PROVE  /\ \A from \in AppPlaces, to \in AppPlaces :
              Then(from, to) => app' \in [at : AppPlaces, calls : 0..MaxCalls]
         /\ \A k \in {"np", "syslog", "instproxy"}, place \in AppPlaces :
              Begin(k, place) => app' \in [at : AppPlaces, calls : 0..MaxCalls]
BY ServicesAssumption DEF Then, Begin, TypeOK

\* The ends of a sequence that is not empty.
LEMMA QueueTypes ==
  ASSUME NEW S, NEW q \in Seq(S), q # <<>>
  PROVE  Tail(q) \in Seq(S) /\ Head(q) \in S
OBVIOUS

\* A step of the program keeps the types.
LEMMA AppTypes ==
  ASSUME TypeOK, App
  PROVE  TypeOK'
<1> USE DEF App, np_set_notify_callback, np_post_notification, np_client_free,
            syslog_relay_start_capture, syslog_relay_stop_capture,
            instproxy_perform_command, client_free
<1>1. app' \in [at : AppPlaces, calls : 0..MaxCalls]
  BY CallTypes, Zenon DEF AppPlaces
<1>2. worker' \in [at : WorkerPlaces, msg : 0..MaxData]
  BY GotoTypes, Zenon DEF WorkerPlaces, TypeOK
<1>3. parent' \in BOOLEAN /\ conn' \in BOOLEAN /\ client' \in BOOLEAN
  BY Zenon DEF TypeOK, fields
<1>4. handle' \in BOOLEAN
  BY Zenon DEF TypeOK, fields
<1>5. late' \in BOOLEAN /\ mutex' \in {"none", "app", "worker"}
  BY Zenon DEF TypeOK, fields
<1>6. asked' \in BOOLEAN
  BY Zenon DEF TypeOK, fields
<1>7. UNCHANGED <<service, queue, sent, up, told, broken, crashed>>
  BY Zenon
<1> QED BY Zenon, <1>1, <1>2, <1>3, <1>4, <1>5, <1>6, <1>7 DEF TypeOK

\* A step of the thread keeps the types.
LEMMA WorkerTypes ==
  ASSUME TypeOK, Worker
  PROVE  TypeOK'
<1> USE DEF Worker, np_notifier, syslog_relay_worker, instproxy_receive_status_loop, Cleanup,
            Enter, Receive, Callback
<1>1. worker' \in [at : WorkerPlaces, msg : 0..MaxData]
  <2>1. Failed \in WorkerPlaces BY Zenon DEF Failed, WorkerPlaces
  <2>2. CASE np_notifier \/ syslog_relay_worker \/ instproxy_receive_status_loop
    BY <2>2, GotoTypes, Zenon DEF WorkerPlaces
  <2>3. CASE Receive
    <3>1. queue # <<>> => Head(queue) \in 0..MaxData BY Zenon, QueueTypes DEF TypeOK
    <3> QED BY <2>1, <2>3, <3>1, GotoTypes DEF WorkerPlaces, TypeOK
  <2>4. CASE Callback
    BY <2>4, GotoTypes, Zenon DEF WorkerPlaces
  <2> QED BY Zenon, <2>2, <2>3, <2>4
<1>2. handle' \in BOOLEAN /\ late' \in BOOLEAN /\ crashed' \in BOOLEAN /\ broken' \in BOOLEAN
  BY Zenon DEF TypeOK, fields
<1>3. mutex' \in {"none", "app", "worker"}
  BY Zenon DEF TypeOK
<1>4. queue' \in Seq(0..MaxData)
  <2>1. queue # <<>> => Tail(queue) \in Seq(0..MaxData) BY Zenon, QueueTypes DEF TypeOK
  <2>2. queue' \in {queue, Tail(queue)} /\ (queue' # queue => queue # <<>>)
    BY Zenon DEF devVars
  <2> QED BY <2>1, <2>2, Zenon DEF TypeOK
<1>5. told' \in Seq(1..MaxData)
  <2>1. worker.msg # 0 => worker.msg \in 1..MaxData BY ServicesAssumption DEF TypeOK
  <2>2. \A x \in 1..MaxData : Append(told, x) \in Seq(1..MaxData) BY DEF TypeOK
  <2> QED BY <2>1, <2>2, Zenon DEF TypeOK
<1>6. UNCHANGED <<service, parent, conn, client, app, sent, asked, up>>
  BY Zenon DEF fields, devVars
<1> QED BY Zenon, <1>1, <1>2, <1>3, <1>4, <1>5, <1>6 DEF TypeOK

\* A step of the device keeps the types.
LEMMA DeviceTypes ==
  ASSUME TypeOK, DeviceSends \/ DeviceLeaves
  PROVE  TypeOK'
<1> USE DEF DeviceSends, DeviceLeaves, fields
<1>1. queue' \in Seq(0..MaxData)
  <2>1. 0 \in 0..MaxData /\ (sent < MaxData => sent + 1 \in 0..MaxData)
    BY ServicesAssumption DEF TypeOK
  <2>2. \A x \in 0..MaxData : Append(queue, x) \in Seq(0..MaxData) BY DEF TypeOK
  <2> QED BY <2>1, <2>2, Zenon DEF TypeOK
<1>2. sent' \in 0..MaxData BY ServicesAssumption DEF TypeOK
<1>3. asked' \in BOOLEAN /\ up' \in BOOLEAN BY Zenon DEF TypeOK
<1>4. UNCHANGED <<service, parent, conn, client, handle, late, mutex, worker, app, told, broken, crashed>>
  BY Zenon
<1> QED BY <1>1, <1>2, <1>3, <1>4 DEF TypeOK

-----------------------------------------------------------------------------
(* The actions.                                                              *)

\* np_notifier, up to the moment it receives.
LEMMA NpNotifier ==
  ASSUME ServicesInv, TypeOK', ~crashed, np_notifier,
         UNCHANGED <<service, parent, conn, client, app, devVars, told, broken>>
  PROVE  ServicesInv'
<1> USE DEF ServicesInv, np_notifier, devVars, Enter, Goto, At
<1>1. ThreadKnown' BY DEF ThreadKnown, Running, Calls, Places, TypeOK
<1>2. FreedConfined' BY Zenon DEF FreedConfined, Calls, Freeing, Running
<1>3. Places' BY DEF Places, Freeing, Calls, TypeOK, Running
<1>4. Calls' BY Zenon DEF Calls, Running, Freeing, ThreadKnown, Places, TypeOK
<1> QED BY Zenon, <1>1, <1>2, <1>3, <1>4

\* syslog_relay_worker, up to the moment it receives.
LEMMA SyslogWorker ==
  ASSUME ServicesInv, TypeOK', ~crashed, syslog_relay_worker,
         UNCHANGED <<service, parent, conn, client, app, devVars, told, broken>>
  PROVE  ServicesInv'
<1> USE DEF ServicesInv, syslog_relay_worker, devVars, Enter, Goto, At
<1>1. ThreadKnown' BY DEF ThreadKnown, Running, Calls, Places, TypeOK
<1>2. FreedConfined' BY Zenon DEF FreedConfined, Calls, Freeing, Running
<1>3. Places' BY DEF Places, Freeing, Calls, TypeOK, Running
<1>4. Calls' BY Zenon DEF Calls, Running, Freeing, ThreadKnown, Places, TypeOK
<1> QED BY Zenon, <1>1, <1>2, <1>3, <1>4

\* The loop of instproxy and its end, where the thread clears its own handle
\* with the mutex and then unlocks a mutex that may have been freed.
LEMMA InstproxyLoop ==
  ASSUME ServicesInv, TypeOK', ~crashed, instproxy_receive_status_loop,
         UNCHANGED <<service, parent, conn, client, app, devVars, told, broken>>
  PROVE  ServicesInv'
<1> USE DEF ServicesInv, devVars, Goto, At
<1>1. CASE ~Cleanup
  <2> USE DEF instproxy_receive_status_loop, Enter
  <2>1. ThreadKnown' BY <1>1 DEF ThreadKnown, Running, Calls, Places, TypeOK
  <2>2. FreedConfined' BY Zenon, <1>1 DEF FreedConfined, Calls, Freeing, Running
  <2>3. Places' BY <1>1 DEF Places, Freeing, Calls, TypeOK, Running
  <2>4. Calls' BY <1>1 DEF Calls, Running, Freeing, ThreadKnown, Places, TypeOK
  <2> QED BY Zenon, <2>1, <2>2, <2>3, <2>4
<1>2. CASE At("cleanup") /\ Cleanup
  <2> USE DEF Cleanup
  <2>1. ThreadKnown' BY <1>2 DEF ThreadKnown, Running, Calls, Places, TypeOK
  <2>2. FreedConfined' BY Zenon, <1>2 DEF FreedConfined, Calls, Freeing, Running
  <2>3. Places' BY <1>2 DEF Places, Freeing, Calls, TypeOK, Running
  <2>4. Calls' BY Zenon, <1>2 DEF Calls, Running, Freeing, ThreadKnown, Places, TypeOK
  <2> QED BY Zenon, <2>1, <2>2, <2>3, <2>4
<1>3. CASE At("unlock") /\ Cleanup
  <2> USE DEF Cleanup
  <2>1. ThreadKnown' BY <1>3 DEF ThreadKnown, Running, Calls, Places, TypeOK
  <2>2. FreedConfined'
    <3>1. crashed' = ~client BY <1>3, Zenon
    <3>2. crashed' => app.at = "done" BY Zenon, <3>1 DEF Calls, TypeOK
    <3>3. service = "instproxy" /\ worker'.at = "ended" BY <1>3 DEF instproxy_receive_status_loop
    <3> QED BY Zenon, <3>2, <3>3 DEF FreedConfined
  <2>3. Places' BY <1>3 DEF Places, Freeing, Calls, TypeOK, Running
  <2>4. Calls' BY <1>3 DEF Calls, Running, Freeing, ThreadKnown, Places, TypeOK
  <2> QED BY Zenon, <2>1, <2>2, <2>3, <2>4
<1> QED BY Zenon, <1>1, <1>2, <1>3 DEF Cleanup

\* Receiving: the only step that uses the connection.
LEMMA ReceiveStep ==
  ASSUME ServicesInv, TypeOK', ~crashed, Receive,
         UNCHANGED <<service, fields, app, sent, asked, up, told>>
  PROVE  ServicesInv'
<1> USE DEF ServicesInv, Receive, Failed, fields, Goto, At
<1>1. ThreadKnown' BY DEF ThreadKnown, Running, Calls, Places, TypeOK
<1>2. FreedConfined' 
  <2>1. CASE conn BY Zenon, <2>1 DEF FreedConfined, TypeOK
  <2>2. CASE ~conn
    <3>1. Freeing /\ service # "np" BY Zenon, <2>2 DEF Calls, Places, Running, Freeing
    <3>2. crashed' => worker' = worker BY Zenon, <2>2 DEF TypeOK
    <3> QED BY Zenon, <3>1, <3>2 DEF FreedConfined, Freeing
  <2> QED BY Zenon, <2>1, <2>2 DEF TypeOK
<1>3. Places' 
  <2>1. service = "syslog" => ~asked' /\ \A i \in 1..Len(queue') : queue'[i] # 0
    <3>1. \A i \in 1..Len(Tail(queue)) : queue # <<>> => Tail(queue)[i] = queue[i + 1] /\ i + 1 \in 1..Len(queue)
      BY DEF TypeOK
    <3>2. queue' \in {queue, Tail(queue)} /\ (queue' # queue => queue # <<>>) BY Zenon
    <3> QED BY Zenon, <3>1, <3>2 DEF Places
  <2>2. At("callback")' /\ worker'.msg = 0 => service = "instproxy"
    <3>1. queue # <<>> => Head(queue) = queue[1] /\ 1 \in 1..Len(queue) BY DEF TypeOK
    <3>2. \/ worker'.at \in {"while", "receiving", "dying", "ended", "cleanup"}
          \/ /\ queue # <<>> /\ worker'.msg = Head(queue)
             /\ Head(queue) = 0 => service # "np"
      BY DEF TypeOK
    <3> QED BY <3>1, <3>2, ServicesAssumption DEF Places, TypeOK
  <2>3. \/ crashed' /\ worker' = worker
        \/ ~crashed' /\ worker'.at \in {"while", "callback", Failed}
        \/ ~crashed' /\ worker'.at = "dying" /\ service = "np"
    BY DEF TypeOK
  <2>4. mutex' = "none" /\ UNCHANGED <<service, app>> BY Zenon
  <2>5. (mutex = "app" <=> app.at \in {"set_join", "set_start"})'
    BY Zenon, <2>4 DEF Places
  <2>6. ~crashed' => ~(At("unlock") \/ (At("receiving") /\ service # "syslog"))'
    BY Zenon, <2>3, <2>4
  <2>7. (At("check") \/ At("dying"))' => service = "np" BY Zenon, <2>3 DEF Places
  <2>8. (At("cleanup") \/ At("unlock"))' => service = "instproxy" BY Zenon, <2>3, ServicesAssumption
    DEF Places, TypeOK
  <2>9. worker'.msg # 0 => worker'.at = "callback"
    BY DEF Places, TypeOK
  <2> HIDE DEF Receive
  <2> QED BY Zenon, <2>1, <2>2, <2>4, <2>5, <2>6, <2>7, <2>8, <2>9 DEF Places, Freeing
<1>4. Calls' BY DEF Calls, Running, Freeing, ThreadKnown, Places, TypeOK
<1> QED BY Zenon, <1>1, <1>2, <1>3, <1>4

\* A callback returns.
LEMMA CallbackStep ==
  ASSUME ServicesInv, TypeOK', ~crashed, Callback,
         UNCHANGED <<service, fields, mutex, app, devVars, broken, crashed>>
  PROVE  ServicesInv'
<1> USE DEF ServicesInv, Callback, fields, devVars, Goto, At
<1>1. ThreadKnown' BY DEF ThreadKnown, Running, Calls, Places, TypeOK
<1>2. FreedConfined' BY Zenon DEF FreedConfined, Calls, Freeing, Running
<1>3. Places' BY DEF Places, Freeing, Calls, TypeOK, Running
<1>4. Calls' BY DEF Calls, Running, Freeing, ThreadKnown, Places, TypeOK
<1> QED BY Zenon, <1>1, <1>2, <1>3, <1>4

\* np_set_notify_callback.
LEMMA SetCallback ==
  ASSUME ServicesInv, TypeOK', ~crashed, np_set_notify_callback,
         UNCHANGED <<service, queue, sent, up, told, broken, crashed>>
  PROVE  ServicesInv'
<1> USE DEF ServicesInv, np_set_notify_callback, Begin, Then, fields, Goto, Joined, At
<1>1. ThreadKnown' BY DEF ThreadKnown, Running, Calls, Places, TypeOK
<1>2. FreedConfined' BY Zenon DEF FreedConfined, Calls, Freeing, Running
<1>3. Places' BY DEF Places, Freeing, Calls, TypeOK, Running
<1>4. Calls' BY DEF Calls, Running, Freeing, ThreadKnown, Places, TypeOK
<1> QED BY Zenon, <1>1, <1>2, <1>3, <1>4

\* np_post_notification.
LEMMA Post ==
  ASSUME ServicesInv, TypeOK', ~crashed, np_post_notification,
         UNCHANGED <<service, queue, sent, up, told, broken, crashed>>
  PROVE  ServicesInv'
<1> USE DEF ServicesInv, np_post_notification, Begin, Then, fields, At
<1>1. ThreadKnown' BY Zenon DEF ThreadKnown, Running, Calls, Places, TypeOK
<1>2. FreedConfined' BY Zenon DEF FreedConfined, Calls, Freeing, Running
<1>3. Places' BY DEF Places, Freeing, Calls, TypeOK, Running
<1>4. Calls' BY DEF Calls, Running, Freeing, ThreadKnown, Places, TypeOK
<1> QED BY Zenon, <1>1, <1>2, <1>3, <1>4

\* np_client_free.
LEMMA NpFree ==
  ASSUME ServicesInv, TypeOK', ~crashed, np_client_free,
         UNCHANGED <<service, queue, sent, up, told, broken, crashed>>
  PROVE  ServicesInv'
<1> USE DEF ServicesInv, np_client_free, Begin, Then, fields, Joined, At
<1>1. ThreadKnown' BY Zenon DEF ThreadKnown, Running, Calls, Places, TypeOK
<1>2. FreedConfined' BY Zenon DEF FreedConfined, Calls, Freeing, Running
<1>3. Places' BY DEF Places, Freeing, Calls, TypeOK, Running
<1>4. Calls' BY DEF Calls, Running, Freeing, ThreadKnown, Places, TypeOK
<1> QED BY Zenon, <1>1, <1>2, <1>3, <1>4

\* syslog_relay_start_capture.
LEMMA StartCapture ==
  ASSUME ServicesInv, TypeOK', ~crashed, syslog_relay_start_capture,
         UNCHANGED <<service, queue, sent, up, told, broken, crashed>>
  PROVE  ServicesInv'
<1> USE DEF ServicesInv, syslog_relay_start_capture, Begin, Then, fields, Goto, At
<1>1. ThreadKnown' BY Zenon DEF ThreadKnown, Running, Calls, Places, TypeOK
<1>2. FreedConfined' BY Zenon DEF FreedConfined, Calls, Freeing, Running
<1>3. Places' BY Zenon DEF Places, Freeing, Calls, TypeOK, Running
<1>4. Calls' BY Zenon DEF Calls, Running, Freeing, ThreadKnown, Places, TypeOK
<1> QED BY Zenon, <1>1, <1>2, <1>3, <1>4

\* syslog_relay_stop_capture.
LEMMA StopCapture ==
  ASSUME ServicesInv, TypeOK', ~crashed, syslog_relay_stop_capture,
         UNCHANGED <<service, queue, sent, up, told, broken, crashed>>
  PROVE  ServicesInv'
<1> USE DEF ServicesInv, syslog_relay_stop_capture, Begin, Then, fields, Joined, At
<1>1. ThreadKnown' BY Zenon DEF ThreadKnown, Running, Calls, Places, TypeOK
<1>2. FreedConfined' BY Zenon DEF FreedConfined, Calls, Freeing, Running
<1>3. Places' BY DEF Places, Freeing, Calls, TypeOK, Running
<1>4. Calls' BY DEF Calls, Running, Freeing, ThreadKnown, Places, TypeOK
<1> QED BY Zenon, <1>1, <1>2, <1>3, <1>4

\* instproxy_perform_command: at the place where the thread is created there is no
\* other, because a thread without a handle holds the mutex that was taken.
LEMMA PerformCommand ==
  ASSUME ServicesInv, TypeOK', ~crashed, instproxy_perform_command,
         UNCHANGED <<service, queue, sent, up, told, broken, crashed>>
  PROVE  ServicesInv'
<1> USE DEF ServicesInv, At
<1>1. service = "instproxy" BY Zenon DEF instproxy_perform_command, Begin, Then, Places
<1>2. UNCHANGED <<parent, conn, client, late, mutex>>
  BY Zenon DEF instproxy_perform_command, fields
<1>3. mutex = "none" => ~At("unlock") BY Zenon DEF Places
<1>4. app.at = "command" /\ mutex = "none" => ~Running BY Zenon, <1>3 DEF ThreadKnown, Calls
<1>5. \/ app.at = "idle" /\ app'.at = "command" /\ ~handle /\ UNCHANGED <<handle, worker>>
      \/ app.at = "command" /\ app'.at = "start" /\ mutex = "none" /\ UNCHANGED <<handle, worker>>
      \/ app.at = "start" /\ app'.at = "created" /\ worker'.at = "lock" /\ UNCHANGED handle
      \/ app.at = "start" /\ app'.at = "idle" /\ UNCHANGED <<handle, worker>>
      \/ app.at = "created" /\ app'.at = "idle" /\ handle' = TRUE /\ UNCHANGED worker
  <2>1. \A from, to : Then(from, to) => app.at = from /\ app'.at = to BY Zenon DEF Then, TypeOK
  <2>2. \A k, place : Begin(k, place) => app.at = "idle" /\ app'.at = place BY DEF Begin
  <2>3. \A place : Goto(place) => worker'.at = place BY DEF Goto
  <2> QED BY <2>1, <2>2, <2>3, Zenon DEF instproxy_perform_command, fields
<1>6. ThreadKnown'
  BY Zenon, <1>1, <1>2, <1>4, <1>5 DEF ThreadKnown, Running, Calls, TypeOK
<1>7. FreedConfined' BY Zenon DEF FreedConfined
<1>8. Places'
  <2>1. \A place : Goto(place) => worker'.msg = 0 BY DEF Goto
  <2>2. worker' = worker \/ worker'.msg = 0 BY <2>1, Zenon DEF instproxy_perform_command
  <2> QED BY <1>1, <1>2, <1>4, <1>5, <2>2 DEF Places, Freeing, Running, Calls
<1>9. Calls'
  BY <1>1, <1>2, <1>4, <1>5 DEF Calls, Running, Freeing, ThreadKnown
<1> QED BY Zenon, <1>6, <1>7, <1>8, <1>9

\* syslog_relay_client_free and instproxy_client_free.
LEMMA ClientFree ==
  ASSUME ServicesInv, TypeOK', ~crashed, client_free,
         UNCHANGED <<service, queue, sent, up, told, broken, crashed>>
  PROVE  ServicesInv'
<1> USE DEF ServicesInv, client_free, Begin, Then, fields, Joined, At
<1>1. ThreadKnown' BY DEF ThreadKnown, Running, Calls, Places, TypeOK
<1>2. FreedConfined' BY Zenon DEF FreedConfined, Calls, Freeing, Running
<1>3. Places' BY DEF Places, Freeing, Calls, TypeOK, Running
<1>4. Calls' BY DEF Calls, Running, Freeing, ThreadKnown, Places, TypeOK
<1> QED BY Zenon, <1>1, <1>2, <1>3, <1>4

\* What the device does is seen by the thread only when it receives.
LEMMA DeviceStep ==
  ASSUME ServicesInv, TypeOK', ~crashed, DeviceSends \/ DeviceLeaves
  PROVE  ServicesInv'
<1> USE DEF ServicesInv, DeviceSends, DeviceLeaves, fields, At
<1>1. ThreadKnown' BY Zenon DEF ThreadKnown, Running, Calls, Places, TypeOK
<1>2. FreedConfined' BY Zenon DEF FreedConfined, Calls, Freeing, Running
<1>3. Places' 
  <2>1. service = "syslog" => ~asked' /\ \A i \in 1..Len(queue') : queue'[i] # 0
    <3>1. sent + 1 # 0 BY ServicesAssumption DEF TypeOK
    <3>2. service = "syslog" => ~asked' /\ queue' \in {queue, Append(queue, sent + 1)} BY Zenon
      DEF Places
    <3>3. \A i \in 1..Len(Append(queue, sent + 1)) :
            Append(queue, sent + 1)[i] = IF i = Len(queue) + 1 THEN sent + 1 ELSE queue[i]
      BY DEF TypeOK
    <3> QED BY SMTT(40), <3>1, <3>2, <3>3 DEF Places, TypeOK
  <2> QED BY Zenon, <2>1 DEF Places, Freeing
<1>4. Calls' BY DEF Calls, Running, Freeing, ThreadKnown, Places, TypeOK
<1> QED BY Zenon, <1>1, <1>2, <1>3, <1>4

-----------------------------------------------------------------------------
(* The messages.                                                             *)

\* A step that leaves the messages where they are.
LEMMA StreamUntouched ==
  ASSUME StreamKept, UNCHANGED <<queue, sent, told, broken>>, worker'.msg = worker.msg
  PROVE  StreamKept'
BY Zenon DEF StreamKept, Taken

\* The program starts a thread only where none runs, so no message is in its hands.
LEMMA AppKeepsMessages ==
  ASSUME ServicesInv, App
  PROVE  worker'.msg = worker.msg
<1> USE DEF ServicesInv
<1>1. ~Running => worker.msg = 0
  BY Zenon DEF Places, Running, At
<1>2. \A place : Goto(place) => worker'.msg = 0
  BY DEF Goto
<1>3. CASE UNCHANGED worker
  BY Zenon, <1>3
<1>4. CASE np_set_notify_callback /\ worker' # worker
  <2>1. app.at = "set_start" /\ worker'.msg = 0
    BY Zenon, <1>2, <1>4 DEF np_set_notify_callback, Then
  <2> QED
    BY Zenon, <1>1, <2>1 DEF Calls
<1>5. CASE syslog_relay_start_capture
  <2>1. service = "syslog" /\ app.at = "idle" /\ ~handle /\ worker'.msg = 0
    BY Zenon, <1>2, <1>5 DEF syslog_relay_start_capture, Begin
  <2>2. ~Running
    BY Zenon, <2>1 DEF ThreadKnown, Places
  <2> QED
    BY Zenon, <1>1, <2>1, <2>2
<1>6. CASE instproxy_perform_command /\ worker' # worker
  <2>1. app.at = "start" /\ worker'.msg = 0
    BY Zenon, <1>2, <1>6 DEF instproxy_perform_command, Then
  <2> QED
    BY Zenon, <1>1, <2>1 DEF Calls
<1> QED
  BY Zenon, <1>3, <1>4, <1>5, <1>6
     DEF App, np_post_notification, np_client_free, syslog_relay_stop_capture, client_free

\* The thread keeps what it has received until it hands it to the callback.
LEMMA LoopKeepsMessages ==
  ASSUME ServicesInv, np_notifier \/ syslog_relay_worker \/ instproxy_receive_status_loop
  PROVE  worker'.msg = worker.msg
<1>1. ~At("callback")
  BY Zenon DEF np_notifier, syslog_relay_worker, instproxy_receive_status_loop, Cleanup, At
<1>2. worker.msg = 0
  BY Zenon, <1>1 DEF ServicesInv, Places
<1>3. \A place : Goto(place) => worker'.msg = 0
  BY DEF Goto
<1>4. \A place : Enter(place) => worker'.msg = 0
  BY Zenon, <1>3 DEF Enter
<1> QED
  BY Zenon, <1>2, <1>3, <1>4
     DEF np_notifier, syslog_relay_worker, instproxy_receive_status_loop, Cleanup

\* The message that is received is the next one.
LEMMA HeadIsNext ==
  ASSUME ServicesInv, StreamKept, ~broken, worker.msg = 0, queue # <<>>,
         queue' = Tail(queue), worker'.msg = Head(queue), UNCHANGED <<sent, told, broken>>
  PROVE  StreamKept'
<1> DEFINE k == Len(told)
<1>1. /\ queue \in Seq(0..MaxData) /\ k \in Nat /\ sent \in Nat /\ MaxData \in Nat
  BY ServicesAssumption DEF ServicesInv, TypeOK
<1>2. /\ Head(queue) = queue[1] /\ Len(queue) \in Nat /\ Len(queue) >= 1
      /\ Len(queue') = Len(queue) - 1
      /\ \A i \in 1..Len(queue') : queue'[i] = queue[i + 1] /\ i + 1 \in 1..Len(queue)
      /\ \A i \in 1..Len(queue) : queue[i] \in Nat
  BY <1>1
<1>3. Taken = k /\ k <= sent
  BY <1>1 DEF Taken, StreamKept
<1>4. /\ \A n \in (k + 1)..sent : \E i \in 1..Len(queue) : queue[i] = n
      /\ \A i \in 1..Len(queue) : queue[i] # 0 => queue[i] \in (k + 1)..sent
      /\ \A i, j \in 1..Len(queue) :
           i < j /\ queue[i] # 0 /\ queue[j] # 0 => queue[i] < queue[j]
      /\ \A i \in 1..k : told[i] = i
  BY <1>3, Zenon DEF StreamKept
<1> HIDE DEF k
<1>5. ASSUME NEW i \in 1..Len(queue), i # 1 PROVE i - 1 \in 1..Len(queue') /\ queue'[i - 1] = queue[i]
  <2>1. i - 1 \in 1..Len(queue') /\ (i - 1) + 1 = i
    BY <1>2, <1>5
  <2> QED
    BY Zenon, <1>2, <2>1
<1>6. \A i, j \in 1..Len(queue') :
        i < j /\ queue'[i] # 0 /\ queue'[j] # 0 => queue'[i] < queue'[j]
  BY <1>2, <1>4
<1>7. CASE queue[1] = 0
  <2>1. \A n \in (k + 1)..sent : \E i \in 1..Len(queue') : queue'[i] = n
    <3> TAKE n \in (k + 1)..sent
    <3>1. PICK i \in 1..Len(queue) : queue[i] = n
      BY Zenon, <1>4
    <3>2. i # 1
      BY <1>1, <1>7, <3>1
    <3> QED
      BY Zenon, <1>5, <3>1, <3>2
  <2>2. \A i \in 1..Len(queue') : queue'[i] # 0 => queue'[i] \in (k + 1)..sent
    BY <1>2, <1>4
  <2>3. Taken' = k /\ Len(told') = k
    BY <1>1, <1>2, <1>7 DEF Taken, k
  <2> QED
    BY Zenon, <1>2, <1>3, <1>4, <1>6, <1>7, <2>1, <2>2, <2>3 DEF StreamKept
<1>8. CASE queue[1] # 0
  <2>1. queue[1] = k + 1
    <3>1. queue[1] \in (k + 1)..sent
      BY <1>2, <1>4, <1>8
    <3>2. PICK i \in 1..Len(queue) : queue[i] = k + 1
      <4>1. k + 1 \in (k + 1)..sent
        BY <1>1, <3>1
      <4> QED
        BY Zenon, <1>4, <4>1
    <3>3. i # 1 => queue[1] < queue[i]
      BY <1>1, <1>2, <1>4, <1>8, <3>2
    <3> QED
      BY <1>1, <1>2, <3>1, <3>2, <3>3
  <2>2. Taken' = k + 1 /\ Len(told') = k /\ worker'.msg = k + 1
    BY Zenon, <1>1, <1>2, <1>8, <2>1 DEF Taken, k
  <2>3. k + 1 <= sent
    BY <1>1, <1>2, <1>4, <2>1
  <2>4. \A n \in (k + 2)..sent : \E i \in 1..Len(queue') : queue'[i] = n
    <3> TAKE n \in (k + 2)..sent
    <3>1. PICK i \in 1..Len(queue) : queue[i] = n
      BY <1>1, <1>4
    <3>2. i # 1
      BY <1>1, <2>1, <3>1
    <3> QED
      BY Zenon, <1>5, <3>1, <3>2
  <2>5. \A i \in 1..Len(queue') : queue'[i] # 0 => queue'[i] \in (k + 2)..sent
    <3> TAKE i \in 1..Len(queue')
    <3> HAVE queue'[i] # 0
    <3>1. queue[i + 1] \in (k + 1)..sent /\ queue[1] < queue[i + 1]
      BY <1>2, <1>4, <1>8
    <3> QED
      BY <1>1, <1>2, <2>1, <3>1
  <2>6. (k + 1) + 1 = k + 2
    BY <1>1
  <2> QED
    BY Zenon, <1>2, <1>4, <1>6, <2>2, <2>3, <2>4, <2>5, <2>6 DEF StreamKept
<1> QED
  BY Zenon, <1>7, <1>8

\* Receiving takes the next message, or none, or breaks the stream.
LEMMA ReceiveKeepsMessages ==
  ASSUME ServicesInv, StreamKept, Receive, UNCHANGED <<sent, told>>
  PROVE  StreamKept'
<1>1. worker.msg = 0
  BY Zenon DEF Receive, ServicesInv, Places, At
<1>2. \A place : Goto(place) => worker'.msg = 0
  BY DEF Goto
<1>3. \/ UNCHANGED <<queue, broken>> /\ worker'.msg = worker.msg
      \/ ~broken /\ queue # <<>> /\ queue' = Tail(queue) /\ broken' = broken
           /\ worker'.msg = Head(queue)
      \/ broken'
  <2>1. \A place, m : worker' = [at |-> place, msg |-> m] => worker'.msg = m
    OBVIOUS
  <2> QED
    BY Zenon, <1>1, <1>2, <2>1 DEF Receive
<1>4. CASE broken'
  BY Zenon, <1>4 DEF StreamKept
<1> QED
  BY Zenon, <1>1, <1>3, <1>4, HeadIsNext, StreamUntouched

\* A callback is given the message that follows those given before.
LEMMA CallbackKeepsMessages ==
  ASSUME ServicesInv, StreamKept, Callback, UNCHANGED <<queue, sent, broken>>
  PROVE  StreamKept'
<1>1. \A place : Goto(place) => worker'.msg = 0
  BY DEF Goto
<1>2. CASE worker.msg = 0
  <2>1. told' = told /\ worker'.msg = worker.msg
    BY Zenon, <1>1, <1>2 DEF Callback
  <2> QED
    BY Zenon, <2>1, StreamUntouched
<1>3. CASE worker.msg # 0
  <2>1. told' = Append(told, worker.msg) /\ worker'.msg = 0
    BY Zenon, <1>1, <1>3 DEF Callback, ServicesInv, Places, At
  <2> SUFFICES ASSUME ~broken PROVE StreamKept'
    BY Zenon DEF StreamKept
  <2>2. worker.msg = Len(told) + 1 /\ Len(told) \in Nat /\ told \in Seq(1..MaxData)
    BY <1>3 DEF StreamKept, ServicesInv, TypeOK
  <2>3. Len(told') = Len(told) + 1 /\ \A i \in 1..Len(told') : told'[i] = i
    BY <2>1, <2>2 DEF StreamKept
  <2>4. Taken' = Taken
    BY <1>3, <2>1, <2>2, <2>3 DEF Taken
  <2> QED
    BY Zenon, <2>1, <2>3, <2>4 DEF StreamKept
<1> QED
  BY Zenon, <1>2, <1>3

\* The device numbers what it sends.
LEMMA DeviceKeepsMessages ==
  ASSUME ServicesInv, StreamKept, DeviceSends \/ DeviceLeaves
  PROVE  StreamKept'
<1>1. UNCHANGED <<worker, told, broken>>
  BY Zenon DEF DeviceSends, DeviceLeaves
<1>2. /\ queue \in Seq(0..MaxData) /\ Len(told) \in Nat /\ sent \in Nat /\ Len(queue) \in Nat
      /\ \A i \in 1..Len(queue) : queue[i] \in Nat
  BY ServicesAssumption DEF ServicesInv, TypeOK
<1>3. Taken' = Taken /\ Taken \in Nat
  BY <1>1, <1>2 DEF Taken
<1>4. CASE UNCHANGED <<queue, sent>>
  BY Zenon, <1>1, <1>4, StreamUntouched
<1>5. ASSUME NEW x \in Nat, queue' = Append(queue, x), ~broken,
             (x = 0 /\ sent' = sent) \/ (x = sent + 1 /\ sent' = sent + 1)
      PROVE  StreamKept'
  <2>1. /\ Len(queue') = Len(queue) + 1 /\ queue'[Len(queue) + 1] = x
        /\ \A i \in 1..Len(queue) : queue'[i] = queue[i] /\ i \in 1..Len(queue')
    BY <1>2, <1>5
  <2>2. /\ Taken <= sent
        /\ \A n \in (Taken + 1)..sent : \E i \in 1..Len(queue) : queue[i] = n
        /\ \A i \in 1..Len(queue) : queue[i] # 0 => queue[i] \in (Taken + 1)..sent
        /\ \A i, j \in 1..Len(queue) :
             i < j /\ queue[i] # 0 /\ queue[j] # 0 => queue[i] < queue[j]
    BY <1>5, Zenon DEF StreamKept
  <2>3. PICK k \in Nat : k = Taken
    BY Zenon, <1>3
  <2>4. PICK l \in Nat : l = Len(queue)
    BY Zenon, <1>2
  <2>5. \A n \in (k + 1)..sent' : \E i \in 1..(l + 1) : queue'[i] = n
    <3> TAKE n \in (k + 1)..sent'
    <3>1. CASE n \in (k + 1)..sent
      BY Zenon, <2>1, <2>2, <2>3, <2>4, <3>1
    <3>2. CASE n = x
      BY <2>1, <2>4, <3>2
    <3>3. sent \in Nat
      BY Zenon, <1>2
    <3>4. n \in (k + 1)..sent \/ n = x
      BY <1>5, <3>3
    <3> QED
      BY Zenon, <3>1, <3>2, <3>4
  <2>6. ASSUME NEW i \in 1..(l + 1), queue'[i] # 0 PROVE queue'[i] \in (k + 1)..sent'
    <3>1. CASE i \in 1..l
      BY <1>2, <1>5, <2>1, <2>2, <2>3, <2>4, <2>6, <3>1
    <3>2. CASE i = l + 1
      BY <1>2, <1>5, <2>1, <2>2, <2>3, <2>4, <2>6, <3>2
    <3> QED
      BY <3>1, <3>2
  <2>7. ASSUME NEW i \in 1..(l + 1), NEW j \in 1..(l + 1), i < j, queue'[i] # 0, queue'[j] # 0
        PROVE  queue'[i] < queue'[j]
    <3>1. i \in 1..l
      BY <2>7
    <3>2. queue[i] # 0 /\ queue'[i] = queue[i] /\ queue[i] \in (k + 1)..sent
      BY Zenon, <2>1, <2>2, <2>3, <2>4, <2>7, <3>1
    <3>3. CASE j \in 1..l
      BY Zenon, <2>1, <2>2, <2>4, <2>7, <3>1, <3>2, <3>3
    <3>4. CASE j = l + 1
      BY <1>2, <1>5, <2>1, <2>4, <2>7, <3>2, <3>4
    <3> QED
      BY <3>3, <3>4
  <2>8. k <= sent'
    BY <1>2, <1>5, <2>2, <2>3
  <2>9. Len(queue') = l + 1 /\ Taken' = k
    BY Zenon, <1>3, <2>1, <2>3, <2>4
  <2>10. /\ \A i \in 1..Len(told') : told'[i] = i
         /\ worker'.msg \in {0, Len(told') + 1}
    BY <1>1, <1>5, Zenon DEF StreamKept
  <2> QED
    BY Zenon, <2>5, <2>6, <2>7, <2>8, <2>9, <2>10 DEF StreamKept
<1>6. CASE broken
  BY Zenon, <1>1, <1>6 DEF StreamKept
<1>7. \/ UNCHANGED <<queue, sent>>
      \/ queue' = Append(queue, 0) /\ sent' = sent
      \/ queue' = Append(queue, sent + 1) /\ sent' = sent + 1
  BY Zenon DEF DeviceSends, DeviceLeaves
<1>8. 0 \in Nat /\ sent + 1 \in Nat
  <2>1. PICK n \in Nat : n = sent
    BY Zenon, <1>2
  <2> QED
    BY <2>1
<1>9. CASE ~broken /\ queue' = Append(queue, 0) /\ sent' = sent
  BY Zenon, <1>5, <1>8, <1>9
<1>10. CASE ~broken /\ queue' = Append(queue, sent + 1) /\ sent' = sent + 1
  BY Zenon, <1>5, <1>8, <1>10
<1> QED
  BY Zenon, <1>4, <1>6, <1>7, <1>9, <1>10

-----------------------------------------------------------------------------
(* The invariant.                                                            *)

\* A client that was just connected has no thread.
LEMMA InitInv == Init => ServicesInv
<1> SUFFICES ASSUME Init PROVE ServicesInv
  BY Zenon
<1> USE DEF Init
<1>1. TypeOK
  <2>1. worker \in [at : WorkerPlaces, msg : 0..MaxData]
    BY ServicesAssumption DEF WorkerPlaces
  <2>2. app \in [at : AppPlaces, calls : 0..MaxCalls]
    BY ServicesAssumption DEF AppPlaces
  <2>3. queue \in Seq(0..MaxData) /\ told \in Seq(1..MaxData) /\ sent \in 0..MaxData
    BY ServicesAssumption
  <2> QED BY Zenon, <2>1, <2>2, <2>3 DEF TypeOK
<1>2. ThreadKnown /\ FreedConfined BY Zenon DEF ThreadKnown, FreedConfined, Running, At
<1>3. Places /\ Calls BY DEF Places, Calls, Freeing, Running, At
<1> QED BY Zenon, <1>1, <1>2, <1>3 DEF ServicesInv

\* Every step keeps the invariant.
LEMMA NextInv == ServicesInv /\ [Next]_vars => ServicesInv'
<1> SUFFICES ASSUME ServicesInv, [Next]_vars PROVE ServicesInv'
  BY Zenon
<1>1. CASE UNCHANGED vars
  BY <1>1 DEF vars, fields, devVars, ServicesInv, TypeOK, ThreadKnown, FreedConfined, Places, Calls,
     Running, Freeing, At
<1>2. CASE ~crashed /\ Worker
  <2>1. TypeOK' BY <1>2, WorkerTypes, Zenon DEF ServicesInv
  <2> QED BY <1>2, <2>1, NpNotifier, SyslogWorker, InstproxyLoop, ReceiveStep, CallbackStep, Zenon
          DEF Worker
<1>3. CASE ~crashed /\ App
  <2>1. TypeOK' BY <1>3, AppTypes, Zenon DEF ServicesInv
  <2> QED BY <1>3, <2>1, SetCallback, Post, NpFree, StartCapture, StopCapture, PerformCommand,
             ClientFree, Zenon DEF App
<1>4. CASE ~crashed /\ (DeviceSends \/ DeviceLeaves)
  <2>1. TypeOK' BY <1>4, DeviceTypes, Zenon DEF ServicesInv
  <2> QED BY <1>4, <2>1, DeviceStep, Zenon
<1> QED BY Zenon, <1>1, <1>2, <1>3, <1>4 DEF Next

\* Every step keeps the messages.
LEMMA NextKeepsMessages == ServicesInv /\ StreamKept /\ [Next]_vars => StreamKept'
<1> SUFFICES ASSUME ServicesInv, StreamKept, [Next]_vars PROVE StreamKept'
  BY Zenon
<1>1. CASE UNCHANGED vars
  BY Zenon, <1>1, StreamUntouched DEF vars, devVars
<1>2. CASE Worker
  <2>1. CASE np_notifier \/ syslog_relay_worker \/ instproxy_receive_status_loop
    <3>1. worker'.msg = worker.msg
      BY Zenon, <2>1, LoopKeepsMessages
    <3>2. CASE UNCHANGED <<queue, sent, told, broken>>
      BY Zenon, <3>1, <3>2, StreamUntouched
    <3> QED
      BY Zenon, <1>2, <2>1, <3>2, ReceiveKeepsMessages, CallbackKeepsMessages DEF Worker, devVars
  <2>2. CASE Receive /\ UNCHANGED <<sent, told>>
    BY Zenon, <2>2, ReceiveKeepsMessages
  <2>3. CASE Callback /\ UNCHANGED <<queue, sent, broken>>
    BY Zenon, <2>3, CallbackKeepsMessages
  <2> QED
    BY Zenon, <1>2, <2>1, <2>2, <2>3 DEF Worker, devVars
<1>3. CASE App
  <2>1. UNCHANGED <<queue, sent, told, broken>>
    BY Zenon, <1>3 DEF App
  <2> QED
    BY Zenon, <1>3, <2>1, AppKeepsMessages, StreamUntouched
<1>4. CASE DeviceSends \/ DeviceLeaves
  BY Zenon, <1>4, DeviceKeepsMessages
<1> QED
  BY Zenon, <1>1, <1>2, <1>3, <1>4 DEF Next

\* Threads, handles, mutex and calls of a client stay consistent wherever the
\* program stops, replaces or frees what the thread uses.
THEOREM ServicesInvariance == Spec => []ServicesInv
BY InitInv, NextInv, PTL DEF Spec

\* The thread of np never uses what np_client_free has freed; that of syslog uses a
\* freed connection only while syslog_relay_client_free waits for it; that of instproxy
\* only then, or a freed client for its last unlock.
THEOREM UseAfterFreeConfined == Spec => []FreedConfined
BY ServicesInvariance, PTL DEF ServicesInv

\* A thread that runs is known by its handle, so that it is joined and no second
\* one is started beside it.
THEOREM ThreadsKnown == Spec => []ThreadKnown
BY ServicesInvariance, PTL DEF ServicesInv

\* Messages of the device reach callbacks once and in order, and none is lost between
\* two callbacks, for any number of messages and of calls that stop the thread, replace
\* the callback and start it again.
THEOREM StreamsAreKept == Spec => []StreamKept
<1>1. Init => StreamKept
  BY DEF Init, StreamKept, Taken
<1>2. ServicesInv /\ StreamKept /\ [Next]_vars => StreamKept'
  BY Zenon, NextKeepsMessages
<1> QED
  BY <1>1, <1>2, ServicesInvariance, PTL DEF Spec
=============================================================================
