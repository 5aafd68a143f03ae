--------------------------- MODULE ServiceThreads ---------------------------
(***************************************************************************)
(* The services of libimobiledevice that receive in a thread of their own  *)
(* and call the program back: notification_proxy ("np"), syslog_relay      *)
(* ("syslog") and installation_proxy ("instproxy"). A client of one of     *)
(* them, its thread, the thread of the program that uses it, and the       *)
(* device, which is external.                                              *)
(*                                                                         *)
(* The two threads share the fields of the client: parent, the connection, *)
(* which is set to NULL to make the thread end, and the handle of the      *)
(* thread. One step goes up to the next access to one of these that the    *)
(* other thread can disturb. The program uses a client from one thread and *)
(* does not use it in its callbacks. Commands that instproxy runs without  *)
(* a thread are left out: nothing happens beside them.                     *)
(***************************************************************************)
EXTENDS Integers, Sequences

CONSTANTS
  Services,  \* the kinds of clients
  MaxCalls,  \* bound: calls that the program makes
  MaxData    \* bound: messages with data that the device sends

ASSUME ServicesAssumption ==
  /\ Services \subseteq {"np", "syslog", "instproxy"}
  /\ MaxCalls \in Nat /\ MaxData \in Nat

VARIABLES
  service,  \* which client this is
  parent,   \* client->parent is not NULL
  conn,     \* what it pointed to is not freed
  client,   \* the client is not freed
  handle,   \* client->notifier, worker or receive_status_thread is not NULL
  late,     \* the handle was stored when the thread had ended
  mutex,    \* who holds client->mutex: "app", "worker" or "none"
  worker,   \* the thread: where it is and the message it has received; 0: none
  app,      \* the program: where it is, how many calls it has made
  queue,    \* what the device has sent; 0: the last message of a command, ProxyDeath
            \* or another one that np refuses
  sent,     \* messages with data that it has sent
  asked,    \* it owes an answer to a command or to Shutdown
  up,       \* the device is connected
  told,     \* the messages given to callbacks
  broken,   \* a part of a message was read and the rest was not
  crashed   \* what was freed has been used; the model ends

fields == <<parent, conn, client, handle, late>>
devVars == <<queue, sent, asked, up>>
vars == <<service, fields, mutex, worker, app, devVars, told, broken, crashed>>

Init ==
  /\ service \in Services
  /\ parent = TRUE /\ conn = TRUE /\ client = TRUE /\ handle = FALSE /\ late = FALSE
  /\ mutex = "none"
  /\ worker = [at |-> "ended", msg |-> 0]
  /\ app = [at |-> "idle", calls |-> 0]
  /\ queue = <<>> /\ sent = 0 /\ asked = FALSE /\ up = TRUE
  /\ told = <<>>
  /\ broken = FALSE /\ crashed = FALSE

-----------------------------------------------------------------------------
(* The thread.                                                               *)

At(place) == worker.at = place
Goto(place) == worker' = [at |-> place, msg |-> 0]

\* Takes the mutex, if the service has one, and reads parent, which is the argument
\* of the receiving function; with NULL that fails at once.
Enter(failed) ==
  /\ mutex = "none"
  /\ \/ parent /\ Goto("receiving") /\ mutex' = IF service = "syslog" THEN "none" ELSE "worker"
     \/ ~parent /\ Goto(failed) /\ UNCHANGED mutex
  /\ UNCHANGED <<handle, late, crashed>>

np_notifier ==
  /\ service = "np"
  /\ \/ At("while") /\ Goto(IF parent THEN "check" ELSE "ended") /\ UNCHANGED <<mutex, handle, late, crashed>>
     \/ At("check") /\ Goto(IF parent THEN "lock" ELSE "dying") /\ UNCHANGED <<mutex, handle, late, crashed>>
     \/ At("lock") /\ Enter("dying")

syslog_relay_worker ==
  /\ service = "syslog"
  /\ \/ At("while") /\ Goto(IF parent THEN "lock" ELSE "ended") /\ UNCHANGED <<mutex, handle, late, crashed>>
     \/ At("lock") /\ Enter("ended")

\* Mutant: the handle is not reset.
CleanupKeepsHandle ==
  \/ /\ At("cleanup") /\ mutex = "none"
     /\ mutex' = "worker" /\ Goto("unlock")
     /\ UNCHANGED <<handle, late, crashed>>
  \/ /\ At("unlock") /\ client
     /\ mutex' = "none" /\ Goto("ended")
     /\ UNCHANGED <<handle, late, crashed>>

\* The end of instproxy_receive_status_loop_thread.
Cleanup ==
  \/ /\ At("cleanup") /\ mutex = "none"
     /\ mutex' = "worker" /\ Goto("unlock")
     /\ handle' = FALSE
     /\ late' = (app.at = "created")
     /\ UNCHANGED crashed
  \/ /\ At("unlock")
     /\ crashed' = ~client
     /\ mutex' = "none" /\ Goto("ended")
     /\ UNCHANGED <<handle, late>>

instproxy_receive_status_loop ==
  /\ service = "instproxy"
  /\ \/ At("lock") /\ Enter("cleanup")
     \/ At("while") /\ Goto(IF parent THEN "lock" ELSE "cleanup") /\ UNCHANGED <<mutex, handle, late, crashed>>
     \/ Cleanup

\* Where an error leads.
Failed == CASE service = "np" -> "dying" [] service = "syslog" -> "ended" [] OTHER -> "cleanup"

\* Mutant: what comes while the thread is to end is thrown away.
ReceiveDrops ==
  /\ At("receiving") /\ conn
  /\ \/ queue = <<>> /\ Goto(IF up THEN "while" ELSE Failed) /\ UNCHANGED queue
     \/ /\ queue # <<>> /\ queue' = Tail(queue)
        /\ worker' = [at |-> IF parent THEN "callback" ELSE "while",
                      msg |-> IF parent THEN Head(queue) ELSE 0]
  /\ mutex' = "none" /\ UNCHANGED <<broken, crashed>>

\* A message, the timeout, or an error. What had arrived before the connection was
\* lost is received first. A message of which a part comes too late is dropped, and
\* what follows is not understood.
Receive ==
  /\ At("receiving")
  /\ \/ conn /\ queue = <<>> /\ up /\ Goto("while") /\ UNCHANGED <<queue, broken, crashed>>
     \/ /\ conn /\ queue # <<>> /\ ~broken /\ queue' = Tail(queue)
        /\ worker' = [at |-> IF service = "np" /\ Head(queue) = 0 THEN "dying" ELSE "callback",
                      msg |-> Head(queue)]
        /\ UNCHANGED <<broken, crashed>>
     \/ /\ conn /\ queue # <<>> /\ service # "syslog"
        /\ queue' = Tail(queue) /\ broken' = TRUE
        /\ Goto(Failed) /\ UNCHANGED crashed
     \/ /\ conn => queue = <<>> /\ ~up
        /\ Goto(Failed)
        /\ UNCHANGED <<queue, broken, crashed>>
     \/ ~conn /\ crashed' = TRUE /\ UNCHANGED <<worker, queue, broken>>
  /\ mutex' = "none"

\* cbfunc returns. The last message of a command is given to it as well; when np
\* has failed it is called with "".
Callback ==
  \/ /\ At("callback")
     /\ Goto(IF worker.msg = 0 THEN "cleanup" ELSE "while")
     /\ told' = IF worker.msg = 0 THEN told ELSE Append(told, worker.msg)
  \/ At("dying") /\ Goto("ended") /\ UNCHANGED told

Worker ==
  \/ /\ (np_notifier \/ syslog_relay_worker \/ instproxy_receive_status_loop)
     /\ UNCHANGED <<service, parent, conn, client, app, devVars, told, broken>>
  \/ Receive /\ UNCHANGED <<service, fields, app, sent, asked, up, told>>
  \/ Callback /\ UNCHANGED <<service, fields, mutex, app, devVars, broken, crashed>>

-----------------------------------------------------------------------------
(* The program. An action that begins a call is followed by the steps of it. *)

Begin(kind, place) ==
  /\ service = kind /\ app.at = "idle" /\ app.calls < MaxCalls
  /\ app' = [at |-> place, calls |-> app.calls + 1]

Then(from, to) == app.at = from /\ app' = [app EXCEPT !.at = to]

Joined == At("ended")

\* With the mutex; start: a callback is given, and the thread can be created.
np_set_notify_callback ==
  \/ Begin("np", "set") /\ UNCHANGED <<fields, mutex, worker, asked>>
  \/ /\ Then("set", IF handle THEN "set_join" ELSE "set_start")
     /\ mutex = "none" /\ mutex' = "app"
     /\ parent' = (parent /\ ~handle)
     /\ UNCHANGED <<conn, client, handle, late, worker, asked>>
  \/ /\ Then("set_join", "set_start") /\ Joined
     /\ handle' = FALSE /\ parent' = TRUE
     /\ UNCHANGED <<conn, client, late, mutex, worker, asked>>
  \/ /\ Then("set_start", "idle")
     /\ mutex' = "none"
     /\ \E start \in BOOLEAN :
          handle' = start /\ IF start THEN Goto("while") ELSE UNCHANGED worker
     /\ UNCHANGED <<parent, conn, client, late, asked>>

\* np_observe_notification is the same with another command.
np_post_notification ==
  \/ Begin("np", "post") /\ UNCHANGED <<fields, mutex, worker, asked>>
  \/ Then("post", "idle") /\ mutex = "none" /\ UNCHANGED <<fields, mutex, worker, asked>>

\* Mutant: the connection is freed before the thread has ended.
np_client_freeEarly ==
  \/ Begin("np", "shutdown") /\ asked' = TRUE /\ UNCHANGED <<fields, mutex, worker>>
  \/ /\ Then("shutdown", IF handle THEN "death_join" ELSE "death_free")
     /\ parent' = FALSE /\ conn' = FALSE
     /\ UNCHANGED <<client, handle, late, mutex, worker, asked>>
  \/ /\ Then("death_join", "death_free") /\ Joined
     /\ handle' = FALSE
     /\ UNCHANGED <<parent, conn, client, late, mutex, worker, asked>>
  \/ /\ Then("death_free", "done")
     /\ client' = FALSE
     /\ UNCHANGED <<parent, conn, handle, late, mutex, worker, asked>>

\* Without a thread the answer to Shutdown is waited for, which may time out; whether
\* it is read makes no difference any more.
np_client_free ==
  \/ Begin("np", "shutdown") /\ asked' = TRUE /\ UNCHANGED <<fields, mutex, worker>>
  \/ /\ Then("shutdown", IF handle THEN "death_join" ELSE "death_free")
     /\ parent' = FALSE
     /\ UNCHANGED <<conn, client, handle, late, mutex, worker, asked>>
  \/ /\ Then("death_join", "death_free") /\ Joined
     /\ handle' = FALSE
     /\ UNCHANGED <<parent, conn, client, late, mutex, worker, asked>>
  \/ /\ Then("death_free", "done")
     /\ conn' = FALSE /\ client' = FALSE
     /\ UNCHANGED <<parent, handle, late, mutex, worker, asked>>

syslog_relay_start_capture ==
  /\ Begin("syslog", "idle") /\ ~handle
  /\ handle' = TRUE /\ Goto("while")
  /\ UNCHANGED <<parent, conn, client, late, mutex, asked>>

\* Mutant: the thread is not told to end.
syslog_relay_stop_captureUntold ==
  \/ Begin("syslog", "stop_join") /\ handle /\ UNCHANGED <<fields, mutex, worker, asked>>
  \/ /\ Then("stop_join", "idle") /\ Joined
     /\ handle' = FALSE /\ parent' = TRUE
     /\ UNCHANGED <<conn, client, late, mutex, worker, asked>>

syslog_relay_stop_capture ==
  \/ /\ Begin("syslog", "stop_join") /\ handle
     /\ parent' = FALSE
     /\ UNCHANGED <<conn, client, handle, late, mutex, worker, asked>>
  \/ /\ Then("stop_join", "idle") /\ Joined
     /\ handle' = FALSE /\ parent' = TRUE
     /\ UNCHANGED <<conn, client, late, mutex, worker, asked>>

\* A command with a thread: only while there is no handle. The thread runs before
\* its handle is stored.
instproxy_perform_command ==
  \/ Begin("instproxy", "command") /\ ~handle /\ UNCHANGED <<fields, mutex, worker, asked>>
  \/ /\ Then("command", "start") /\ mutex = "none"
     /\ asked' \in {asked, TRUE}
     /\ UNCHANGED <<fields, mutex, worker>>
  \/ Then("start", "created") /\ Goto("lock") /\ UNCHANGED <<fields, mutex, asked>>
  \/ Then("start", "idle") /\ UNCHANGED <<fields, mutex, worker, asked>>
  \/ /\ Then("created", "idle")
     /\ handle' = TRUE
     /\ UNCHANGED <<parent, conn, client, late, mutex, worker, asked>>

\* syslog_relay_client_free and instproxy_client_free: the connection is freed first.
\* The handle is read again for thread_join, which returns at once for NULL; what it
\* does when the thread closes the handle that is waited for is undefined.
client_free ==
  \/ /\ (Begin("syslog", "clear") \/ Begin("instproxy", "clear"))
     /\ conn' = FALSE
     /\ UNCHANGED <<parent, client, handle, late, mutex, worker, asked>>
  \/ /\ Then("clear", "test") /\ parent' = FALSE
     /\ UNCHANGED <<conn, client, handle, late, mutex, worker, asked>>
  \/ Then("test", IF handle THEN "join" ELSE "free") /\ UNCHANGED <<fields, mutex, worker, asked>>
  \/ Then("join", IF handle THEN "wait" ELSE "free") /\ UNCHANGED <<fields, mutex, worker, asked>>
  \/ /\ Then("wait", "free") /\ (Joined \/ ~handle)
     /\ handle' = FALSE
     /\ UNCHANGED <<parent, conn, client, late, mutex, worker, asked>>
  \/ /\ Then("free", "done") /\ client' = FALSE
     /\ UNCHANGED <<parent, conn, handle, late, mutex, worker, asked>>

App ==
  /\ \/ np_set_notify_callback \/ np_post_notification \/ np_client_free
     \/ syslog_relay_start_capture \/ syslog_relay_stop_capture
     \/ instproxy_perform_command \/ client_free
  /\ UNCHANGED <<service, queue, sent, up, told, broken, crashed>>

-----------------------------------------------------------------------------
(* The device.                                                               *)

\* Notifications and characters come at any time, the status of a command while it
\* is carried out. np may send what is refused without being asked.
DeviceSends ==
  /\ up
  /\ \/ /\ sent < MaxData /\ (service = "instproxy" => asked)
        /\ sent' = sent + 1 /\ queue' = Append(queue, sent + 1)
        /\ UNCHANGED <<asked, up>>
     \/ /\ asked
        /\ asked' = FALSE /\ queue' = Append(queue, 0)
        /\ UNCHANGED <<sent, up>>
     \/ /\ service = "np"
        /\ \A i \in 1..Len(queue) : queue[i] # 0
        /\ queue' = Append(queue, 0)
        /\ UNCHANGED <<sent, asked, up>>
  /\ UNCHANGED <<service, fields, mutex, worker, app, told, broken, crashed>>

DeviceLeaves ==
  /\ up /\ up' = FALSE
  /\ UNCHANGED <<service, fields, mutex, worker, app, queue, sent, asked, told, broken, crashed>>

Next == ~crashed /\ (Worker \/ App \/ DeviceSends \/ DeviceLeaves)

Spec == Init /\ [][Next]_vars

\* The thread runs, a call goes on once it was made, and gets the mutex: the thread of
\* np sleeps a second between two polls of half a second.
FairSpec == Spec /\ WF_vars(~crashed /\ Worker) /\ SF_vars(~crashed /\ app.at # "idle" /\ App)

-----------------------------------------------------------------------------

WorkerPlaces ==
  {"while", "check", "lock", "receiving", "callback", "dying", "cleanup", "unlock", "ended"}

AppPlaces ==
  {"idle", "set", "set_join", "set_start", "post", "shutdown", "death_join", "death_free",
   "stop_join", "command", "start", "created", "clear", "test", "join", "wait", "free", "done"}

TypeOK ==
  /\ service \in Services
  /\ parent \in BOOLEAN /\ conn \in BOOLEAN /\ client \in BOOLEAN /\ handle \in BOOLEAN
  /\ late \in BOOLEAN /\ asked \in BOOLEAN /\ up \in BOOLEAN
  /\ broken \in BOOLEAN /\ crashed \in BOOLEAN
  /\ mutex \in {"none", "app", "worker"}
  /\ worker \in [at : WorkerPlaces, msg : 0..MaxData]
  /\ app \in [at : AppPlaces, calls : 0..MaxCalls]
  /\ queue \in Seq(0..MaxData) /\ told \in Seq(1..MaxData) /\ sent \in 0..MaxData

Running == worker.at # "ended"

\* How many messages with data were taken from the device and not lost.
Taken == Len(told) + (IF worker.msg = 0 THEN 0 ELSE 1)

\* What the device sends reaches callbacks once and in order, however often the
\* callback is removed and set again and wherever the thread is then; what has not
\* been given to one is still to be received, in order, unless a message came in part.
StreamKept ==
  ~broken =>
    /\ \A i \in 1..Len(told) : told[i] = i
    /\ worker.msg \in {0, Len(told) + 1}
    /\ Taken <= sent
    /\ \A n \in (Taken + 1)..sent : \E i \in 1..Len(queue) : queue[i] = n
    /\ \A i \in 1..Len(queue) : queue[i] # 0 => queue[i] \in (Taken + 1)..sent
    /\ \A i, j \in 1..Len(queue) : i < j /\ queue[i] # 0 /\ queue[j] # 0 => queue[i] < queue[j]

\* A thread that runs is known by its handle, so that it is joined before the client
\* is freed, until it has cleared the handle itself; and a handle of instproxy is that
\* of a thread which runs, so that the next command is not refused, unless the thread
\* had cleared it before it was stored.
ThreadKnown ==
  /\ Running => handle \/ app.at = "created" \/ At("unlock")
  /\ service = "instproxy" /\ handle => Running \/ late
  /\ At("unlock") /\ (handle \/ app.at = "created") => late

\* The thread uses a connection after it was freed only in a call of
\* syslog_relay_client_free or instproxy_client_free, and the client only for the
\* mutex that instproxy unlocks last. np_client_free frees nothing that is in use.
FreedConfined ==
  crashed =>
    \/ service # "np" /\ At("receiving") /\ app.at \in {"clear", "test", "join", "wait", "free", "done"}
    \/ service = "instproxy" /\ At("ended") /\ app.at = "done"

\* np_set_notify_callback holds the mutex that the thread it waits for has to take.
Deadlocked == app.at = "set_join" /\ At("lock")

Calling == app.at \notin {"idle", "done"}

\* Every call returns, wherever the thread is when it is made and whether the device
\* sends or has left, but for the circular wait in np_set_notify_callback.
Returns == Calling ~> ~Calling \/ Deadlocked \/ crashed

Freeing == app.at \in {"clear", "test", "join", "wait", "free", "done"}

\* Where the threads can be, and what they hold there.
Places ==
  /\ At("check") \/ At("dying") => service = "np"
  /\ At("cleanup") \/ At("unlock") => service = "instproxy"
  /\ At("callback") /\ worker.msg = 0 => service = "instproxy"
  /\ worker.msg # 0 => At("callback")
  /\ service = "syslog" => ~asked /\ \A i \in 1..Len(queue) : queue[i] # 0
  /\ app.at \in {"set", "set_join", "set_start", "post", "shutdown", "death_join", "death_free"}
       => service = "np"
  /\ app.at = "stop_join" => service = "syslog"
  /\ app.at \in {"command", "start", "created"} => service = "instproxy"
  /\ Freeing /\ service = "np" => app.at = "done"
  /\ mutex = "app" <=> app.at \in {"set_join", "set_start"}
  /\ ~crashed => (mutex = "worker" <=> At("unlock") \/ (At("receiving") /\ service # "syslog"))

\* What is known of the thread and of the client while a call goes on.
Calls ==
  /\ ~conn => Freeing
  /\ ~client => app.at = "done"
  /\ app.at \in {"set_start", "command", "start", "created"} => ~handle
  /\ app.at \in {"set_start", "start", "death_free"} => ~Running
  /\ app.at = "created" => Running \/ late
  /\ app.at \in {"free", "done"} => ~Running \/ At("unlock") \/ crashed

\* Inductive: a thread that runs is found by its handle at every place of either
\* thread, with the mutex where it has to be.
ServicesInv == TypeOK /\ ThreadKnown /\ FreedConfined /\ Places /\ Calls
=============================================================================
