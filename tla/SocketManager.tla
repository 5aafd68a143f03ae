--------------------------- MODULE SocketManager ---------------------------
(***************************************************************************)
(* The select loop of ios-webkit-debug-proxy (socket_manager.c): sets of   *)
(* descriptors, sends that would block and are queued, and descriptors     *)
(* that are not read while something they caused is in a queue.            *)
(*                                                                         *)
(* The program is single-threaded. Its peers, the kernel's buffers and the *)
(* numbers that the kernel gives to descriptors are external; they change  *)
(* between any two system calls. The callbacks of the proxy are reduced to *)
(* what they may do here: on_recv sends one message or none, and closing a *)
(* descriptor may close others (a listener its clients, a client the file  *)
(* server it reads from, and the reverse). max_fd is the largest member of *)
(* all_fds. A message is MsgLen bytes; they are named by the message.      *)
(***************************************************************************)
EXTENDS Integers, Sequences

CONSTANTS
  Fds,       \* numbers of descriptors, not 0
  Server,    \* the descriptor that is added with is_server
  MsgLen,    \* bytes of a message
  BufCap,    \* bytes that the kernel holds for a peer
  MaxConns,  \* bound: peers that connect
  MaxIn      \* bound: messages that peers send

ASSUME SocketAssumption ==
  /\ Fds \subseteq Nat \ {0} /\ Server \in Fds
  /\ {MsgLen, BufCap} \subseteq Nat \ {0} /\ {MaxConns, MaxIn} \subseteq Nat

VARIABLES
  all_fds, server_fds, send_fds, recv_fds,
  tmp_send_fds, tmp_recv_fds, tmp_fail_fds,
  fd_to_sendq,  \* for a descriptor: its blocked sends, <<>> for none
  orphans,      \* descriptors that were removed with blocked sends
  pc,           \* where sm_select is, and at which descriptor
  net,          \* the connection that has the number of a descriptor
  backlog,      \* peers that wait to be accepted
  conns,        \* peers that have connected
  inputs        \* messages that peers have sent

sets == <<all_fds, server_fds, send_fds, recv_fds>>
tmp == <<tmp_send_fds, tmp_recv_fds, tmp_fail_fds>>
vars == <<sets, tmp, fd_to_sendq, orphans, pc, net, backlog, conns, inputs>>

Messages == 1..MaxIn

\* left: the bytes of msg from head to tail; recv_fd: the descriptor whose input
\* caused the send, or 0.
sm_sendq == [recv_fd : Fds \cup {0}, msg : Messages, left : 1..MsgLen]

Owed == [msg : Messages, left : 1..MsgLen]

\* owed: what is left of the messages that sm_send accepted for the peer, with the
\* kernel not having taken it; garbled: it took something else; unread: how many
\* bytes the kernel holds for the peer; input: messages of the peer to be received;
\* fresh: added since select returned.
Connection ==
  [owed : Seq(Owed), garbled : BOOLEAN, unread : 0..BufCap,
   input : Seq(Messages), state : {"open", "closed", "failed"}, fresh : BOOLEAN]

NewConnection ==
  [owed |-> <<>>, garbled |-> FALSE, unread |-> 0, input |-> <<>>, state |-> "open",
   fresh |-> TRUE]

\* can_recv is kept while a queue is sent.
Places ==
  [at : {"idle", "loop", "accept", "resend", "recv", "done"}, fd : Fds \cup {0},
   can_recv : BOOLEAN]

At(place, fd) == pc' = [at |-> place, fd |-> fd, can_recv |-> FALSE]

Init ==
  /\ all_fds = {Server} /\ server_fds = {Server} /\ send_fds = {} /\ recv_fds = {Server}
  /\ tmp_send_fds = {} /\ tmp_recv_fds = {} /\ tmp_fail_fds = {}
  /\ fd_to_sendq = [f \in Fds |-> <<>>]
  /\ orphans = {}
  /\ pc = [at |-> "idle", fd |-> 0, can_recv |-> FALSE]
  /\ net = [f \in Fds |-> NewConnection]
  /\ backlog = 0 /\ conns = 0 /\ inputs = 0

-----------------------------------------------------------------------------
(* Adding and removing descriptors.                                          *)

\* Mutant: what select reported is kept.
ClearTmpNot(fds) == UNCHANGED tmp

ClearTmp(fds) ==
  /\ tmp_send_fds' = tmp_send_fds \ fds
  /\ tmp_recv_fds' = tmp_recv_fds \ fds
  /\ tmp_fail_fds' = tmp_fail_fds \ fds

sm_add_fd(fd) ==
  /\ fd \notin all_fds
  /\ all_fds' = all_fds \cup {fd}
  /\ send_fds' = send_fds \ {fd}
  /\ recv_fds' = recv_fds \cup {fd}
  /\ ClearTmp({fd})
  /\ net' = [net EXCEPT ![fd] = NewConnection]
  /\ UNCHANGED <<server_fds, fd_to_sendq, orphans>>

\* The blocked sends without their causes in fds.
Forgotten(fds) ==
  [f \in Fds |->
     [i \in DOMAIN fd_to_sendq[f] |->
        IF fd_to_sendq[f][i].recv_fd \in fds THEN [fd_to_sendq[f][i] EXCEPT !.recv_fd = 0]
        ELSE fd_to_sendq[f][i]]]

\* The descriptors that are closed together. Their blocked sends stay.
sm_remove_fd(fds) ==
  /\ all_fds' = all_fds \ fds
  /\ server_fds' = server_fds \ fds
  /\ send_fds' = send_fds \ fds
  /\ recv_fds' = recv_fds \ fds
  /\ ClearTmp(fds)
  /\ fd_to_sendq' = Forgotten(fds)
  /\ orphans' = orphans \cup {f \in fds : fd_to_sendq[f] # <<>>}
  /\ net' = [f \in Fds |-> IF f \in fds THEN NewConnection ELSE net[f]]

\* on_close closes others.
Close(fd) == \E others \in SUBSET (all_fds \ {Server}) : sm_remove_fd({fd} \cup others)

-----------------------------------------------------------------------------
(* Sending.                                                                  *)

Room(fd) == BufCap - net[fd].unread

\* What is left of a queue when n bytes of its head were taken.
Less(q, n) ==
  IF n = Head(q).left THEN Tail(q) ELSE [q EXCEPT ![1].left = @ - n]

\* send() is called with len bytes until all are taken or it would block. It takes n
\* of them, and holds u when it returns: a peer may read meanwhile.
SendTakes(fd, len, n, u) ==
  /\ n < len => u = BufCap
  /\ u <= net[fd].unread + n
  /\ net[fd].state = "open" \/ u = net[fd].unread + n

\* The connection of fd, which is owed the given messages, after n bytes of msg.
Took(fd, owed, msg, n, u) ==
  [net[fd] EXCEPT
     !.owed = Less(owed, n),
     !.garbled = @ \/ (n > 0 /\ ~(Head(owed).msg = msg /\ n <= Head(owed).left)),
     !.unread = u]

\* The connections when that of fd has become conn, and what was received from curr
\* is consumed.
Consumed(fd, conn, curr) ==
  LET now == [net EXCEPT ![fd] = conn] IN [now EXCEPT ![curr].input = Tail(@)]

\* The rest of a message is queued for fd; what curr sends is not read any more.
Blocked(fd, msg, left, curr) ==
  /\ fd_to_sendq' = [fd_to_sendq EXCEPT ![fd] =
                       Append(@, [recv_fd |-> curr, msg |-> msg, left |-> left])]
  /\ recv_fds' = recv_fds \ {curr}
  /\ tmp_recv_fds' = tmp_recv_fds \ {curr}

\* A message that is sent when nothing is blocked.
SendNow(fd, msg, curr) ==
  \E n \in 0..MsgLen, u \in 0..BufCap :
    /\ SendTakes(fd, MsgLen, n, u)
    /\ net' = Consumed(fd, Took(fd, Append(net[fd].owed, [msg |-> msg, left |-> MsgLen]), msg, n, u),
                       curr)
    /\ IF n = MsgLen THEN UNCHANGED <<fd_to_sendq, send_fds, recv_fds, tmp_recv_fds>>
       ELSE Blocked(fd, msg, MsgLen - n, curr) /\ send_fds' = send_fds \cup {fd}

\* Mutant: what is queued already is not looked at.
sm_sendAtOnce(fd, msg, curr) ==
  /\ SendNow(fd, msg, curr)
  /\ UNCHANGED <<all_fds, server_fds, tmp_send_fds, tmp_fail_fds, orphans>>

\* As a result of what was received from curr. When something is blocked already
\* nothing is sent now.
sm_send(fd, msg, curr) ==
  /\ \/ fd_to_sendq[fd] = <<>> /\ SendNow(fd, msg, curr)
     \/ /\ fd_to_sendq[fd] # <<>>
        /\ net' = Consumed(fd, [net[fd] EXCEPT
                                  !.owed = Append(@, [msg |-> msg, left |-> MsgLen])], curr)
        /\ Blocked(fd, msg, MsgLen, curr)
        /\ UNCHANGED send_fds
  /\ UNCHANGED <<all_fds, server_fds, tmp_send_fds, tmp_fail_fds, orphans>>

Causes(q) == {q[i].recv_fd : i \in DOMAIN q}

AllCauses(queues) == UNION {Causes(queues[f]) : f \in Fds}

\* Mutant: other queues are not looked at.
EnabledHere(fd) ==
  (all_fds \cap {Head(fd_to_sendq[fd]).recv_fd}) \ Causes(Tail(fd_to_sendq[fd]))

\* Mutant: the head itself is still in its queue when the queues are searched.
EnabledTooSoon(fd) ==
  (all_fds \cap {Head(fd_to_sendq[fd]).recv_fd}) \ AllCauses(fd_to_sendq)

\* The descriptor that was blocked by the head of the queue and by no other send.
Enabled(fd) ==
  (all_fds \cap {Head(fd_to_sendq[fd]).recv_fd})
    \ AllCauses([fd_to_sendq EXCEPT ![fd] = Tail(@)])

Then == At(IF pc.can_recv THEN "recv" ELSE "loop", pc.fd)

\* Mutant: the descriptor stays in send_fds.
DequeuedKeeps(fd) ==
  /\ fd_to_sendq' = [fd_to_sendq EXCEPT ![fd] = Tail(@)]
  /\ recv_fds' = recv_fds \cup Enabled(fd)
  /\ IF Len(fd_to_sendq[fd]) = 1 THEN Then ELSE UNCHANGED pc
  /\ UNCHANGED send_fds

\* The head of the queue is sent.
Dequeued(fd) ==
  /\ fd_to_sendq' = [fd_to_sendq EXCEPT ![fd] = Tail(@)]
  /\ recv_fds' = recv_fds \cup Enabled(fd)
  /\ IF Len(fd_to_sendq[fd]) = 1 THEN send_fds' = send_fds \ {fd} /\ Then
     ELSE UNCHANGED <<send_fds, pc>>

\* What is left of it stays at the head.
Deferred(fd, n) ==
  /\ fd_to_sendq' = [fd_to_sendq EXCEPT ![fd] = Less(@, n)]
  /\ Then
  /\ UNCHANGED <<send_fds, recv_fds>>

\* One turn of the loop: the head of the queue is sent as far as possible. When
\* send() fails the descriptor is closed.
sm_resend ==
  /\ pc.at = "resend"
  /\ \/ /\ net[pc.fd].state # "closed" /\ fd_to_sendq[pc.fd] # <<>>
        /\ LET head == Head(fd_to_sendq[pc.fd])
           IN  \E n \in 0..head.left, u \in 0..BufCap :
                 /\ SendTakes(pc.fd, head.left, n, u)
                 /\ net' = [net EXCEPT ![pc.fd] =
                              Took(pc.fd, net[pc.fd].owed, head.msg, n, u)]
                 /\ IF n = head.left THEN Dequeued(pc.fd) ELSE Deferred(pc.fd, n)
        /\ UNCHANGED <<all_fds, server_fds, tmp, orphans>>
     \/ net[pc.fd].state = "closed" /\ Close(pc.fd) /\ Then
  /\ UNCHANGED <<backlog, conns, inputs>>

-----------------------------------------------------------------------------
(* The loop.                                                                 *)

Readable(fd) ==
  IF fd = Server THEN backlog > 0 ELSE net[fd].input # <<>> \/ net[fd].state = "closed"

Writable(fd) == Room(fd) > 0 \/ net[fd].state = "closed"

\* When nothing is ready select times out and is called again.
sm_select ==
  /\ pc.at = "idle"
  /\ tmp_send_fds' = {f \in send_fds : Writable(f)}
  /\ tmp_recv_fds' = {f \in recv_fds : Readable(f)}
  /\ tmp_fail_fds' = {f \in all_fds : net[f].state = "failed"}
  /\ tmp_send_fds' \cup tmp_recv_fds' \cup tmp_fail_fds' # {}
  /\ net' = [f \in Fds |-> [net[f] EXCEPT !.fresh = FALSE]]
  /\ At("loop", 0)
  /\ UNCHANGED <<sets, fd_to_sendq, orphans, backlog, conns, inputs>>

Reported == {f \in tmp_send_fds \cup tmp_recv_fds \cup tmp_fail_fds : f > pc.fd}

\* The next descriptor that select reported and that is still reported. can_recv
\* is read before sm_resend.
Dispatch ==
  /\ pc.at = "loop"
  /\ \E fd \in Reported :
       /\ \A g \in Reported : fd <= g
       /\ \/ fd \in tmp_fail_fds /\ Close(fd) /\ At("loop", fd)
          \/ /\ fd \notin tmp_fail_fds
             /\ \/ fd \in server_fds /\ At("accept", fd)
                \/ fd \notin server_fds \cup tmp_send_fds /\ At("recv", fd)
                \/ /\ fd \notin server_fds /\ fd \in tmp_send_fds
                   /\ pc' = [at |-> "resend", fd |-> fd, can_recv |-> fd \in tmp_recv_fds]
             /\ UNCHANGED <<sets, tmp, fd_to_sendq, orphans, net>>
  /\ UNCHANGED <<backlog, conns, inputs>>

LoopEnds ==
  /\ pc.at = "loop" /\ Reported = {}
  /\ At("idle", 0)
  /\ UNCHANGED <<sets, tmp, fd_to_sendq, orphans, net, backlog, conns, inputs>>

\* on_accept may refuse the peer; a failing accept() closes the listener.
sm_accept ==
  /\ pc.at = "accept"
  /\ \/ /\ backlog > 0 /\ backlog' = backlog - 1
        /\ \E fd \in Fds \ {Server} : sm_add_fd(fd)
        /\ UNCHANGED pc
     \/ /\ backlog > 0 /\ backlog' = backlog - 1
        /\ UNCHANGED <<sets, tmp, fd_to_sendq, orphans, net, pc>>
     \/ /\ backlog = 0 /\ At("loop", pc.fd)
        /\ UNCHANGED <<sets, tmp, fd_to_sendq, orphans, net, backlog>>
     \/ Close(pc.fd) /\ At("loop", pc.fd) /\ UNCHANGED backlog
  /\ UNCHANGED <<conns, inputs>>

\* One message is received: on_recv sends to somebody, or fails, also because the
\* peer it sends to is closed, or does nothing.
Received ==
  /\ net[pc.fd].input # <<>>
  /\ LET m == Head(net[pc.fd].input)
     IN  \/ /\ \E fd \in all_fds \ {Server} :
                 /\ net[fd].state # "closed"
                 /\ sm_send(fd, m, pc.fd)
            /\ UNCHANGED pc
         \/ Close(pc.fd) /\ At("loop", pc.fd)
         \/ /\ net' = [net EXCEPT ![pc.fd].input = Tail(@)]
            /\ UNCHANGED <<sets, tmp, fd_to_sendq, orphans, pc>>

\* The loop of sm_recv, which reads until there is nothing to read, even when a
\* send was blocked. A descriptor that was removed fails and is not found.
sm_recv ==
  /\ pc.at = "recv"
  /\ \/ /\ pc.fd \in all_fds /\ Received
     \/ /\ pc.fd \in all_fds /\ net[pc.fd].input = <<>> /\ net[pc.fd].state = "closed"
        /\ Close(pc.fd) /\ At("loop", pc.fd)
     \/ /\ pc.fd \notin all_fds \/ (net[pc.fd].input = <<>> /\ net[pc.fd].state # "closed")
        /\ At("loop", pc.fd)
        /\ UNCHANGED <<sets, tmp, fd_to_sendq, orphans, net>>
  /\ UNCHANGED <<backlog, conns, inputs>>

\* There is nothing to select, or the program is told to quit.
sm_cleanup ==
  /\ pc.at = "idle"
  /\ sm_remove_fd(all_fds)
  /\ At("done", 0)
  /\ UNCHANGED <<backlog, conns, inputs>>

Loop == sm_select \/ Dispatch \/ LoopEnds \/ sm_accept \/ sm_resend \/ sm_recv

-----------------------------------------------------------------------------
(* The peers.                                                                *)

PeerConnects ==
  /\ Server \in all_fds /\ conns < MaxConns
  /\ conns' = conns + 1 /\ backlog' = backlog + 1
  /\ UNCHANGED <<sets, tmp, fd_to_sendq, orphans, pc, net, inputs>>

Peers == {f \in all_fds \ {Server} : net[f].state = "open"}

PeerSends ==
  /\ inputs < MaxIn
  /\ inputs' = inputs + 1
  /\ \E f \in Peers : net' = [net EXCEPT ![f].input = Append(@, inputs + 1)]
  /\ UNCHANGED <<sets, tmp, fd_to_sendq, orphans, pc, backlog, conns>>

PeerReads(f) ==
  /\ f \in Peers /\ net[f].unread > 0
  /\ net' = [net EXCEPT ![f].unread = @ - 1]
  /\ UNCHANGED <<sets, tmp, fd_to_sendq, orphans, pc, backlog, conns, inputs>>

PeerEnds ==
  /\ \E f \in Peers, state \in {"closed", "failed"} : net' = [net EXCEPT ![f].state = state]
  /\ UNCHANGED <<sets, tmp, fd_to_sendq, orphans, pc, backlog, conns, inputs>>

Next ==
  \/ Loop \/ sm_cleanup
  \/ PeerConnects \/ PeerSends \/ PeerEnds
  \/ \E f \in Fds : PeerReads(f)

Spec == Init /\ [][Next]_vars

\* The loop runs and the peers read what they are sent.
FairSpec == Spec /\ WF_vars(Loop) /\ \A f \in Fds \ {Server} : WF_vars(PeerReads(f))

-----------------------------------------------------------------------------
TypeOK ==
  /\ all_fds \subseteq Fds
  /\ server_fds \cup send_fds \cup recv_fds \subseteq all_fds
  /\ tmp_send_fds \cup tmp_recv_fds \cup tmp_fail_fds \subseteq all_fds
  /\ fd_to_sendq \in [Fds -> Seq(sm_sendq)]
  /\ orphans \subseteq Fds
  /\ pc \in Places
  /\ net \in [Fds -> Connection]
  /\ conns \in 0..MaxConns /\ backlog \in 0..conns /\ inputs \in 0..MaxIn

\* The comments of struct sm_private: recv_fds is "same as all_fds - sendq.recv_fd's".
\* A descriptor is not read exactly while a send that it caused is blocked,
\* whichever queues that is in and however its causes come and go.
RecvSuspended == recv_fds = all_fds \ AllCauses(fd_to_sendq)

\* The same comments say that send_fds is "same as fd_to_sendq.keys". It is, but
\* for the queues that sm_remove_fd leaves behind: those are never sent, not even
\* when the number of the descriptor is used again.
BlockedSends == send_fds = {f \in Fds : fd_to_sendq[f] # <<>>} \ orphans

\* Only descriptors that are open are the cause of a blocked send, and what is left
\* behind is never sent.
CausesOpen ==
  /\ AllCauses(fd_to_sendq) \subseteq all_fds \cup {0}
  /\ \A f \in orphans : fd_to_sendq[f] # <<>>

\* A descriptor that the loop has yet to come to, and that select reported as
\* writable, still has blocked sends.
Underway ==
  /\ pc.at \in {"accept", "recv"} => pc.fd \in Fds
  /\ pc.at = "resend" => pc.fd \in send_fds
  /\ pc.at \in {"loop", "accept", "resend", "recv"} =>
       \A f \in tmp_send_fds : f > pc.fd => f \in send_fds

\* The sets of descriptors and the queues have their types, and select waits for
\* every blocked send: no step of the loop, of its callbacks or of a close leaves
\* a queue that nobody sends, but for those of sm_remove_fd.
QueuesInv == TypeOK /\ BlockedSends /\ CausesOpen /\ Underway

\* What a queue holds, without the causes.
Piece(e) == [msg |-> e.msg, left |-> e.left]
Pieces(q) == [i \in DOMAIN q |-> Piece(q[i])]

\* A peer receives what was sent to it, in order and without gaps, and never what
\* was meant for another peer whose descriptor had the same number. What it has
\* not received is in the queue.
StreamsInOrder ==
  \A f \in all_fds :
    /\ ~net[f].garbled
    /\ f \notin orphans => net[f].owed = Pieces(fd_to_sendq[f])

\* What select reported of a descriptor is not taken for a report on the peer that
\* was given its number while the loop was running.
ReportsAreCurrent ==
  \A f \in tmp_send_fds \cup tmp_recv_fds \cup tmp_fail_fds : ~net[f].fresh

\* The inductive invariant behind the theorems of SocketManagerProofs.
SocketsInv == QueuesInv /\ RecvSuspended /\ StreamsInOrder /\ ReportsAreCurrent

\* A send that nobody will try again blocks r.
Orphaned(r) == \E f \in orphans : r \in Causes(fd_to_sendq[f])

\* The comment of sm_send: "we'll eventually block all of them until the first
\* blocked send succeeds". A peer that is not read is read again, or is
\* closed, unless a send that it caused was left behind by sm_remove_fd.
Resumed ==
  \A r \in Fds \ {Server} :
    r \in all_fds \ recv_fds ~> r \notin all_fds \/ r \in recv_fds \/ Orphaned(r)
=============================================================================
