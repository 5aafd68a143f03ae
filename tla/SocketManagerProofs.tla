------------------------ MODULE SocketManagerProofs ------------------------
(***************************************************************************)
(* Theorems about SocketManager, for any descriptors, message length and   *)
(* size of the kernel's buffers. The inductive invariant is SocketsInv. It *)
(* is taken apart by the variables it speaks of, and every operation of    *)
(* socket_manager.c is shown to keep each part.                            *)
(***************************************************************************)
EXTENDS SocketManager, SequenceTheorems, TLAPS

-----------------------------------------------------------------------------
(* Queues.                                                                 *)

LEMMA PieceType ==
  ASSUME NEW e \in sm_sendq
  PROVE  Piece(e) \in Owed
BY Zenon DEF Piece, Owed, sm_sendq

\* A queue without its causes.
LEMMA PiecesOf ==
  ASSUME NEW q \in Seq(sm_sendq)
  PROVE  /\ Pieces(q) \in Seq(Owed) /\ Len(Pieces(q)) = Len(q)
         /\ \A i \in 1..Len(q) : Pieces(q)[i] = Piece(q[i])
<1>1. Len(q) \in Nat /\ DOMAIN q = 1..Len(q) /\ \A i \in 1..Len(q) : q[i] \in sm_sendq
  OBVIOUS
<1>2. \A i \in 1..Len(q) : Piece(q[i]) \in Owed
  BY Zenon, <1>1, PieceType
<1>3. Pieces(q) = [i \in 1..Len(q) |-> Piece(q[i])]
  BY Zenon, <1>1 DEF Pieces
<1> QED BY <1>1, <1>2, <1>3

\* Queues that hold the same messages.
LEMMA SamePieces ==
  ASSUME NEW q \in Seq(sm_sendq), NEW r \in Seq(sm_sendq), Len(q) = Len(r),
         \A i \in 1..Len(q) : Piece(q[i]) = Piece(r[i])
  PROVE  Pieces(q) = Pieces(r)
<1>1. \A i \in 1..Len(q) : Pieces(q)[i] = Pieces(r)[i]
  BY Zenon, PiecesOf
<1> QED BY Zenon, <1>1, PiecesOf, SeqEqual

LEMMA PiecesAppend ==
  ASSUME NEW q \in Seq(sm_sendq), NEW e \in sm_sendq
  PROVE  Pieces(Append(q, e)) = Append(Pieces(q), Piece(e))
<1> DEFINE l == Pieces(Append(q, e))
           r == Append(Pieces(q), Piece(e))
           n == Len(q)
<1>1. Append(q, e) \in Seq(sm_sendq) /\ Len(Append(q, e)) = n + 1 /\ n \in Nat
      /\ Append(q, e)[n + 1] = e /\ \A i \in 1..n : Append(q, e)[i] = q[i]
  OBVIOUS
<1>2. l \in Seq(Owed) /\ Len(l) = n + 1
      /\ \A i \in 1..(n + 1) : l[i] = Piece(Append(q, e)[i])
  BY Zenon, <1>1, PiecesOf
<1>3. Pieces(q) \in Seq(Owed) /\ Len(Pieces(q)) = n
      /\ \A i \in 1..n : Pieces(q)[i] = Piece(q[i])
  BY Zenon, PiecesOf
<1>4. r \in Seq(Owed) /\ Len(r) = n + 1 /\ r[n + 1] = Piece(e)
      /\ \A i \in 1..n : r[i] = Piece(q[i])
  BY <1>1, <1>3, PieceType
<1> HIDE DEF l, r, n
<1>5. ASSUME NEW i \in 1..(n + 1) PROVE l[i] = r[i]
  <2>1. CASE i \in 1..n
    BY Zenon, <1>1, <1>2, <1>4, <2>1
  <2>2. CASE i = n + 1
    BY Zenon, <1>1, <1>2, <1>4, <2>2
  <2> QED BY <1>1, <2>1, <2>2
<1>6. l = r
  BY Zenon, <1>2, <1>4, <1>5, SeqEqual
<1> QED BY Zenon, <1>6 DEF l, r

LEMMA PiecesTail ==
  ASSUME NEW q \in Seq(sm_sendq), q # <<>>
  PROVE  /\ Tail(q) \in Seq(sm_sendq) /\ Len(Tail(q)) = Len(q) - 1 /\ Len(q) >= 1
         /\ Head(q) \in sm_sendq /\ Head(q) = q[1]
         /\ Pieces(q) # <<>> /\ Head(Pieces(q)) = Piece(Head(q))
         /\ Pieces(Tail(q)) = Tail(Pieces(q))
<1>1. /\ Tail(q) \in Seq(sm_sendq) /\ Len(Tail(q)) = Len(q) - 1 /\ Len(q) \in Nat /\ Len(q) >= 1
      /\ \A i \in 1..(Len(q) - 1) : Tail(q)[i] = q[i + 1]
      /\ Head(q) \in sm_sendq /\ Head(q) = q[1]
  OBVIOUS
<1>2. Pieces(q) \in Seq(Owed) /\ Len(Pieces(q)) = Len(q)
      /\ \A i \in 1..Len(q) : Pieces(q)[i] = Piece(q[i])
  BY Zenon, PiecesOf
<1>3. Pieces(q) # <<>> /\ Head(Pieces(q)) = Piece(Head(q))
  BY <1>1, <1>2
<1> DEFINE l == Pieces(Tail(q))
           r == Tail(Pieces(q))
<1>4. l \in Seq(Owed) /\ Len(l) = Len(q) - 1
      /\ \A i \in 1..(Len(q) - 1) : l[i] = Piece(Tail(q)[i])
  BY Zenon, <1>1, PiecesOf
<1>5. r \in Seq(Owed) /\ Len(r) = Len(q) - 1
      /\ \A i \in 1..(Len(q) - 1) : r[i] = Pieces(q)[i + 1]
  BY <1>1, <1>2, <1>3
<1> HIDE DEF l, r
<1>6. ASSUME NEW i \in 1..(Len(q) - 1) PROVE l[i] = r[i]
  <2>1. i + 1 \in 1..Len(q)
    BY <1>1
  <2> QED BY Zenon, <1>1, <1>2, <1>4, <1>5, <2>1
<1>7. l = r
  BY Zenon, <1>4, <1>5, <1>6, SeqEqual
<1> QED BY Zenon, <1>1, <1>3, <1>7 DEF l, r

\* A queue of which a part of the head was sent.
LEMMA LessOf ==
  ASSUME NEW q \in Seq(sm_sendq), q # <<>>, NEW n \in 0..(Head(q).left - 1)
  PROVE  /\ Less(q, n) \in Seq(sm_sendq) /\ Len(Less(q, n)) = Len(q)
         /\ Less(q, n)[1].recv_fd = q[1].recv_fd
         /\ Piece(Less(q, n)[1]) = [Piece(q[1]) EXCEPT !.left = @ - n]
         /\ \A i \in 2..Len(q) : Less(q, n)[i] = q[i]
<1> DEFINE e == [q[1] EXCEPT !.left = q[1].left - n]
<1>1. Len(q) \in Nat /\ Head(q) = q[1] /\ 1 \in 1..Len(q) /\ q[1] \in sm_sendq
  OBVIOUS
<1>2. q[1].left \in 1..MsgLen /\ MsgLen \in Nat
  BY Zenon, <1>1, SocketAssumption DEF sm_sendq
<1>3. q[1].left - n \in 1..MsgLen /\ n # Head(q).left
  BY <1>1, <1>2
<1>4. e \in sm_sendq /\ e.recv_fd = q[1].recv_fd /\ e.msg = q[1].msg /\ e.left = q[1].left - n
  BY Zenon, <1>1, <1>3 DEF sm_sendq
<1>5. Piece(e) = [Piece(q[1]) EXCEPT !.left = @ - n]
  BY <1>4 DEF Piece
<1>6. Less(q, n) = [q EXCEPT ![1] = e]
  BY Zenon, <1>3 DEF Less
<1> HIDE DEF e
<1> QED BY <1>1, <1>4, <1>5, <1>6

\* Who is the cause of a send in one of the queues.
LEMMA CauseIn ==
  ASSUME NEW Q \in [Fds -> Seq(sm_sendq)], NEW x
  PROVE  /\ x \in AllCauses(Q) <=> \E f \in Fds : x \in Causes(Q[f])
         /\ \A f \in Fds : x \in Causes(Q[f]) <=> \E i \in 1..Len(Q[f]) : Q[f][i].recv_fd = x
<1>1. \A f \in Fds : DOMAIN Q[f] = 1..Len(Q[f])
  OBVIOUS
<1>2. x \in AllCauses(Q) <=> \E f \in Fds : x \in Causes(Q[f])
  BY Zenon DEF AllCauses
<1>3. \A f \in Fds : x \in Causes(Q[f]) <=> \E i \in 1..Len(Q[f]) : Q[f][i].recv_fd = x
  BY Zenon, <1>1 DEF Causes
<1> QED BY Zenon, <1>2, <1>3

\* What appending, sending a part and sending all of the head do to the causes.
LEMMA CausesOf ==
  ASSUME NEW q \in Seq(sm_sendq)
  PROVE  /\ \A e \in sm_sendq : Causes(Append(q, e)) = Causes(q) \cup {e.recv_fd}
         /\ q # <<>> => Causes(q) = Causes(Tail(q)) \cup {Head(q).recv_fd}
         /\ q # <<>> => \A n \in 0..(Head(q).left - 1) : Causes(Less(q, n)) = Causes(q)
<1>1. Len(q) \in Nat /\ DOMAIN q = 1..Len(q)
  OBVIOUS
<1>2. ASSUME NEW e \in sm_sendq
      PROVE  Causes(Append(q, e)) = Causes(q) \cup {e.recv_fd}
  <2>1. DOMAIN Append(q, e) = 1..(Len(q) + 1) /\ Append(q, e)[Len(q) + 1] = e
        /\ \A i \in 1..Len(q) : Append(q, e)[i] = q[i]
    OBVIOUS
  <2> QED BY <1>1, <2>1 DEF Causes
<1>3. ASSUME q # <<>>
      PROVE  Causes(q) = Causes(Tail(q)) \cup {Head(q).recv_fd}
  <2>1. DOMAIN Tail(q) = 1..(Len(q) - 1) /\ Head(q) = q[1] /\ 1 \in 1..Len(q)
        /\ \A i \in 1..(Len(q) - 1) : Tail(q)[i] = q[i + 1]
    BY <1>3
  <2>2. \A i \in 1..Len(q) : i = 1 \/ i - 1 \in 1..(Len(q) - 1)
    BY <1>1
  <2>3. ASSUME NEW x \in Causes(q) PROVE x \in Causes(Tail(q)) \cup {Head(q).recv_fd}
    <3>1. PICK i \in 1..Len(q) : x = q[i].recv_fd
      BY Zenon, <1>1, <2>3 DEF Causes
    <3>2. CASE i = 1
      BY Zenon, <2>1, <3>1, <3>2
    <3>3. CASE i # 1
      <4>1. i - 1 \in DOMAIN Tail(q) /\ Tail(q)[i - 1] = q[i]
        BY <2>1, <2>2, <3>1, <3>3
      <4> QED BY Zenon, <3>1, <4>1 DEF Causes
    <3> QED BY Zenon, <3>2, <3>3
  <2>4. ASSUME NEW x \in Causes(Tail(q)) \cup {Head(q).recv_fd} PROVE x \in Causes(q)
    BY <1>1, <2>1, <2>4 DEF Causes
  <2> QED BY Zenon, <2>3, <2>4
<1>4. ASSUME q # <<>>, NEW n \in 0..(Head(q).left - 1)
      PROVE  Causes(Less(q, n)) = Causes(q)
  <2>1. Less(q, n) \in Seq(sm_sendq) /\ Len(Less(q, n)) = Len(q)
        /\ Less(q, n)[1].recv_fd = q[1].recv_fd
        /\ \A i \in 2..Len(q) : Less(q, n)[i] = q[i]
    BY Zenon, <1>4, LessOf
  <2>2. DOMAIN Less(q, n) = DOMAIN q /\ \A i \in DOMAIN q : Less(q, n)[i].recv_fd = q[i].recv_fd
    BY <1>1, <2>1
  <2> QED BY Zenon, <2>2 DEF Causes
<1> QED BY Zenon, <1>2, <1>3, <1>4

\* The pieces of a queue of which a part or all of the head was sent.
LEMMA PiecesLess ==
  ASSUME NEW q \in Seq(sm_sendq), q # <<>>, NEW n \in 0..Head(q).left
  PROVE  /\ Less(q, n) \in Seq(sm_sendq)
         /\ Pieces(Less(q, n)) = Less(Pieces(q), n)
         /\ n # Head(q).left => Less(q, n) # <<>>
<1>1. Head(q) = q[1] /\ Head(q) \in sm_sendq /\ Len(q) >= 1 /\ Len(q) \in Nat
      /\ Pieces(q) # <<>> /\ Head(Pieces(q)) = Piece(Head(q)) /\ Pieces(Tail(q)) = Tail(Pieces(q))
      /\ Tail(q) \in Seq(sm_sendq)
  BY PiecesTail
<1>2. Head(q).left \in Nat /\ Piece(Head(q)).left = Head(q).left
  BY <1>1, SocketAssumption DEF sm_sendq, Piece
<1>3. CASE n = Head(q).left
  BY Zenon, <1>1, <1>2, <1>3 DEF Less
<1>4. CASE n # Head(q).left
  <2>1. n \in 0..(Head(q).left - 1)
    BY <1>2, <1>4
  <2> DEFINE l == Less(q, n)
             r == Less(Pieces(q), n)
  <2>2. l \in Seq(sm_sendq) /\ Len(l) = Len(q)
        /\ Piece(l[1]) = [Piece(q[1]) EXCEPT !.left = @ - n]
        /\ \A i \in 2..Len(q) : l[i] = q[i]
    BY Zenon, <2>1, LessOf
  <2>3. Pieces(l) \in Seq(Owed) /\ Len(Pieces(l)) = Len(q)
        /\ \A i \in 1..Len(q) : Pieces(l)[i] = Piece(l[i])
    BY Zenon, <2>2, PiecesOf
  <2>4. Pieces(q) \in Seq(Owed) /\ Len(Pieces(q)) = Len(q)
        /\ \A i \in 1..Len(q) : Pieces(q)[i] = Piece(q[i])
    BY Zenon, PiecesOf
  <2>5. r = [Pieces(q) EXCEPT ![1] = [Piece(q[1]) EXCEPT !.left = Piece(q[1]).left - n]]
    <3>1. n # Head(Pieces(q)).left /\ Pieces(q)[1] = Piece(q[1])
      BY <1>1, <1>2, <1>4, <2>4
    <3> QED BY Zenon, <3>1 DEF Less
  <2>6. Piece(l[1]) \in Owed
    BY <1>1, <2>2, PieceType
  <2> HIDE DEF l, r
  <2>7. r \in Seq(Owed) /\ Len(r) = Len(q) /\ r[1] = Piece(l[1])
        /\ \A i \in 2..Len(q) : r[i] = Piece(q[i])
    BY <1>1, <2>2, <2>4, <2>5, <2>6
  <2>8. ASSUME NEW i \in 1..Len(q) PROVE Pieces(l)[i] = r[i]
    BY SMTT(40), <1>1, <2>2, <2>3, <2>7
  <2>9. Pieces(l) = r
    BY Zenon, <2>3, <2>7, <2>8, SeqEqual
  <2>10. l # <<>>
    BY <1>1, <2>2
  <2> QED BY Zenon, <2>2, <2>9, <2>10 DEF l, r
<1> QED BY Zenon, <1>3, <1>4

\* The causes when one queue is replaced.
LEMMA CausesUpdated ==
  ASSUME NEW Q \in [Fds -> Seq(sm_sendq)], NEW fd \in Fds, NEW q \in Seq(sm_sendq), NEW x
  PROVE  /\ x \in AllCauses([Q EXCEPT ![fd] = q])
              <=> x \in Causes(q) \/ \E f \in Fds \ {fd} : x \in Causes(Q[f])
         /\ x \in AllCauses(Q) <=> x \in Causes(Q[fd]) \/ \E f \in Fds \ {fd} : x \in Causes(Q[f])
<1> DEFINE R == [Q EXCEPT ![fd] = q]
<1>1. R \in [Fds -> Seq(sm_sendq)] /\ R[fd] = q /\ \A f \in Fds \ {fd} : R[f] = Q[f]
  BY Zenon
<1>2. x \in AllCauses(R) <=> \E f \in Fds : x \in Causes(R[f])
  BY Zenon, <1>1, CauseIn
<1>3. x \in AllCauses(Q) <=> \E f \in Fds : x \in Causes(Q[f])
  BY Zenon, CauseIn
<1> QED BY Zenon, <1>1, <1>2, <1>3

-----------------------------------------------------------------------------
(* The parts of SocketsInv.                                                *)

Descriptors ==
  /\ all_fds \subseteq Fds /\ server_fds \cup send_fds \cup recv_fds \subseteq all_fds
  /\ fd_to_sendq \in [Fds -> Seq(sm_sendq)] /\ orphans \subseteq Fds
  /\ BlockedSends /\ CausesOpen /\ RecvSuspended

Connections == net \in [Fds -> Connection] /\ StreamsInOrder

Reports ==
  /\ tmp_send_fds \cup tmp_recv_fds \cup tmp_fail_fds \subseteq all_fds
  /\ ReportsAreCurrent

Position == pc \in Places /\ Underway

Counters == conns \in 0..MaxConns /\ backlog \in 0..conns /\ inputs \in 0..MaxIn

LEMMA Parts == SocketsInv <=> Descriptors /\ Connections /\ Reports /\ Position /\ Counters
BY Zenon DEF SocketsInv, QueuesInv, TypeOK, Descriptors, Connections, Reports, Position, Counters

LEMMA PartsKept ==
  ASSUME Descriptors', Connections', Reports', Position', Counters'
  PROVE  SocketsInv'
BY Zenon DEF SocketsInv, QueuesInv, TypeOK, Descriptors, Connections, Reports, Position, Counters

LEMMA FdsAreNumbers == 0 \notin Fds /\ \A f \in Fds \cup {0} : f \in Nat
BY SocketAssumption

-----------------------------------------------------------------------------
(* sm_remove_fd and sm_add_fd.                                             *)

\* A queue keeps its messages when causes are forgotten.
LEMMA ForgottenQueues ==
  ASSUME fd_to_sendq \in [Fds -> Seq(sm_sendq)], NEW fds \in SUBSET Fds
  PROVE  /\ Forgotten(fds) \in [Fds -> Seq(sm_sendq)]
         /\ \A f \in Fds :
              /\ Pieces(Forgotten(fds)[f]) = Pieces(fd_to_sendq[f])
              /\ Len(Forgotten(fds)[f]) = Len(fd_to_sendq[f])
              /\ \A i \in 1..Len(fd_to_sendq[f]) :
                   Forgotten(fds)[f][i].recv_fd
                     = IF fd_to_sendq[f][i].recv_fd \in fds THEN 0 ELSE fd_to_sendq[f][i].recv_fd
<1> DEFINE F(e) == IF e.recv_fd \in fds THEN [e EXCEPT !.recv_fd = 0] ELSE e
<1>1. ASSUME NEW e \in sm_sendq
      PROVE  /\ F(e) \in sm_sendq /\ Piece(F(e)) = Piece(e)
             /\ F(e).recv_fd = IF e.recv_fd \in fds THEN 0 ELSE e.recv_fd
  BY Zenon DEF sm_sendq, Piece
<1>2. \A f \in Fds : Forgotten(fds)[f] = [i \in DOMAIN fd_to_sendq[f] |-> F(fd_to_sendq[f][i])]
  BY Zenon DEF Forgotten
<1> HIDE DEF F
<1>3. ASSUME NEW f \in Fds
      PROVE  /\ Forgotten(fds)[f] \in Seq(sm_sendq)
             /\ Pieces(Forgotten(fds)[f]) = Pieces(fd_to_sendq[f])
             /\ Len(Forgotten(fds)[f]) = Len(fd_to_sendq[f])
             /\ \A i \in 1..Len(fd_to_sendq[f]) :
                  Forgotten(fds)[f][i] = F(fd_to_sendq[f][i])
  <2> DEFINE q == fd_to_sendq[f]
             r == Forgotten(fds)[f]
  <2>1. q \in Seq(sm_sendq) /\ DOMAIN q = 1..Len(q) /\ Len(q) \in Nat
        /\ \A i \in 1..Len(q) : q[i] \in sm_sendq
    OBVIOUS
  <2>2. r = [i \in 1..Len(q) |-> F(q[i])]
    BY Zenon, <1>2, <2>1
  <2> HIDE DEF q, r
  <2>3. r \in Seq(sm_sendq) /\ Len(r) = Len(q) /\ \A i \in 1..Len(q) : r[i] = F(q[i])
    BY <1>1, <2>1, <2>2
  <2>4. \A i \in 1..Len(q) : Piece(r[i]) = Piece(q[i])
    BY Zenon, <1>1, <2>1, <2>3
  <2>5. Pieces(r) = Pieces(q)
    BY Zenon, <2>1, <2>3, <2>4, SamePieces
  <2> QED BY Zenon, <2>3, <2>5 DEF q, r
<1>4. Forgotten(fds) \in [Fds -> Seq(sm_sendq)]
  BY Zenon, <1>3 DEF Forgotten
<1>5. \A f \in Fds : \A i \in 1..Len(fd_to_sendq[f]) : fd_to_sendq[f][i] \in sm_sendq
  OBVIOUS
<1> QED BY Zenon, <1>1, <1>3, <1>4, <1>5

\* The causes that are left.
LEMMA ForgottenCauses ==
  ASSUME fd_to_sendq \in [Fds -> Seq(sm_sendq)], NEW fds \in SUBSET Fds, NEW x
  PROVE  /\ x \notin fds /\ x \in AllCauses(fd_to_sendq) => x \in AllCauses(Forgotten(fds))
         /\ x \in AllCauses(Forgotten(fds)) => x = 0 \/ (x \notin fds /\ x \in AllCauses(fd_to_sendq))
<1> DEFINE Q == Forgotten(fds)
<1>1. Q \in [Fds -> Seq(sm_sendq)]
      /\ \A f \in Fds :
           /\ Len(Q[f]) = Len(fd_to_sendq[f])
           /\ \A i \in 1..Len(fd_to_sendq[f]) :
                Q[f][i].recv_fd
                  = IF fd_to_sendq[f][i].recv_fd \in fds THEN 0 ELSE fd_to_sendq[f][i].recv_fd
  BY ForgottenQueues
<1> HIDE DEF Q
<1>2. x \in AllCauses(Q) <=> \E f \in Fds : \E i \in 1..Len(Q[f]) : Q[f][i].recv_fd = x
  BY <1>1, CauseIn
<1>3. x \in AllCauses(fd_to_sendq)
      <=> \E f \in Fds : \E i \in 1..Len(fd_to_sendq[f]) : fd_to_sendq[f][i].recv_fd = x
  BY Zenon, CauseIn
<1>4. ASSUME x \notin fds, x \in AllCauses(fd_to_sendq) PROVE x \in AllCauses(Q)
  <2>1. PICK f \in Fds : \E i \in 1..Len(fd_to_sendq[f]) : fd_to_sendq[f][i].recv_fd = x
    BY Zenon, <1>3, <1>4
  <2>2. \E i \in 1..Len(Q[f]) : Q[f][i].recv_fd = x
    BY Zenon, <1>1, <1>4, <2>1
  <2> QED BY Zenon, <1>2, <2>2
<1>5. ASSUME x \in AllCauses(Q), x # 0 PROVE x \notin fds /\ x \in AllCauses(fd_to_sendq)
  <2>1. PICK f \in Fds : \E i \in 1..Len(Q[f]) : Q[f][i].recv_fd = x
    BY Zenon, <1>2, <1>5
  <2>2. \E i \in 1..Len(fd_to_sendq[f]) : fd_to_sendq[f][i].recv_fd = x /\ x \notin fds
    BY <1>1, <1>5, <2>1
  <2> QED BY Zenon, <1>3, <2>2
<1> QED BY Zenon, <1>4, <1>5 DEF Q

LEMMA RemoveKeepsDescriptors ==
  ASSUME Descriptors, NEW fds \in SUBSET Fds, sm_remove_fd(fds)
  PROVE  Descriptors'
<1>1. fd_to_sendq \in [Fds -> Seq(sm_sendq)] /\ fd_to_sendq' = Forgotten(fds)
  BY Zenon DEF Descriptors, sm_remove_fd
<1>2. fd_to_sendq' \in [Fds -> Seq(sm_sendq)]
      /\ \A f \in Fds : fd_to_sendq'[f] = <<>> <=> fd_to_sendq[f] = <<>>
  <2>1. fd_to_sendq' \in [Fds -> Seq(sm_sendq)]
        /\ \A f \in Fds : Len(fd_to_sendq'[f]) = Len(fd_to_sendq[f])
    BY Zenon, <1>1, ForgottenQueues
  <2> QED BY <1>1, <2>1
<1>3. /\ all_fds' = all_fds \ fds /\ server_fds' = server_fds \ fds
      /\ send_fds' = send_fds \ fds /\ recv_fds' = recv_fds \ fds
      /\ orphans' = orphans \cup {f \in fds : fd_to_sendq[f] # <<>>}
  BY Zenon DEF sm_remove_fd
<1>4. BlockedSends'
  BY Zenon, <1>2, <1>3 DEF Descriptors, BlockedSends
<1>5. CausesOpen'
  <2>1. ASSUME NEW x \in AllCauses(fd_to_sendq') PROVE x \in all_fds' \cup {0}
    <3>1. x = 0 \/ (x \notin fds /\ x \in AllCauses(fd_to_sendq))
      BY Zenon, <1>1, <2>1, ForgottenCauses
    <3> QED BY Zenon, <1>3, <3>1 DEF Descriptors, CausesOpen
  <2>2. \A f \in orphans' : fd_to_sendq'[f] # <<>>
    BY Zenon, <1>2, <1>3 DEF Descriptors, CausesOpen
  <2> QED BY Zenon, <2>1, <2>2 DEF CausesOpen
<1>6. RecvSuspended'
  <2>1. recv_fds = all_fds \ AllCauses(fd_to_sendq) /\ 0 \notin Fds /\ all_fds \subseteq Fds
    BY Zenon, SocketAssumption DEF Descriptors, RecvSuspended
  <2>2. ASSUME NEW x \in all_fds, x \notin fds
        PROVE  x \in AllCauses(fd_to_sendq') <=> x \in AllCauses(fd_to_sendq)
    BY <1>1, <2>1, <2>2, ForgottenCauses
  <2> QED BY Zenon, <1>3, <2>1, <2>2 DEF RecvSuspended
<1> QED BY Zenon, <1>2, <1>3, <1>4, <1>5, <1>6 DEF Descriptors

LEMMA NewConnectionType == NewConnection \in Connection
<1>1. 0 \in 0..BufCap /\ <<>> \in Seq(Owed) /\ <<>> \in Seq(Messages)
  BY SocketAssumption
<1> QED BY Zenon, <1>1 DEF NewConnection, Connection

LEMMA RemoveKeepsConnections ==
  ASSUME Descriptors, Connections, NEW fds \in SUBSET Fds, sm_remove_fd(fds)
  PROVE  Connections'
<1>1. net' \in [Fds -> Connection]
      /\ \A f \in Fds \ fds : net'[f] = net[f]
  BY Zenon, NewConnectionType DEF Connections, sm_remove_fd
<1>2. ASSUME NEW f \in all_fds'
      PROVE  /\ ~net'[f].garbled
             /\ f \notin orphans' => net'[f].owed = Pieces(fd_to_sendq'[f])
  <2>1. f \in all_fds /\ f \in Fds \ fds
    BY Zenon, <1>2 DEF Descriptors, sm_remove_fd
  <2>2. Pieces(fd_to_sendq'[f]) = Pieces(fd_to_sendq[f])
    BY Zenon, <2>1, ForgottenQueues DEF Descriptors, sm_remove_fd
  <2>3. f \notin orphans' => f \notin orphans
    BY Zenon DEF sm_remove_fd
  <2> QED BY Zenon, <1>1, <2>1, <2>2, <2>3 DEF Connections, StreamsInOrder
<1> QED BY Zenon, <1>1, <1>2 DEF Connections, StreamsInOrder

LEMMA RemoveKeepsReports ==
  ASSUME Descriptors, Reports, NEW fds \in SUBSET Fds, sm_remove_fd(fds)
  PROVE  /\ Reports'
         /\ tmp_send_fds' = tmp_send_fds \ fds /\ send_fds' = send_fds \ fds
<1>1. /\ tmp_send_fds' = tmp_send_fds \ fds /\ tmp_recv_fds' = tmp_recv_fds \ fds
      /\ tmp_fail_fds' = tmp_fail_fds \ fds /\ all_fds' = all_fds \ fds
      /\ send_fds' = send_fds \ fds
      /\ \A f \in Fds \ fds : net'[f] = net[f]
  BY Zenon DEF sm_remove_fd, ClearTmp
<1>2. ReportsAreCurrent'
  BY Zenon, <1>1 DEF Descriptors, Reports, ReportsAreCurrent
<1> QED BY Zenon, <1>1, <1>2 DEF Reports

\* A number that was free: nothing is blocked for it that could be sent, and it is
\* the cause of nothing.
LEMMA AddKeeps ==
  ASSUME Descriptors, Connections, Reports, NEW fd \in Fds, sm_add_fd(fd)
  PROVE  /\ Descriptors' /\ Connections' /\ Reports'
         /\ tmp_send_fds' = tmp_send_fds \ {fd} /\ send_fds' = send_fds
<1>1. /\ fd \notin all_fds /\ all_fds' = all_fds \cup {fd} /\ send_fds' = send_fds \ {fd}
      /\ recv_fds' = recv_fds \cup {fd} /\ server_fds' = server_fds
      /\ fd_to_sendq' = fd_to_sendq /\ orphans' = orphans
      /\ tmp_send_fds' = tmp_send_fds \ {fd} /\ tmp_recv_fds' = tmp_recv_fds \ {fd}
      /\ tmp_fail_fds' = tmp_fail_fds \ {fd}
      /\ net' = [net EXCEPT ![fd] = NewConnection]
  BY Zenon DEF sm_add_fd, ClearTmp
<1>2. send_fds' = send_fds
  BY Zenon, <1>1 DEF Descriptors
<1>3. fd \notin AllCauses(fd_to_sendq)
  BY Zenon, <1>1, SocketAssumption DEF Descriptors, CausesOpen
<1>4. Descriptors'
  BY Zenon, <1>1, <1>2, <1>3 DEF Descriptors, BlockedSends, CausesOpen, RecvSuspended
<1>5. net' \in [Fds -> Connection] /\ net'[fd] = NewConnection
      /\ \A f \in Fds \ {fd} : net'[f] = net[f]
  BY Zenon, <1>1, NewConnectionType DEF Connections
<1>6. Connections'
  <2>1. ~net'[fd].garbled /\ net'[fd].owed = <<>>
    BY <1>5 DEF NewConnection
  <2>2. fd \notin orphans => fd_to_sendq[fd] = <<>>
    BY Zenon, <1>1 DEF Descriptors, BlockedSends
  <2>3. Pieces(<<>>) = <<>>
    BY DEF Pieces
  <2>4. \A f \in all_fds' : f = fd \/ (f \in all_fds /\ f \in Fds \ {fd})
    BY Zenon, <1>1 DEF Descriptors
  <2> QED BY Zenon, <1>1, <1>5, <2>1, <2>2, <2>3, <2>4 DEF Connections, StreamsInOrder
<1>7. Reports'
  BY Zenon, <1>1, <1>5 DEF Descriptors, Reports, ReportsAreCurrent
<1> QED BY Zenon, <1>1, <1>2, <1>4, <1>6, <1>7

-----------------------------------------------------------------------------
(* sm_send and sm_resend.                                                  *)

\* The rest of a message is queued: the first one makes select wait for the
\* descriptor, and its cause is not read any more.
LEMMA BlockedKeeps ==
  ASSUME Descriptors, NEW fd \in all_fds, NEW curr \in all_fds, NEW msg \in Messages,
         NEW left \in 1..MsgLen, Blocked(fd, msg, left, curr),
         send_fds' = IF fd_to_sendq[fd] = <<>> THEN send_fds \cup {fd} ELSE send_fds,
         UNCHANGED <<all_fds, server_fds, orphans>>
  PROVE  /\ Descriptors'
         /\ Pieces(fd_to_sendq'[fd]) = Append(Pieces(fd_to_sendq[fd]), [msg |-> msg, left |-> left])
         /\ \A f \in Fds \ {fd} : fd_to_sendq'[f] = fd_to_sendq[f]
<1> DEFINE e == [recv_fd |-> curr, msg |-> msg, left |-> left]
           q == Append(fd_to_sendq[fd], e)
<1>1. /\ fd \in Fds /\ curr \in Fds /\ fd_to_sendq \in [Fds -> Seq(sm_sendq)]
      /\ fd_to_sendq[fd] \in Seq(sm_sendq)
  BY Zenon DEF Descriptors
<1>2. e \in sm_sendq /\ e.recv_fd = curr /\ Piece(e) = [msg |-> msg, left |-> left]
  BY Zenon, <1>1 DEF sm_sendq, Piece
<1>3. fd_to_sendq' = [fd_to_sendq EXCEPT ![fd] = q]
      /\ recv_fds' = recv_fds \ {curr} /\ tmp_recv_fds' = tmp_recv_fds \ {curr}
  BY Zenon DEF Blocked
<1> HIDE DEF e
<1>4. q \in Seq(sm_sendq) /\ q # <<>>
  BY <1>1, <1>2, AppendProperties
<1>5. Pieces(q) = Append(Pieces(fd_to_sendq[fd]), [msg |-> msg, left |-> left])
  BY Zenon, <1>1, <1>2, PiecesAppend
<1>6. Causes(q) = Causes(fd_to_sendq[fd]) \cup {curr}
  BY Zenon, <1>1, <1>2, CausesOf
<1> HIDE DEF q
<1>7. /\ fd_to_sendq' \in [Fds -> Seq(sm_sendq)] /\ fd_to_sendq'[fd] = q
      /\ \A f \in Fds \ {fd} : fd_to_sendq'[f] = fd_to_sendq[f]
  BY Zenon, <1>1, <1>3, <1>4
<1>8. AllCauses(fd_to_sendq') = AllCauses(fd_to_sendq) \cup {curr}
  <2>1. ASSUME NEW x
        PROVE  x \in AllCauses(fd_to_sendq') <=> x \in AllCauses(fd_to_sendq) \/ x = curr
    <3>1. /\ x \in AllCauses(fd_to_sendq')
               <=> x \in Causes(q) \/ \E f \in Fds \ {fd} : x \in Causes(fd_to_sendq[f])
          /\ x \in AllCauses(fd_to_sendq)
               <=> x \in Causes(fd_to_sendq[fd])
                   \/ \E f \in Fds \ {fd} : x \in Causes(fd_to_sendq[f])
      BY Zenon, <1>1, <1>3, <1>4, CausesUpdated
    <3> QED BY Zenon, <1>6, <3>1
  <2> QED BY Zenon, <2>1
<1>9. BlockedSends'
  <2>1. fd_to_sendq[fd] = <<>> => fd \notin orphans
    BY Zenon DEF Descriptors, CausesOpen
  <2>2. send_fds = {f \in Fds : fd_to_sendq[f] # <<>>} \ orphans
    BY Zenon DEF Descriptors, BlockedSends
  <2> QED BY Zenon, <1>1, <1>4, <1>7, <2>1, <2>2 DEF BlockedSends
<1>10. CausesOpen'
  BY Zenon, <1>1, <1>4, <1>7, <1>8 DEF Descriptors, CausesOpen
<1>11. RecvSuspended'
  BY Zenon, <1>3, <1>8 DEF Descriptors, RecvSuspended
<1>12. send_fds' \subseteq all_fds
  BY Zenon DEF Descriptors
<1>13. Descriptors'
  BY Zenon, <1>3, <1>7, <1>9, <1>10, <1>11, <1>12 DEF Descriptors
<1> QED BY Zenon, <1>5, <1>7, <1>13

\* What Consumed does to the fields of a connection.
LEMMA ConsumedFields ==
  ASSUME net \in [Fds -> Connection], NEW fd \in Fds, NEW curr \in Fds, NEW conn \in Connection,
         conn.input = net[fd].input, conn.fresh = net[fd].fresh, net[curr].input # <<>>
  PROVE  /\ Consumed(fd, conn, curr) \in [Fds -> Connection]
         /\ \A f \in Fds :
              LET c == IF f = fd THEN conn ELSE net[f]
              IN  /\ Consumed(fd, conn, curr)[f].owed = c.owed
                  /\ Consumed(fd, conn, curr)[f].garbled = c.garbled
                  /\ Consumed(fd, conn, curr)[f].fresh = net[f].fresh
<1> DEFINE now == [net EXCEPT ![fd] = conn]
           c == [now[curr] EXCEPT !.input = Tail(now[curr].input)]
<1>1. /\ now \in [Fds -> Connection] /\ now[fd] = conn
      /\ \A f \in Fds \ {fd} : now[f] = net[f]
  BY Zenon
<1>2. Consumed(fd, conn, curr) = [now EXCEPT ![curr] = c]
  BY Zenon DEF Consumed
<1>3. now[curr].input = net[curr].input /\ now[curr] \in Connection
  BY Zenon, <1>1
<1> HIDE DEF now
<1>4. Tail(now[curr].input) \in Seq(Messages)
  BY <1>3 DEF Connection
<1>5. c \in Connection /\ c.owed = now[curr].owed /\ c.garbled = now[curr].garbled
      /\ c.fresh = now[curr].fresh
  BY Zenon, <1>3, <1>4 DEF Connection
<1> HIDE DEF c
<1> QED BY <1>1, <1>2, <1>5

\* n bytes of the head of a queue are taken from what is owed, when that is the queue.
LEMMA TookFields ==
  ASSUME net \in [Fds -> Connection], NEW fd \in Fds, NEW q \in Seq(sm_sendq), q # <<>>,
         NEW n \in 0..Head(q).left, NEW u \in 0..BufCap
  PROVE  LET c == Took(fd, Pieces(q), Head(q).msg, n, u)
         IN  /\ c \in Connection /\ c.owed = Pieces(Less(q, n)) /\ c.garbled = net[fd].garbled
             /\ c.input = net[fd].input /\ c.fresh = net[fd].fresh
<1> DEFINE c == Took(fd, Pieces(q), Head(q).msg, n, u)
           old == net[fd]
<1>1. Head(q) \in sm_sendq /\ Head(Pieces(q)) = Piece(Head(q))
  BY Zenon, PiecesTail
<1>2. Head(q).left \in Nat /\ Piece(Head(q)).left = Head(q).left
      /\ Piece(Head(q)).msg = Head(q).msg
  BY <1>1, SocketAssumption DEF sm_sendq, Piece
<1>3. Less(Pieces(q), n) = Pieces(Less(q, n)) /\ Pieces(Less(q, n)) \in Seq(Owed)
  BY Zenon, PiecesLess, PiecesOf
<1>4. old \in Connection
  BY Zenon
<1>5. (n > 0 /\ ~(Head(Pieces(q)).msg = Head(q).msg /\ n <= Head(Pieces(q)).left)) = FALSE
  BY <1>1, <1>2
<1>6. c = [old EXCEPT !.owed = Pieces(Less(q, n)),
                      !.garbled = old.garbled \/ FALSE,
                      !.unread = u]
  BY Zenon, <1>3, <1>5 DEF Took
<1> HIDE DEF c, old
<1>7. /\ c \in Connection /\ c.owed = Pieces(Less(q, n)) /\ c.garbled = old.garbled
      /\ c.input = old.input /\ c.fresh = old.fresh
  BY Zenon, <1>3, <1>4, <1>6 DEF Connection
<1> QED BY Zenon, <1>7 DEF c, old

\* A message for fd is sent, or queued behind what is blocked.
LEMMA SendKeeps ==
  ASSUME Descriptors, Connections, Reports, NEW fd \in all_fds, NEW curr \in all_fds,
         NEW msg \in Messages, net[curr].input # <<>>, sm_send(fd, msg, curr)
  PROVE  /\ Descriptors' /\ Connections' /\ Reports'
         /\ tmp_send_fds' = tmp_send_fds /\ send_fds \subseteq send_fds'
<1> DEFINE p == [msg |-> msg, left |-> MsgLen]
           e == [recv_fd |-> curr, msg |-> msg, left |-> MsgLen]
<1>0. /\ fd \in Fds /\ curr \in Fds /\ all_fds \subseteq Fds
      /\ fd_to_sendq[fd] \in Seq(sm_sendq) /\ net \in [Fds -> Connection]
      /\ net[fd] \in Connection /\ MsgLen \in 1..MsgLen /\ MsgLen \in Nat
  BY SocketAssumption DEF Descriptors, Connections
<1>1. e \in sm_sendq /\ e.left = MsgLen /\ e.msg = msg /\ Piece(e) = p /\ p \in Owed
  BY Zenon, <1>0 DEF sm_sendq, Piece, Owed
<1>2. UNCHANGED <<all_fds, server_fds, tmp_send_fds, tmp_fail_fds, orphans>>
  BY Zenon DEF sm_send
<1>3. ASSUME NEW conn \in Connection, conn.input = net[fd].input, conn.fresh = net[fd].fresh,
             conn.garbled = net[fd].garbled, net' = Consumed(fd, conn, curr),
             fd \notin orphans => conn.owed = Pieces(fd_to_sendq'[fd]),
             \A f \in Fds \ {fd} : fd_to_sendq'[f] = fd_to_sendq[f],
             tmp_recv_fds' \subseteq tmp_recv_fds
      PROVE  Connections' /\ Reports'
  <2>1. /\ net' \in [Fds -> Connection]
        /\ \A f \in Fds : net'[f].fresh = net[f].fresh
        /\ net'[fd].owed = conn.owed /\ net'[fd].garbled = conn.garbled
        /\ \A f \in Fds \ {fd} : net'[f].owed = net[f].owed /\ net'[f].garbled = net[f].garbled
    BY <1>0, <1>3, ConsumedFields
  <2>2. StreamsInOrder'
    BY <1>0, <1>2, <1>3, <2>1 DEF Connections, StreamsInOrder
  <2>3. Reports'
    BY Zenon, <1>0, <1>2, <1>3, <2>1 DEF Reports, ReportsAreCurrent
  <2> QED BY Zenon, <2>1, <2>2, <2>3 DEF Connections
<1>4. CASE fd_to_sendq[fd] # <<>>
  <2>1. /\ net' = Consumed(fd, [net[fd] EXCEPT !.owed = Append(net[fd].owed, p)], curr)
        /\ Blocked(fd, msg, MsgLen, curr) /\ send_fds' = send_fds
    BY Zenon, <1>4 DEF sm_send
  <2>2. /\ Descriptors' /\ Pieces(fd_to_sendq'[fd]) = Append(Pieces(fd_to_sendq[fd]), p)
        /\ \A f \in Fds \ {fd} : fd_to_sendq'[f] = fd_to_sendq[f]
    BY Zenon, <1>0, <1>2, <1>4, <2>1, BlockedKeeps
  <2> DEFINE conn == [net[fd] EXCEPT !.owed = Append(net[fd].owed, p)]
  <2>3. Append(net[fd].owed, p) \in Seq(Owed)
    <3>1. net[fd].owed \in Seq(Owed)
      BY Zenon, <1>0 DEF Connection
    <3> QED BY Zenon, <1>1, <3>1, AppendProperties
  <2>4. /\ conn \in Connection /\ conn.input = net[fd].input /\ conn.fresh = net[fd].fresh
        /\ conn.garbled = net[fd].garbled /\ conn.owed = Append(net[fd].owed, p)
    BY Zenon, <1>0, <2>3 DEF Connection
  <2>5. fd \notin orphans => net[fd].owed = Pieces(fd_to_sendq[fd])
    BY Zenon DEF Connections, StreamsInOrder
  <2>6. tmp_recv_fds' \subseteq tmp_recv_fds
    BY Zenon, <2>1 DEF Blocked
  <2> HIDE DEF conn, p
  <2>7. Connections' /\ Reports'
    <3>1. net' = Consumed(fd, conn, curr)
      BY Zenon, <2>1 DEF conn
    <3>2. fd \notin orphans => conn.owed = Pieces(fd_to_sendq'[fd])
      BY Zenon, <2>2, <2>4, <2>5
    <3> QED BY Zenon, <1>3, <2>2, <2>4, <2>6, <3>1, <3>2
  <2> QED BY Zenon, <1>2, <2>1, <2>2, <2>7
<1>5. CASE fd_to_sendq[fd] = <<>>
  <2>1. SendNow(fd, msg, curr)
    BY Zenon, <1>5 DEF sm_send
  <2>2. fd \notin orphans /\ net[fd].owed = <<>>
    <3>1. fd \notin orphans
      BY Zenon, <1>5 DEF Descriptors, CausesOpen
    <3>2. Pieces(<<>>) = <<>>
      BY DEF Pieces
    <3> QED BY Zenon, <1>5, <3>1, <3>2 DEF Connections, StreamsInOrder
  <2> DEFINE q == Append(<<>>, e)
  <2>3. q \in Seq(sm_sendq) /\ q # <<>> /\ Head(q) = e /\ Tail(q) = <<>> /\ Len(q) = 1
        /\ q[1] = e
    BY <1>1
  <2>4. Pieces(q) = Append(<<>>, p)
    <3>1. Pieces(<<>>) = <<>> /\ <<>> \in Seq(sm_sendq)
      BY DEF Pieces
    <3> QED BY Zenon, <1>1, <3>1, PiecesAppend
  <2> HIDE DEF q, e, p
  <2>5. PICK n \in 0..MsgLen, u \in 0..BufCap :
          /\ net' = Consumed(fd, Took(fd, Append(net[fd].owed, p), msg, n, u), curr)
          /\ IF n = MsgLen THEN UNCHANGED <<fd_to_sendq, send_fds, recv_fds, tmp_recv_fds>>
             ELSE Blocked(fd, msg, MsgLen - n, curr) /\ send_fds' = send_fds \cup {fd}
    BY Zenon, <2>1 DEF SendNow, p
  <2> DEFINE conn == Took(fd, Pieces(q), Head(q).msg, n, u)
  <2>6. net' = Consumed(fd, conn, curr)
    BY Zenon, <1>1, <2>2, <2>3, <2>4, <2>5
  <2>7. /\ conn \in Connection /\ conn.owed = Pieces(Less(q, n))
        /\ conn.garbled = net[fd].garbled
        /\ conn.input = net[fd].input /\ conn.fresh = net[fd].fresh
    <3>1. n \in 0..Head(q).left
      BY Zenon, <1>1, <2>3
    <3> QED BY <1>0, <2>3, <3>1, TookFields
  <2> HIDE DEF conn
  <2>8. CASE n = MsgLen
    <3>1. UNCHANGED <<fd_to_sendq, send_fds, recv_fds, tmp_recv_fds>>
      BY Zenon, <2>5, <2>8
    <3>2. conn.owed = Pieces(fd_to_sendq'[fd])
      BY Zenon, <1>1, <1>5, <2>3, <2>7, <2>8, <3>1 DEF Less
    <3>3. Descriptors'
      BY Zenon, <1>2, <3>1 DEF Descriptors, BlockedSends, CausesOpen, RecvSuspended
    <3>4. Connections' /\ Reports'
      BY Zenon, <1>3, <2>6, <2>7, <3>1, <3>2
    <3> QED BY Zenon, <1>2, <3>1, <3>3, <3>4
  <2>9. CASE n # MsgLen
    <3>1. /\ Blocked(fd, msg, MsgLen - n, curr) /\ send_fds' = send_fds \cup {fd}
          /\ MsgLen - n \in 1..MsgLen /\ n \in 0..(Head(q).left - 1)
      BY <1>0, <1>1, <2>3, <2>5, <2>9
    <3>2. /\ Descriptors'
          /\ Pieces(fd_to_sendq'[fd])
               = Append(Pieces(fd_to_sendq[fd]), [msg |-> msg, left |-> MsgLen - n])
          /\ \A f \in Fds \ {fd} : fd_to_sendq'[f] = fd_to_sendq[f]
      BY Zenon, <1>0, <1>2, <1>5, <3>1, BlockedKeeps
    <3>3. Pieces(Less(q, n)) = Append(Pieces(fd_to_sendq[fd]), [msg |-> msg, left |-> MsgLen - n])
      <4> DEFINE r == [msg |-> msg, left |-> MsgLen - n]
                 l == Pieces(Less(q, n))
      <4>1. /\ Less(q, n) \in Seq(sm_sendq) /\ Len(Less(q, n)) = 1
            /\ Piece(Less(q, n)[1]) = [Piece(q[1]) EXCEPT !.left = @ - n]
        BY Zenon, <2>3, <3>1, LessOf
      <4>2. [Piece(q[1]) EXCEPT !.left = @ - n] = r
        BY <1>1, <2>3 DEF p
      <4>3. l \in Seq(Owed) /\ Len(l) = 1 /\ l[1] = r
        BY <4>1, <4>2, PiecesOf
      <4>4. r \in Owed
        BY Zenon, <3>1 DEF Owed
      <4>5. Pieces(fd_to_sendq[fd]) = <<>>
        BY <1>5 DEF Pieces
      <4> HIDE DEF r, l
      <4>6. /\ Append(<<>>, r) \in Seq(Owed) /\ Len(Append(<<>>, r)) = 1
            /\ Append(<<>>, r)[1] = r
        BY <4>4
      <4>7. l = Append(<<>>, r)
        BY <4>3, <4>6, SeqEqual
      <4> QED BY Zenon, <4>5, <4>7 DEF r, l
    <3>4. tmp_recv_fds' \subseteq tmp_recv_fds
      BY Zenon, <3>1 DEF Blocked
    <3>5. Connections' /\ Reports'
      BY Zenon, <1>3, <2>6, <2>7, <3>2, <3>3, <3>4
    <3> QED BY Zenon, <1>2, <3>1, <3>2, <3>5
  <2> QED BY Zenon, <2>8, <2>9
<1> QED BY Zenon, <1>4, <1>5

\* The head of a queue was sent: its cause is read again unless another blocked
\* send has the same cause.
LEMMA SentKeeps ==
  ASSUME Descriptors, NEW fd \in send_fds, Dequeued(fd), UNCHANGED <<all_fds, server_fds, orphans>>
  PROVE  /\ Descriptors' /\ fd_to_sendq'[fd] = Tail(fd_to_sendq[fd])
         /\ \A f \in Fds \ {fd} : fd_to_sendq'[f] = fd_to_sendq[f]
<1> DEFINE q == fd_to_sendq[fd]
           h == Head(q).recv_fd
<1>1. /\ fd \in all_fds /\ fd \in Fds /\ fd \notin orphans /\ q # <<>> /\ q \in Seq(sm_sendq)
      /\ fd_to_sendq \in [Fds -> Seq(sm_sendq)]
  BY Zenon DEF Descriptors, BlockedSends
<1>2. Tail(q) \in Seq(sm_sendq) /\ Len(Tail(q)) = Len(q) - 1 /\ Len(q) \in Nat
      /\ Causes(q) = Causes(Tail(q)) \cup {h}
  BY <1>1, PiecesTail, CausesOf
<1>3. Tail(q) = <<>> <=> Len(q) = 1
  <2>1. Tail(q) = <<>> <=> Len(Tail(q)) = 0
    BY Zenon, <1>2, EmptySeq
  <2> QED BY <1>2, <2>1
<1>4. /\ fd_to_sendq' = [fd_to_sendq EXCEPT ![fd] = Tail(q)]
      /\ recv_fds' = recv_fds \cup ((all_fds \cap {h}) \ AllCauses(fd_to_sendq'))
      /\ send_fds' = IF Len(q) = 1 THEN send_fds \ {fd} ELSE send_fds
  BY Zenon DEF Dequeued, Enabled
<1> HIDE DEF q, h
<1>5. /\ fd_to_sendq' \in [Fds -> Seq(sm_sendq)] /\ fd_to_sendq'[fd] = Tail(q)
      /\ \A f \in Fds \ {fd} : fd_to_sendq'[f] = fd_to_sendq[f]
  BY Zenon, <1>1, <1>2, <1>4
<1>6. AllCauses(fd_to_sendq) = AllCauses(fd_to_sendq') \cup {h}
  <2>1. ASSUME NEW x
        PROVE  x \in AllCauses(fd_to_sendq) <=> x \in AllCauses(fd_to_sendq') \/ x = h
    <3>1. /\ x \in AllCauses(fd_to_sendq')
               <=> x \in Causes(Tail(q)) \/ \E f \in Fds \ {fd} : x \in Causes(fd_to_sendq[f])
          /\ x \in AllCauses(fd_to_sendq)
               <=> x \in Causes(q) \/ \E f \in Fds \ {fd} : x \in Causes(fd_to_sendq[f])
      BY Zenon, <1>1, <1>2, <1>4, CausesUpdated DEF q
    <3> QED BY Zenon, <1>2, <3>1
  <2> QED BY Zenon, <2>1
<1>7. BlockedSends'
  <2>1. send_fds = {f \in Fds : fd_to_sendq[f] # <<>>} \ orphans
    BY Zenon DEF Descriptors, BlockedSends
  <2> QED BY Zenon, <1>1, <1>3, <1>4, <1>5, <2>1 DEF BlockedSends
<1>8. CausesOpen'
  <2>1. AllCauses(fd_to_sendq') \subseteq all_fds \cup {0}
    BY Zenon, <1>6 DEF Descriptors, CausesOpen
  <2>2. \A f \in orphans : fd_to_sendq'[f] # <<>>
    BY Zenon, <1>1, <1>5 DEF Descriptors, CausesOpen
  <2> QED BY Zenon, <2>1, <2>2 DEF CausesOpen
<1>9. RecvSuspended'
  BY Zenon, <1>4, <1>6 DEF Descriptors, RecvSuspended
<1>10. server_fds' \cup send_fds' \cup recv_fds' \subseteq all_fds'
  BY Zenon, <1>4 DEF Descriptors
<1>11. Descriptors'
  BY Zenon, <1>5, <1>7, <1>8, <1>9, <1>10 DEF Descriptors
<1> QED BY Zenon, <1>5, <1>11 DEF q

\* A part of the head was sent.
LEMMA DeferredKeeps ==
  ASSUME Descriptors, NEW fd \in send_fds, NEW n \in 0..(Head(fd_to_sendq[fd]).left - 1),
         Deferred(fd, n), UNCHANGED <<all_fds, server_fds, orphans>>
  PROVE  /\ Descriptors' /\ fd_to_sendq'[fd] = Less(fd_to_sendq[fd], n)
         /\ \A f \in Fds \ {fd} : fd_to_sendq'[f] = fd_to_sendq[f]
<1> DEFINE q == fd_to_sendq[fd]
           r == Less(q, n)
<1>1. /\ fd \in Fds /\ q # <<>> /\ q \in Seq(sm_sendq) /\ fd_to_sendq \in [Fds -> Seq(sm_sendq)]
  BY Zenon DEF Descriptors, BlockedSends
<1>2. r \in Seq(sm_sendq) /\ r # <<>> /\ Causes(r) = Causes(q)
  <2>1. r \in Seq(sm_sendq) /\ Len(r) = Len(q)
    BY Zenon, <1>1, LessOf
  <2>2. Causes(r) = Causes(q)
    BY Zenon, <1>1, CausesOf
  <2>3. r # <<>>
    BY Zenon, <1>1, <2>1, EmptySeq
  <2> QED BY Zenon, <2>1, <2>2, <2>3
<1>3. fd_to_sendq' = [fd_to_sendq EXCEPT ![fd] = r] /\ UNCHANGED <<send_fds, recv_fds>>
  BY Zenon DEF Deferred
<1> HIDE DEF r
<1>4. /\ fd_to_sendq' \in [Fds -> Seq(sm_sendq)] /\ fd_to_sendq'[fd] = r
      /\ \A f \in Fds \ {fd} : fd_to_sendq'[f] = fd_to_sendq[f]
  BY Zenon, <1>1, <1>2, <1>3
<1> HIDE DEF q
<1>5. AllCauses(fd_to_sendq') = AllCauses(fd_to_sendq)
  <2>1. ASSUME NEW x
        PROVE  x \in AllCauses(fd_to_sendq) <=> x \in AllCauses(fd_to_sendq')
    <3>1. /\ x \in AllCauses(fd_to_sendq')
               <=> x \in Causes(r) \/ \E f \in Fds \ {fd} : x \in Causes(fd_to_sendq[f])
          /\ x \in AllCauses(fd_to_sendq)
               <=> x \in Causes(q) \/ \E f \in Fds \ {fd} : x \in Causes(fd_to_sendq[f])
      BY Zenon, <1>1, <1>2, <1>3, CausesUpdated DEF q
    <3> QED BY Zenon, <1>2, <3>1
  <2> QED BY Zenon, <2>1
<1>6. BlockedSends'
  <2>1. send_fds = {f \in Fds : fd_to_sendq[f] # <<>>} \ orphans
    BY Zenon DEF Descriptors, BlockedSends
  <2> QED BY Zenon, <1>1, <1>2, <1>3, <1>4, <2>1 DEF BlockedSends, q
<1>7. CausesOpen'
  BY Zenon, <1>1, <1>2, <1>4, <1>5 DEF Descriptors, CausesOpen
<1>8. RecvSuspended'
  BY Zenon, <1>3, <1>5 DEF Descriptors, RecvSuspended
<1>9. Descriptors'
  BY Zenon, <1>3, <1>4, <1>6, <1>7, <1>8 DEF Descriptors
<1> QED BY Zenon, <1>4, <1>9 DEF q, r

\* The loop goes on after a queue.
LEMMA ThenPlace ==
  ASSUME pc \in Places, Then
  PROVE  pc' \in Places /\ pc'.fd = pc.fd /\ pc'.at \in {"recv", "loop"}
BY Zenon DEF Places, Then, At

\* One turn of sm_resend that sends.
LEMMA ResendKeeps ==
  ASSUME SocketsInv, pc.at = "resend", fd_to_sendq[pc.fd] # <<>>,
         NEW n \in 0..Head(fd_to_sendq[pc.fd]).left, NEW u \in 0..BufCap,
         net' = [net EXCEPT ![pc.fd] =
                   Took(pc.fd, net[pc.fd].owed, Head(fd_to_sendq[pc.fd]).msg, n, u)],
         IF n = Head(fd_to_sendq[pc.fd]).left THEN Dequeued(pc.fd) ELSE Deferred(pc.fd, n),
         UNCHANGED <<all_fds, server_fds, tmp, orphans>>
  PROVE  Descriptors' /\ Connections' /\ Reports' /\ Position'
<1> DEFINE fd == pc.fd
           q == fd_to_sendq[fd]
           c == Took(fd, Pieces(q), Head(q).msg, n, u)
<1>0. Descriptors /\ Connections /\ Reports /\ Position
  BY Zenon, Parts
<1>1. /\ fd \in send_fds /\ fd \in all_fds /\ fd \in Fds /\ fd \notin orphans
      /\ q \in Seq(sm_sendq) /\ q # <<>> /\ net \in [Fds -> Connection]
      /\ all_fds \subseteq Fds /\ pc \in Places
  BY Zenon, <1>0 DEF Position, Underway, Descriptors, BlockedSends, Connections
<1>2. net[fd].owed = Pieces(q) /\ ~net[fd].garbled
  BY Zenon, <1>0, <1>1 DEF Connections, StreamsInOrder
<1>3. net' = [net EXCEPT ![fd] = c]
  BY Zenon, <1>2
<1>4. /\ c \in Connection /\ c.owed = Pieces(Less(q, n)) /\ c.garbled = net[fd].garbled
      /\ c.fresh = net[fd].fresh
  BY <1>1, TookFields
<1>5. Head(q).left \in Nat
  <2>1. Head(q) \in sm_sendq
    BY Zenon, <1>1, PiecesTail
  <2> QED BY <2>1, SocketAssumption DEF sm_sendq
<1>6. /\ Descriptors' /\ fd_to_sendq'[fd] = Less(q, n)
      /\ \A f \in Fds \ {fd} : fd_to_sendq'[f] = fd_to_sendq[f]
  <2>1. CASE n = Head(q).left
    <3>1. Dequeued(fd) /\ Less(q, n) = Tail(q)
      BY Zenon, <2>1 DEF Less
    <3> QED BY Zenon, <1>0, <1>1, <3>1, SentKeeps
  <2>2. CASE n # Head(q).left
    <3>1. Deferred(fd, n) /\ n \in 0..(Head(q).left - 1)
      BY <1>5, <2>2
    <3> QED BY Zenon, <1>0, <1>1, <3>1, DeferredKeeps
  <2> QED BY Zenon, <2>1, <2>2
<1>7. /\ send_fds \ {fd} \subseteq send_fds'
      /\ \/ Then
         \/ pc' = pc /\ send_fds' = send_fds
  BY Zenon DEF Dequeued, Deferred
<1> HIDE DEF c, q
<1>8. net' \in [Fds -> Connection] /\ net'[fd] = c /\ \A f \in Fds \ {fd} : net'[f] = net[f]
  BY <1>1, <1>3, <1>4
<1>9. Connections'
  <2>1. ASSUME NEW f \in all_fds
        PROVE  /\ ~net'[f].garbled
               /\ f \notin orphans => net'[f].owed = Pieces(fd_to_sendq'[f])
    <3>1. CASE f = fd
      BY Zenon, <1>2, <1>4, <1>6, <1>8, <3>1
    <3>2. CASE f # fd
      BY Zenon, <1>0, <1>1, <1>6, <1>8, <3>2 DEF Connections, StreamsInOrder
    <3> QED BY Zenon, <3>1, <3>2
  <2> QED BY Zenon, <1>8, <2>1 DEF Connections, StreamsInOrder
<1>10. Reports'
  <2>1. \A f \in all_fds : net'[f].fresh = net[f].fresh
    BY Zenon, <1>1, <1>4, <1>8
  <2> QED BY Zenon, <1>0, <2>1 DEF tmp, Reports, ReportsAreCurrent
<1>11. Position'
  <2>1. \A f \in tmp_send_fds : f > fd => f \in send_fds /\ f # fd
    <3>1. fd \in Nat /\ tmp_send_fds \subseteq Nat
      BY Zenon, <1>0, <1>1, SocketAssumption DEF Reports
    <3>2. \A f \in tmp_send_fds : f > fd => f \in send_fds
      BY Zenon, <1>0 DEF Position, Underway
    <3> QED BY <3>1, <3>2
  <2>2. CASE Then
    <3>1. pc' \in Places /\ pc'.fd = fd /\ pc'.at \in {"recv", "loop"}
      BY Zenon, <1>1, <2>2, ThenPlace
    <3>2. \A f \in tmp_send_fds : f > fd => f \in send_fds'
      BY Zenon, <1>7, <2>1
    <3> QED BY Zenon, <1>1, <3>1, <3>2 DEF Position, Underway, tmp
  <2>3. CASE pc' = pc /\ send_fds' = send_fds
    BY Zenon, <1>0, <2>3 DEF Position, Underway, tmp
  <2> QED BY Zenon, <1>7, <2>2, <2>3
<1> QED BY Zenon, <1>6, <1>9, <1>10, <1>11

-----------------------------------------------------------------------------
(* The steps of the loop.                                                  *)

\* Where the loop is after a step that drops descriptors from tmp_send_fds
\* together with send_fds, or adds to send_fds.
LEMMA PositionKeeps ==
  ASSUME Position, Reports, all_fds \subseteq Fds, NEW p \in Places, pc' = p,
         pc.at \in {"loop", "accept", "resend", "recv"},
         p.at \in {"loop", "accept", "recv"}, p.fd \in Fds, pc.fd <= p.fd,
         tmp_send_fds' \subseteq tmp_send_fds,
         \A f \in tmp_send_fds' : f \in send_fds => f \in send_fds'
  PROVE  Position'
<1>1. \A f \in tmp_send_fds : f > pc.fd => f \in send_fds
  BY Zenon DEF Position, Underway
<1>2. tmp_send_fds \subseteq Nat /\ pc.fd \in Nat /\ p.fd \in Nat
  <2>1. tmp_send_fds \subseteq Fds /\ pc.fd \in Fds \cup {0}
    BY Zenon DEF Reports, Position, Places
  <2> QED BY Zenon, <2>1, FdsAreNumbers
<1>3. \A f \in tmp_send_fds' : f > p.fd => f \in send_fds'
  BY <1>1, <1>2
<1> QED BY Zenon, <1>3 DEF Position, Underway

\* The position of a step that stays in the loop.
LEMMA AtPlace ==
  ASSUME NEW fd \in Fds \cup {0}, NEW at \in {"idle", "loop", "accept", "recv", "done"}, At(at, fd)
  PROVE  pc' \in Places /\ pc'.at = at /\ pc'.fd = fd
BY Zenon DEF At, Places

\* A descriptor is closed, and others with it.
LEMMA CloseKeeps ==
  ASSUME SocketsInv, NEW fd \in Fds, Close(fd), NEW p \in Places, pc' = p,
         pc.at \in {"loop", "accept", "resend", "recv"},
         p.at \in {"loop", "recv"}, p.fd \in Fds, pc.fd <= p.fd
  PROVE  Descriptors' /\ Connections' /\ Reports' /\ Position'
<1>0. Descriptors /\ Connections /\ Reports /\ Position
  BY Zenon, Parts
<1>1. PICK others \in SUBSET (all_fds \ {Server}) : sm_remove_fd({fd} \cup others)
  BY Zenon DEF Close
<1>2. {fd} \cup others \in SUBSET Fds /\ all_fds \subseteq Fds
  BY Zenon, <1>0 DEF Descriptors
<1>3. Descriptors'
  BY Zenon, <1>0, <1>1, <1>2, RemoveKeepsDescriptors
<1>4. Connections'
  BY Zenon, <1>0, <1>1, <1>2, RemoveKeepsConnections
<1>5. Reports' /\ tmp_send_fds' = tmp_send_fds \ ({fd} \cup others)
      /\ send_fds' = send_fds \ ({fd} \cup others)
  BY Zenon, <1>0, <1>1, <1>2, RemoveKeepsReports
<1>6. Position'
  BY Zenon, <1>0, <1>2, <1>5, PositionKeeps
<1> QED BY Zenon, <1>3, <1>4, <1>5, <1>6

\* Nothing but the position changes.
LEMMA OnlyPosition ==
  ASSUME SocketsInv, UNCHANGED <<sets, tmp, fd_to_sendq, orphans, net>>
  PROVE  Descriptors' /\ Connections' /\ Reports'
<1>0. Descriptors /\ Connections /\ Reports
  BY Zenon, Parts
<1>1. Descriptors'
  BY Zenon, <1>0 DEF sets, Descriptors, BlockedSends, CausesOpen, RecvSuspended
<1>2. Connections'
  BY Zenon, <1>0 DEF sets, Connections, StreamsInOrder
<1>3. Reports'
  BY Zenon, <1>0 DEF sets, tmp, Reports, ReportsAreCurrent
<1> QED BY Zenon, <1>1, <1>2, <1>3

LEMMA SelectStep ==
  ASSUME SocketsInv, sm_select
  PROVE  SocketsInv'
<1>0. Descriptors /\ Connections /\ Reports /\ Position /\ Counters
  BY Zenon, Parts
<1>1. /\ UNCHANGED <<sets, fd_to_sendq, orphans, backlog, conns, inputs>>
      /\ tmp_send_fds' \subseteq send_fds /\ tmp_recv_fds' \subseteq recv_fds
      /\ tmp_fail_fds' \subseteq all_fds /\ At("loop", 0)
      /\ net' = [f \in Fds |-> [net[f] EXCEPT !.fresh = FALSE]]
  BY Zenon DEF sm_select
<1>2. Descriptors'
  BY Zenon, <1>0, <1>1 DEF sets, Descriptors, BlockedSends, CausesOpen, RecvSuspended
<1>3. \A c \in Connection :
        /\ [c EXCEPT !.fresh = FALSE] \in Connection /\ ~[c EXCEPT !.fresh = FALSE].fresh
        /\ [c EXCEPT !.fresh = FALSE].owed = c.owed /\ [c EXCEPT !.fresh = FALSE].garbled = c.garbled
  BY Zenon DEF Connection
<1>4. /\ net' \in [Fds -> Connection]
      /\ \A f \in Fds : /\ ~net'[f].fresh /\ net'[f].owed = net[f].owed
                        /\ net'[f].garbled = net[f].garbled
  BY Zenon, <1>0, <1>1, <1>3 DEF Connections
<1>5. Connections'
  BY Zenon, <1>0, <1>1, <1>4 DEF sets, Connections, StreamsInOrder, Descriptors
<1>6. Reports'
  BY Zenon, <1>0, <1>1, <1>4 DEF sets, Reports, ReportsAreCurrent, Descriptors
<1>7. Position'
  <2>1. pc' \in Places /\ pc'.at = "loop"
    BY Zenon, <1>1, AtPlace
  <2>2. \A f \in tmp_send_fds' : f \in send_fds'
    BY Zenon, <1>1 DEF sets
  <2> QED BY Zenon, <2>1, <2>2 DEF Position, Underway
<1>8. Counters'
  BY Zenon, <1>0, <1>1 DEF Counters
<1> QED BY Zenon, <1>2, <1>5, <1>6, <1>7, <1>8, PartsKept

LEMMA DispatchStep ==
  ASSUME SocketsInv, Dispatch
  PROVE  SocketsInv'
<1>0. Descriptors /\ Connections /\ Reports /\ Position /\ Counters
  BY Zenon, Parts
<1>1. PICK fd \in Reported :
        \/ fd \in tmp_fail_fds /\ Close(fd) /\ At("loop", fd)
        \/ /\ \/ At("accept", fd) \/ At("recv", fd)
              \/ /\ fd \in tmp_send_fds
                 /\ pc' = [at |-> "resend", fd |-> fd, can_recv |-> fd \in tmp_recv_fds]
           /\ UNCHANGED <<sets, tmp, fd_to_sendq, orphans, net>>
  BY Zenon DEF Dispatch
<1>2. /\ pc.at = "loop" /\ fd \in Fds /\ fd > pc.fd /\ fd \in Nat /\ pc.fd \in Nat /\ pc.fd <= fd
      /\ all_fds \subseteq Fds /\ tmp_send_fds \subseteq Nat
  <2>1. pc.at = "loop" /\ fd \in Fds /\ fd > pc.fd /\ all_fds \subseteq Fds
    BY Zenon, <1>0 DEF Dispatch, Reported, Reports, Descriptors
  <2>2. pc.fd \in Fds \cup {0}
    BY Zenon, <1>0 DEF Position, Places
  <2>3. tmp_send_fds \subseteq Fds
    BY Zenon, <1>0 DEF Reports, Descriptors
  <2> QED BY <2>1, <2>2, <2>3, FdsAreNumbers
<1>3. Counters'
  BY Zenon, <1>0 DEF Dispatch, Counters
<1>4. CASE fd \in tmp_fail_fds /\ Close(fd) /\ At("loop", fd)
  <2>1. pc' \in Places /\ pc'.at = "loop" /\ pc'.fd = fd
    BY Zenon, <1>2, <1>4, AtPlace
  <2>2. Descriptors' /\ Connections' /\ Reports' /\ Position'
    BY Zenon, <1>2, <1>4, <2>1, CloseKeeps
  <2> QED BY Zenon, <1>3, <2>2, PartsKept
<1>5. CASE UNCHANGED <<sets, tmp, fd_to_sendq, orphans, net>> /\ (At("accept", fd) \/ At("recv", fd))
  <2>1. Descriptors' /\ Connections' /\ Reports'
    BY Zenon, <1>5, OnlyPosition
  <2>2. pc' \in Places /\ pc'.at \in {"accept", "recv"} /\ pc'.fd = fd
    BY Zenon, <1>2, <1>5, AtPlace
  <2>3. tmp_send_fds' = tmp_send_fds /\ send_fds' = send_fds
    BY Zenon, <1>5 DEF sets, tmp
  <2>4. Position'
    BY Zenon, <1>0, <1>2, <2>2, <2>3, PositionKeeps
  <2> QED BY Zenon, <1>3, <2>1, <2>4, PartsKept
<1>6. CASE /\ UNCHANGED <<sets, tmp, fd_to_sendq, orphans, net>> /\ fd \in tmp_send_fds
           /\ pc' = [at |-> "resend", fd |-> fd, can_recv |-> fd \in tmp_recv_fds]
  <2>1. Descriptors' /\ Connections' /\ Reports'
    BY Zenon, <1>6, OnlyPosition
  <2>2. pc' \in Places /\ pc'.at = "resend" /\ pc'.fd = fd
    BY <1>2, <1>6 DEF Places
  <2>3. tmp_send_fds' = tmp_send_fds /\ send_fds' = send_fds
    BY Zenon, <1>6 DEF sets, tmp
  <2>4. \A f \in tmp_send_fds : f > pc.fd => f \in send_fds
    BY Zenon, <1>0, <1>2 DEF Position, Underway
  <2>5. fd \in send_fds' /\ \A f \in tmp_send_fds' : f > fd => f \in send_fds'
    BY <1>2, <1>6, <2>3, <2>4
  <2>6. Position'
    BY Zenon, <2>2, <2>5 DEF Position, Underway
  <2> QED BY Zenon, <1>3, <2>1, <2>6, PartsKept
<1> QED BY Zenon, <1>1, <1>4, <1>5, <1>6

\* Nothing changes but what the kernel holds of the connections.
LEMMA OnlyKernel ==
  ASSUME SocketsInv, UNCHANGED <<sets, tmp, fd_to_sendq, orphans, pc>>,
         net' \in [Fds -> Connection],
         \A f \in Fds : /\ net'[f].owed = net[f].owed /\ net'[f].garbled = net[f].garbled
                        /\ net'[f].fresh = net[f].fresh
  PROVE  Descriptors' /\ Connections' /\ Reports' /\ Position'
<1>0. Descriptors /\ Connections /\ Reports /\ Position /\ all_fds \subseteq Fds
  BY Zenon, Parts DEF Descriptors
<1>1. Descriptors'
  BY Zenon, <1>0 DEF sets, Descriptors, BlockedSends, CausesOpen, RecvSuspended
<1>2. Connections'
  BY Zenon, <1>0 DEF sets, Connections, StreamsInOrder
<1>3. Reports'
  BY Zenon, <1>0 DEF sets, tmp, Reports, ReportsAreCurrent
<1>4. Position'
  BY Zenon, <1>0 DEF sets, tmp, Position, Underway
<1> QED BY Zenon, <1>1, <1>2, <1>3, <1>4

LEMMA LoopEndsStep ==
  ASSUME SocketsInv, LoopEnds
  PROVE  SocketsInv'
<1>1. Descriptors' /\ Connections' /\ Reports'
  BY Zenon, OnlyPosition DEF LoopEnds
<1>2. pc' \in Places /\ pc'.at = "idle"
  BY Zenon, AtPlace DEF LoopEnds
<1>3. Position'
  BY Zenon, <1>2 DEF Position, Underway
<1>4. Counters'
  BY Zenon, Parts DEF LoopEnds, Counters
<1> QED BY Zenon, <1>1, <1>3, <1>4, PartsKept

LEMMA AcceptStep ==
  ASSUME SocketsInv, sm_accept
  PROVE  SocketsInv'
<1>0. Descriptors /\ Connections /\ Reports /\ Position /\ Counters
  BY Zenon, Parts
<1>1. /\ pc.at = "accept" /\ pc.fd \in Fds /\ pc.fd <= pc.fd /\ all_fds \subseteq Fds
      /\ pc \in Places
  <2>1. pc.at = "accept" /\ pc.fd \in Fds /\ all_fds \subseteq Fds /\ pc \in Places
    BY Zenon, <1>0 DEF sm_accept, Position, Underway, Descriptors
  <2>2. pc.fd \in Nat
    BY Zenon, <2>1, FdsAreNumbers
  <2> QED BY <2>1, <2>2
<1>2. Counters'
  <2>1. backlog \in Nat /\ conns \in Nat /\ backlog <= conns
    BY <1>0, SocketAssumption DEF Counters
  <2>2. /\ conns' = conns /\ inputs' = inputs
        /\ backlog' = backlog \/ (backlog > 0 /\ backlog' = backlog - 1)
    BY Zenon DEF sm_accept
  <2>3. backlog' \in 0..conns
    BY <2>1, <2>2
  <2> QED BY Zenon, <1>0, <2>2, <2>3 DEF Counters
<1>3. CASE UNCHANGED pc /\ \E fd \in Fds \ {Server} : sm_add_fd(fd)
  <2>1. PICK fd \in Fds : sm_add_fd(fd)
    BY Zenon, <1>3
  <2>2. /\ Descriptors' /\ Connections' /\ Reports'
        /\ tmp_send_fds' = tmp_send_fds \ {fd} /\ send_fds' = send_fds
    BY Zenon, <1>0, <2>1, AddKeeps
  <2>3. Position'
    BY Zenon, <1>0, <1>1, <1>3, <2>2, PositionKeeps
  <2> QED BY Zenon, <1>2, <2>2, <2>3, PartsKept
<1>4. CASE UNCHANGED <<sets, tmp, fd_to_sendq, orphans, net, pc>>
  <2>1. Descriptors' /\ Connections' /\ Reports'
    BY Zenon, <1>4, OnlyPosition
  <2>2. Position'
    BY Zenon, <1>0, <1>4 DEF sets, tmp, Position, Underway
  <2> QED BY Zenon, <1>2, <2>1, <2>2, PartsKept
<1>5. CASE At("loop", pc.fd) /\ UNCHANGED <<sets, tmp, fd_to_sendq, orphans, net>>
  <2>1. Descriptors' /\ Connections' /\ Reports'
    BY Zenon, <1>5, OnlyPosition
  <2>2. pc' \in Places /\ pc'.at = "loop" /\ pc'.fd = pc.fd
    BY Zenon, <1>1, <1>5, AtPlace
  <2>3. tmp_send_fds' = tmp_send_fds /\ send_fds' = send_fds
    BY Zenon, <1>5 DEF sets, tmp
  <2>4. Position'
    BY Zenon, <1>0, <1>1, <2>2, <2>3, PositionKeeps
  <2> QED BY Zenon, <1>2, <2>1, <2>4, PartsKept
<1>6. CASE Close(pc.fd) /\ At("loop", pc.fd)
  <2>1. pc' \in Places /\ pc'.at = "loop" /\ pc'.fd = pc.fd
    BY Zenon, <1>1, <1>6, AtPlace
  <2>2. Descriptors' /\ Connections' /\ Reports' /\ Position'
    BY Zenon, <1>1, <1>6, <2>1, CloseKeeps
  <2> QED BY Zenon, <1>2, <2>2, PartsKept
<1> QED BY Zenon, <1>3, <1>4, <1>5, <1>6 DEF sm_accept

LEMMA ResendStep ==
  ASSUME SocketsInv, sm_resend
  PROVE  SocketsInv'
<1>0. Descriptors /\ Connections /\ Reports /\ Position /\ Counters
  BY Zenon, Parts
<1>1. Counters'
  BY Zenon, <1>0 DEF sm_resend, Counters
<1>2. CASE /\ net[pc.fd].state # "closed" /\ fd_to_sendq[pc.fd] # <<>>
           /\ LET head == Head(fd_to_sendq[pc.fd])
              IN  \E n \in 0..head.left, u \in 0..BufCap :
                    /\ SendTakes(pc.fd, head.left, n, u)
                    /\ net' = [net EXCEPT ![pc.fd] =
                                 Took(pc.fd, net[pc.fd].owed, head.msg, n, u)]
                    /\ IF n = head.left THEN Dequeued(pc.fd) ELSE Deferred(pc.fd, n)
           /\ UNCHANGED <<all_fds, server_fds, tmp, orphans>>
  <2>1. pc.at = "resend"
    BY Zenon DEF sm_resend
  <2>2. Descriptors' /\ Connections' /\ Reports' /\ Position'
    BY Zenon, <1>2, <2>1, ResendKeeps
  <2> QED BY Zenon, <1>1, <2>2, PartsKept
<1>3. CASE Close(pc.fd) /\ Then
  <2>1. /\ pc.at = "resend" /\ pc \in Places /\ pc.fd \in Fds
    BY Zenon, <1>0 DEF sm_resend, Position, Underway, Descriptors
  <2>2. pc.fd <= pc.fd
    BY <2>1, FdsAreNumbers
  <2>3. pc' \in Places /\ pc'.fd = pc.fd /\ pc'.at \in {"recv", "loop"}
    BY Zenon, <1>3, <2>1, ThenPlace
  <2>4. Descriptors' /\ Connections' /\ Reports' /\ Position'
    BY Zenon, <1>3, <2>1, <2>2, <2>3, CloseKeeps
  <2> QED BY Zenon, <1>1, <2>4, PartsKept
<1> QED BY Zenon, <1>2, <1>3 DEF sm_resend

LEMMA RecvStep ==
  ASSUME SocketsInv, sm_recv
  PROVE  SocketsInv'
<1>0. Descriptors /\ Connections /\ Reports /\ Position /\ Counters
  BY Zenon, Parts
<1>1. Counters'
  BY Zenon, <1>0 DEF sm_recv, Counters
<1>2. /\ pc.at = "recv" /\ pc.fd \in Fds /\ pc.fd <= pc.fd /\ all_fds \subseteq Fds
      /\ pc \in Places
  <2>1. pc.at = "recv" /\ pc.fd \in Fds /\ all_fds \subseteq Fds /\ pc \in Places
    BY Zenon, <1>0 DEF sm_recv, Position, Underway, Descriptors
  <2>2. pc.fd \in Nat
    BY Zenon, <2>1, FdsAreNumbers
  <2> QED BY <2>1, <2>2
<1>3. CASE Close(pc.fd) /\ At("loop", pc.fd)
  <2>1. pc' \in Places /\ pc'.at = "loop" /\ pc'.fd = pc.fd
    BY Zenon, <1>2, <1>3, AtPlace
  <2>2. Descriptors' /\ Connections' /\ Reports' /\ Position'
    BY Zenon, <1>2, <1>3, <2>1, CloseKeeps
  <2> QED BY Zenon, <1>1, <2>2, PartsKept
<1>4. CASE At("loop", pc.fd) /\ UNCHANGED <<sets, tmp, fd_to_sendq, orphans, net>>
  <2>1. Descriptors' /\ Connections' /\ Reports'
    BY Zenon, <1>4, OnlyPosition
  <2>2. pc' \in Places /\ pc'.at = "loop" /\ pc'.fd = pc.fd
    BY Zenon, <1>2, <1>4, AtPlace
  <2>3. tmp_send_fds' = tmp_send_fds /\ send_fds' = send_fds
    BY Zenon, <1>4 DEF sets, tmp
  <2>4. Position'
    BY Zenon, <1>0, <1>2, <2>2, <2>3, PositionKeeps
  <2> QED BY Zenon, <1>1, <2>1, <2>4, PartsKept
<1>5. ASSUME pc.fd \in all_fds, net[pc.fd].input # <<>>,
             NEW fd \in all_fds, sm_send(fd, Head(net[pc.fd].input), pc.fd), UNCHANGED pc
      PROVE  SocketsInv'
  <2>1. Head(net[pc.fd].input) \in Messages
    <3>1. net[pc.fd].input \in Seq(Messages)
      BY Zenon, <1>0, <1>2 DEF Connections, Connection
    <3> QED BY <1>5, <3>1
  <2>2. /\ Descriptors' /\ Connections' /\ Reports'
        /\ tmp_send_fds' = tmp_send_fds /\ send_fds \subseteq send_fds'
    BY Zenon, <1>0, <1>5, <2>1, SendKeeps
  <2>3. Position'
    BY Zenon, <1>0, <1>2, <1>5, <2>2, PositionKeeps
  <2> QED BY Zenon, <1>1, <2>2, <2>3, PartsKept
<1>6. ASSUME net[pc.fd].input # <<>>, net' = [net EXCEPT ![pc.fd].input = Tail(@)],
             UNCHANGED <<sets, tmp, fd_to_sendq, orphans, pc>>
      PROVE  SocketsInv'
  <2> DEFINE c == [net[pc.fd] EXCEPT !.input = Tail(net[pc.fd].input)]
  <2>1. net \in [Fds -> Connection] /\ net[pc.fd] \in Connection
    BY Zenon, <1>0, <1>2 DEF Connections
  <2>2. Tail(net[pc.fd].input) \in Seq(Messages)
    BY <1>6, <2>1 DEF Connection
  <2>3. c \in Connection /\ c.owed = net[pc.fd].owed /\ c.garbled = net[pc.fd].garbled
        /\ c.fresh = net[pc.fd].fresh
    BY Zenon, <2>1, <2>2 DEF Connection
  <2>4. net' = [net EXCEPT ![pc.fd] = c]
    BY Zenon, <1>6
  <2> HIDE DEF c
  <2>5. /\ net' \in [Fds -> Connection]
        /\ \A f \in Fds : /\ net'[f].owed = net[f].owed /\ net'[f].garbled = net[f].garbled
                          /\ net'[f].fresh = net[f].fresh
    BY Zenon, <1>2, <2>1, <2>3, <2>4
  <2>6. Descriptors' /\ Connections' /\ Reports' /\ Position'
    BY Zenon, <1>6, <2>5, OnlyKernel
  <2> QED BY Zenon, <1>1, <2>6, PartsKept
<1> QED BY Zenon, <1>3, <1>4, <1>5, <1>6 DEF sm_recv, Received

LEMMA CleanupStep ==
  ASSUME SocketsInv, sm_cleanup
  PROVE  SocketsInv'
<1>0. Descriptors /\ Connections /\ Reports /\ Counters /\ all_fds \in SUBSET Fds
      /\ sm_remove_fd(all_fds)
  BY Zenon, Parts DEF Descriptors, sm_cleanup
<1>1. Descriptors' /\ Connections' /\ Reports'
  BY Zenon, <1>0, RemoveKeepsDescriptors, RemoveKeepsConnections, RemoveKeepsReports
<1>2. pc' \in Places /\ pc'.at = "done"
  BY Zenon, AtPlace DEF sm_cleanup
<1>3. Position'
  BY Zenon, <1>2 DEF Position, Underway
<1>4. Counters'
  BY Zenon, <1>0 DEF sm_cleanup, Counters
<1> QED BY Zenon, <1>1, <1>3, <1>4, PartsKept

-----------------------------------------------------------------------------
(* The steps of the peers.                                                 *)

LEMMA ConnectsStep ==
  ASSUME SocketsInv, PeerConnects
  PROVE  SocketsInv'
<1>1. Descriptors' /\ Connections' /\ Reports'
  BY Zenon, OnlyPosition DEF PeerConnects
<1>2. Position'
  BY Zenon, Parts DEF PeerConnects, sets, tmp, Position, Underway
<1>3. Counters'
  BY Parts, SocketAssumption DEF PeerConnects, Counters
<1> QED BY Zenon, <1>1, <1>2, <1>3, PartsKept

LEMMA PeerStep ==
  ASSUME SocketsInv, PeerSends \/ PeerEnds \/ \E f \in Fds : PeerReads(f)
  PROVE  SocketsInv'
<1>0. Connections /\ Counters /\ Peers \subseteq Fds /\ net \in [Fds -> Connection]
  BY Zenon, Parts DEF Connections, Peers, Descriptors
<1>1. UNCHANGED <<sets, tmp, fd_to_sendq, orphans, pc>>
  BY Zenon DEF PeerSends, PeerEnds, PeerReads
<1>2. Counters'
  BY <1>0, SocketAssumption DEF PeerSends, PeerEnds, PeerReads, Counters
<1>3. ASSUME NEW f \in Fds, NEW c \in Connection, net' = [net EXCEPT ![f] = c],
             c.owed = net[f].owed, c.garbled = net[f].garbled, c.fresh = net[f].fresh
      PROVE  SocketsInv'
  <2>1. /\ net' \in [Fds -> Connection]
        /\ \A g \in Fds : /\ net'[g].owed = net[g].owed /\ net'[g].garbled = net[g].garbled
                          /\ net'[g].fresh = net[g].fresh
    BY Zenon, <1>0, <1>3
  <2>2. Descriptors' /\ Connections' /\ Reports' /\ Position'
    BY Zenon, <1>1, <2>1, OnlyKernel
  <2> QED BY Zenon, <1>2, <2>2, PartsKept
<1>4. CASE PeerSends
  <2>1. PICK f \in Peers : net' = [net EXCEPT ![f].input = Append(@, inputs + 1)]
    BY Zenon, <1>4 DEF PeerSends
  <2> DEFINE i == Append(net[f].input, inputs + 1)
             c == [net[f] EXCEPT !.input = i]
  <2>2. f \in Fds /\ net[f] \in Connection /\ net[f].input \in Seq(Messages)
    BY Zenon, <1>0 DEF Connection
  <2>3. inputs + 1 \in Messages
    BY <1>0, <1>4, SocketAssumption DEF PeerSends, Counters, Messages
  <2>4. i \in Seq(Messages)
    BY Zenon, <2>2, <2>3, AppendProperties
  <2>5. net' = [net EXCEPT ![f] = c]
    BY Zenon, <2>1
  <2> HIDE DEF i
  <2>6. /\ c \in Connection /\ c.owed = net[f].owed /\ c.garbled = net[f].garbled
        /\ c.fresh = net[f].fresh
    BY Zenon, <2>2, <2>4 DEF Connection
  <2> HIDE DEF c
  <2> QED BY Zenon, <1>3, <2>2, <2>5, <2>6
<1>5. CASE PeerEnds
  <2>1. PICK f \in Peers, state \in {"closed", "failed"} : net' = [net EXCEPT ![f].state = state]
    BY Zenon, <1>5 DEF PeerEnds
  <2> DEFINE c == [net[f] EXCEPT !.state = state]
  <2>2. f \in Fds /\ net[f] \in Connection
    BY Zenon, <1>0
  <2>3. net' = [net EXCEPT ![f] = c]
    BY Zenon, <2>1
  <2>4. /\ c \in Connection /\ c.owed = net[f].owed /\ c.garbled = net[f].garbled
        /\ c.fresh = net[f].fresh
    BY Zenon, <2>2 DEF Connection
  <2> HIDE DEF c
  <2> QED BY Zenon, <1>3, <2>2, <2>3, <2>4
<1>6. ASSUME NEW f \in Fds, PeerReads(f) PROVE SocketsInv'
  <2> DEFINE c == [net[f] EXCEPT !.unread = net[f].unread - 1]
  <2>1. net[f] \in Connection /\ net[f].unread \in 0..BufCap /\ net[f].unread > 0
    BY Zenon, <1>0, <1>6 DEF PeerReads, Connection
  <2>2. net[f].unread - 1 \in 0..BufCap
    BY <2>1, SocketAssumption
  <2>3. net' = [net EXCEPT ![f] = c]
    BY Zenon, <1>6 DEF PeerReads
  <2>4. /\ c \in Connection /\ c.owed = net[f].owed /\ c.garbled = net[f].garbled
        /\ c.fresh = net[f].fresh
    BY Zenon, <2>1, <2>2 DEF Connection
  <2> HIDE DEF c
  <2> QED BY Zenon, <1>3, <2>3, <2>4
<1> QED BY Zenon, <1>4, <1>5, <1>6

-----------------------------------------------------------------------------
LEMMA InitKept ==
  ASSUME Init
  PROVE  SocketsInv
<1>1. /\ Server \in Fds /\ fd_to_sendq \in [Fds -> Seq(sm_sendq)]
      /\ \A f \in Fds : fd_to_sendq[f] = <<>>
  BY SocketAssumption DEF Init
<1>2. AllCauses(fd_to_sendq) = {}
  <2>1. Causes(<<>>) = {}
    BY DEF Causes
  <2> QED BY Zenon, <1>1, <2>1 DEF AllCauses
<1>3. BlockedSends /\ CausesOpen /\ RecvSuspended
  BY Zenon, <1>1, <1>2 DEF Init, BlockedSends, CausesOpen, RecvSuspended
<1>4. Descriptors
  BY Zenon, <1>1, <1>3 DEF Init, Descriptors
<1>5. Connections
  <2>1. net \in [Fds -> Connection] /\ \A f \in Fds : net[f] = NewConnection
    BY Zenon, NewConnectionType DEF Init
  <2>2. Pieces(<<>>) = <<>> /\ NewConnection.owed = <<>> /\ ~NewConnection.garbled
    BY DEF Pieces, NewConnection
  <2> QED BY Zenon, <1>1, <2>1, <2>2 DEF Init, Connections, StreamsInOrder
<1>6. Reports
  BY Zenon DEF Init, Reports, ReportsAreCurrent
<1>7. Position
  BY Zenon DEF Init, Position, Underway, Places
<1>8. Counters
  BY SocketAssumption DEF Init, Counters
<1> QED BY Zenon, <1>4, <1>5, <1>6, <1>7, <1>8, Parts

LEMMA StepKept ==
  ASSUME SocketsInv, [Next]_vars
  PROVE  SocketsInv'
<1>1. CASE Next
  BY Zenon, <1>1, SelectStep, DispatchStep, LoopEndsStep, AcceptStep, ResendStep, RecvStep,
     CleanupStep, ConnectsStep, PeerStep DEF Next, Loop
<1>2. CASE UNCHANGED vars
  <2>1. UNCHANGED <<sets, tmp, fd_to_sendq, orphans, net, pc>> /\ UNCHANGED <<conns, backlog, inputs>>
    BY Zenon, <1>2 DEF vars
  <2>2. Descriptors' /\ Connections' /\ Reports'
    BY Zenon, <2>1, OnlyPosition
  <2>3. Position' /\ Counters'
    BY Zenon, <2>1, Parts DEF sets, tmp, Position, Underway, Counters
  <2> QED BY Zenon, <2>2, <2>3, PartsKept
<1> QED BY Zenon, <1>1, <1>2

\* SocketsInv is an inductive invariant of the select loop, whatever the peers and
\* the callbacks of the proxy do.
THEOREM SocketsInvariance == Spec => []SocketsInv
<1>1. Init => SocketsInv
  BY Zenon, InitKept
<1>2. SocketsInv /\ [Next]_vars => SocketsInv'
  BY Zenon, StepKept
<1> QED BY <1>1, <1>2, PTL DEF Spec

\* The sets of descriptors agree with the queues: select waits for every send that
\* is blocked, but for what sm_remove_fd left behind, and sm_resend finds one.
THEOREM QueuesAreKept == Spec => []QueuesInv
<1>1. SocketsInv => QueuesInv
  BY Zenon DEF SocketsInv
<1> QED BY <1>1, SocketsInvariance, PTL

\* A descriptor is not read exactly while a send that it caused is blocked: the
\* comment "same as all_fds - sendq.recv_fd's" of struct sm_private.
THEOREM ReadingIsSuspended == Spec => []RecvSuspended
<1>1. SocketsInv => RecvSuspended
  BY Zenon DEF SocketsInv
<1> QED BY <1>1, SocketsInvariance, PTL

\* A peer receives what sm_send accepted for it, in order and without gaps, over
\* sends that are taken in part, queued, and sent again, and nothing of what was
\* meant for an earlier owner of its descriptor.
THEOREM StreamsAreInOrder == Spec => []StreamsInOrder
<1>1. SocketsInv => StreamsInOrder
  BY Zenon DEF SocketsInv
<1> QED BY <1>1, SocketsInvariance, PTL

\* What select reported is never taken for a report on a peer that was accepted
\* under the same number since.
THEOREM ReportsStayCurrent == Spec => []ReportsAreCurrent
<1>1. SocketsInv => ReportsAreCurrent
  BY Zenon DEF SocketsInv
<1> QED BY <1>1, SocketsInvariance, PTL
=============================================================================
