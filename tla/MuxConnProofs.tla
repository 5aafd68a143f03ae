--------------------------- MODULE MuxConnProofs ---------------------------
(***************************************************************************)
(* Proofs about one connection (MuxConn): IndInv is inductive, for every   *)
(* width of the counters, window, buffer size and amount of data.          *)
(***************************************************************************)
EXTENDS MuxConn, TLAPS

-----------------------------------------------------------------------------
(* Arithmetic of counters of fixed width: what a difference of two counters  *)
(* modulo M says about the unbounded quantities they stand for, and what     *)
(* dividing a window by its unit loses.                                      *)

\* Every integer is a multiple of M plus its remainder.
LEMMA DivMod ==
  ASSUME NEW M \in Nat \ {0}, NEW a \in Int
  PROVE  \E q \in Int, r \in 0..(M - 1) : a = M * q + r /\ a % M = r
BY SMT

\* A nonzero multiple of M is at least M away from zero.
LEMMA MultipleFar ==
  ASSUME NEW M \in Nat \ {0}, NEW d \in Int
  PROVE  /\ d >= 1 => M * d >= M
         /\ d <= -1 => M * d <= -M
BY SMT

\* Multiplication by M distributes.
LEMMA Distribute ==
  ASSUME NEW M \in Int, NEW p \in Int, NEW q \in Int
  PROVE  M * p - M * q = M * (p - q) /\ M * p + M * q = M * (p + q)
BY SMT

\* The remainder is unique.
LEMMA RemainderUnique ==
  ASSUME NEW M \in Nat \ {0}, NEW q \in Int, NEW r \in 0..(M - 1)
  PROVE  (M * q + r) % M = r
<1>1. PICK p \in Int, s \in 0..(M - 1) : M * q + r = M * p + s /\ (M * q + r) % M = s
  <2>1. M * q \in Int BY SMT
  <2>2. M * q + r \in Int BY <2>1
  <2> QED BY Zenon, <2>2, DivMod
<1>2. M * (q - p) = s - r
  BY <1>1, Distribute, SMT
<1>3. q - p = 0
  <2>1. CASE q - p >= 1 BY <2>1, <1>2, MultipleFar, SMT
  <2>2. CASE q - p <= -1 BY <2>2, <1>2, MultipleFar, SMT
  <2> QED BY <2>1, <2>2
<1> QED BY <1>1, <1>2, <1>3, SMT

\* A remainder is a counter value.
LEMMA ModRange ==
  ASSUME NEW M \in Nat \ {0}, NEW a \in Int
  PROVE  a % M \in 0..(M - 1)
BY SMT

\* Advancing a counter by n is advancing what it stands for by n.
LEMMA ModAdd ==
  ASSUME NEW M \in Nat \ {0}, NEW a \in Int, NEW n \in Int
  PROVE  ((a % M) + n) % M = (a + n) % M
<1>1. PICK q \in Int, r \in 0..(M - 1) : a = M * q + r /\ a % M = r
  BY Zenon, DivMod
<1>2. PICK p \in Int, s \in 0..(M - 1) : r + n = M * p + s /\ (r + n) % M = s
  <2>1. r + n \in Int OBVIOUS
  <2> QED BY Zenon, DivMod, <2>1
<1>3. a + n = M * (q + p) + s
  BY <1>1, <1>2, Distribute, SMT
<1>4. q + p \in Int OBVIOUS
<1>5. (a + n) % M = s
  BY Zenon, <1>3, <1>4, RemainderUnique
<1> QED BY Zenon, <1>1, <1>2, <1>5

\* The difference of two counters less than M apart is their distance.
LEMMA ModSub ==
  ASSUME NEW M \in Nat \ {0}, NEW a \in Int, NEW b \in Int, b <= a, a - b < M
  PROVE  ((a % M) - (b % M)) % M = a - b
<1>1. PICK q \in Int, r \in 0..(M - 1) : a = M * q + r /\ a % M = r
  BY Zenon, DivMod
<1>2. PICK p \in Int, s \in 0..(M - 1) : b = M * p + s /\ b % M = s
  BY Zenon, DivMod
<1>3. r - s = M * (p - q) + (a - b)
  BY <1>1, <1>2, Distribute, SMT
<1>4. a - b \in 0..(M - 1) /\ p - q \in Int
  OBVIOUS
<1>5. (M * (p - q) + (a - b)) % M = a - b
  BY Zenon, <1>4, RemainderUnique
<1> QED BY Zenon, <1>1, <1>2, <1>3, <1>5

\* The same when only the larger one has been reduced.
LEMMA ModSubLeft ==
  ASSUME NEW M \in Nat \ {0}, NEW a \in Int, NEW b \in Int, b <= a, a - b < M
  PROVE  ((a % M) - b) % M = a - b
<1>1. -b \in Int /\ a - b \in 0..(M - 1) /\ a + (-b) = a - b OBVIOUS
<1>2. ((a % M) + (-b)) % M = (a + (-b)) % M
  BY Zenon, <1>1, ModAdd
<1>3. (a - b) % M = a - b
  <2>1. M * 0 + (a - b) = a - b BY SMT
  <2> QED BY <1>1, <2>1, RemainderUnique
<1>4. a % M \in Int BY ModRange
<1>5. (a % M) + (-b) = (a % M) - b BY Zenon, <1>4
<1> QED BY Zenon, <1>1, <1>2, <1>3, <1>5

\* Dividing by the unit and multiplying again rounds down, exactly so for a
\* multiple of the unit.
LEMMA UnitRounding ==
  ASSUME NEW U \in Nat \ {0}, NEW a \in Nat
  PROVE  /\ a \div U \in Nat
         /\ (a \div U) * U \in Nat
         /\ (a \div U) * U <= a
         /\ a % U = 0 => (a \div U) * U = a
BY SMT

-----------------------------------------------------------------------------
(* The constants, and facts of arithmetic.                                   *)

\* The constants one by one, in the form the provers use.
LEMMA ConstantTypes ==
  /\ SeqMod \in Nat \ {0} /\ WinUnit \in Nat \ {0} /\ RecvWin \in Nat \ {0}
  /\ InCap \in Nat \ {0} /\ OutCap \in Nat \ {0} /\ MaxPayload \in Nat \ {0}
  /\ DevBuf \in Nat \ {0} /\ DevSeg \in Nat \ {0}
  /\ UpBytes \in Nat /\ DownBytes \in Nat
  /\ RecvWin <= InCap /\ RecvWin < SeqMod /\ DevBuf < SeqMod
BY Zenon, ConnAssumption

\* Facts of arithmetic, apart so that they are proved without any context.
LEMMA LeqReflexive == \A x \in Nat : x <= x
OBVIOUS

\* The sum of two naturals.
LEMMA SumOfNaturals == \A x \in Nat : \A y \in Nat : x + y \in Int
OBVIOUS

\* Transitivity of the order.
LEMMA LeqTransitive ==
  ASSUME NEW x \in Int, NEW y \in Int, NEW z \in Int, x <= y, y <= z
  PROVE  x <= z
OBVIOUS

\* A bound stays one when the number it starts from grows.
LEMMA BoundGrows ==
  ASSUME NEW x \in Int, NEW u \in Int, NEW v \in Int, NEW w \in Int, x <= u + w, u <= v
  PROVE  x <= v + w
OBVIOUS

\* Adding to both sides of a bound on what is left of a buffer.
LEMMA EdgeBound ==
  ASSUME NEW r \in Nat, NEW b \in Nat, NEW x \in Nat, NEW size \in Nat, x <= size - b
  PROVE  r + x <= r + size - b /\ x <= size
OBVIOUS

\* An index below one of the first n is one of the first n.
LEMMA IndexBelow ==
  ASSUME NEW n \in Nat, NEW i \in 1..(n + 1), NEW j \in 1..n, i <= j
  PROVE  i \in 1..n
OBVIOUS

\* What is advertised to the device is RecvWin exactly.
LEMMA AdvertisedWindow ==
  RecvWin \div WinUnit \in Nat /\ (RecvWin \div WinUnit) * WinUnit = RecvWin
BY Zenon, ConnAssumption, ConstantTypes, UnitRounding

\* sendable never exceeds what the window leaves, computed on the offsets that
\* the two counters stand for.
LEMMA SendableWithinWindow ==
  ASSUME NEW c \in Connection
  PROVE  /\ Sendable(c) \in Nat
         /\ Sendable(c) > 0 => ((c.tx_seq - c.rx_ack) % SeqMod) + Sendable(c) <= c.rx_win
<1>1. (c.tx_seq - c.rx_ack) % SeqMod \in 0..(SeqMod - 1)
  <2>1. c.tx_seq - c.rx_ack \in Int
    BY ConstantTypes DEF Connection
  <2> QED
    BY Zenon, <2>1, ConstantTypes, ModRange
<1>2. c.rx_win \in Nat
  BY Zenon DEF Connection
<1> QED
  BY <1>1, <1>2, ConstantTypes DEF Sendable, Smallest

\* update_connection yields a connection, changes none of the counters and is
\* idempotent.
LEMMA UpdateConnection ==
  ASSUME NEW c \in Connection
  PROVE  /\ update_connection(c) \in Connection
         /\ update_connection(c).state = c.state
         /\ update_connection(c).tx_seq = c.tx_seq
         /\ update_connection(c).tx_ack = c.tx_ack
         /\ update_connection(c).tx_acked = c.tx_acked
         /\ update_connection(c).rx_ack = c.rx_ack
         /\ update_connection(c).rx_win = c.rx_win
         /\ update_connection(c).rx_recvd = c.rx_recvd
         /\ update_connection(c).ib_size = c.ib_size
         /\ update_connection(c).sendable = Sendable(c)
         /\ update_connection(update_connection(c)) = update_connection(c)
<1>1. Sendable(c) \in Nat
  BY Zenon, SendableWithinWindow
<1>2. {e \in {"POLLIN", "POLLOUT"} : \/ e = "POLLIN" /\ Sendable(c) > 0
                                     \/ e = "POLLOUT" /\ c.ib_size > 0}
        \in SUBSET {"POLLIN", "POLLOUT"}
  BY Zenon
<1>3. (c.tx_acked # c.tx_ack) \in BOOLEAN
  BY Zenon
<1>4. /\ update_connection(c) \in Connection
      /\ update_connection(c).state = c.state
      /\ update_connection(c).tx_seq = c.tx_seq
      /\ update_connection(c).tx_ack = c.tx_ack
      /\ update_connection(c).tx_acked = c.tx_acked
      /\ update_connection(c).rx_ack = c.rx_ack
      /\ update_connection(c).rx_win = c.rx_win
      /\ update_connection(c).rx_recvd = c.rx_recvd
      /\ update_connection(c).ib_size = c.ib_size
      /\ update_connection(c).sendable = Sendable(c)
  BY Zenon, <1>1, <1>2, <1>3 DEF update_connection, Connection
<1>5. Sendable(update_connection(c)) = Sendable(c)
  BY Zenon, <1>4 DEF Sendable
<1>6. update_connection(update_connection(c)) = update_connection(c)
  BY ZenonT(40), <1>4, <1>5 DEF update_connection, Connection
<1> QED
  BY Zenon, <1>4, <1>6

-----------------------------------------------------------------------------
(* Appending a segment to toDev.                                             *)

\* Append and Tail, element by element.
LEMMA AppendElements ==
  ASSUME NEW S, NEW s \in Seq(S), NEW e \in S
  PROVE  /\ Append(s, e) \in Seq(S)
         /\ Append(s, e) # <<>>
         /\ Len(Append(s, e)) = Len(s) + 1
         /\ DOMAIN Append(s, e) = 1..(Len(s) + 1)
         /\ DOMAIN s = 1..Len(s)
         /\ \A i \in DOMAIN s : Append(s, e)[i] = s[i]
         /\ Append(s, e)[Len(s) + 1] = e
OBVIOUS

\* Taking the first element away.
LEMMA TailElements ==
  ASSUME NEW S, NEW s \in Seq(S), s # <<>>
  PROVE  /\ Tail(s) \in Seq(S)
         /\ Len(s) \in Nat \ {0}
         /\ Len(Tail(s)) = Len(s) - 1
         /\ DOMAIN Tail(s) = 1..(Len(s) - 1)
         /\ DOMAIN s = 1..Len(s)
         /\ \A i \in DOMAIN Tail(s) : Tail(s)[i] = s[i + 1]
         /\ Head(s) = s[1]
         /\ Head(s) \in S
         /\ Tail(s) = <<>> <=> Len(s) = 1
<1>1. Len(s) \in Nat \ {0} /\ DOMAIN s = 1..Len(s)
  OBVIOUS
<1>2. Tail(s) \in Seq(S) /\ Len(Tail(s)) = Len(s) - 1
  OBVIOUS
<1>3. DOMAIN Tail(s) = 1..(Len(s) - 1)
  BY <1>2
<1>4. \A i \in DOMAIN Tail(s) : Tail(s)[i] = s[i + 1]
  BY <1>1, <1>3
<1>5. Head(s) = s[1] /\ Head(s) \in S
  BY <1>1
<1>6. Tail(s) = <<>> <=> Len(s) = 1
  <2>1. Tail(s) = <<>> => Len(Tail(s)) = 0
    <3>1. Len(<<>>) = 0 BY Zenon
    <3> QED BY <3>1, Zenon
  <2>2. ASSUME NEW t \in Seq(S), t # <<>> PROVE Len(t) \in Nat \ {0}
    BY <2>2
  <2> QED
    BY <1>1, <1>2, <2>1, <2>2
<1> QED
  BY Zenon, <1>1, <1>2, <1>3, <1>4, <1>5, <1>6

\* A segment that starts where the last one ended keeps the chain of the
\* client's stream, as long as it ends below the device's edge.
LEMMA AppendKeepsUpInv ==
  ASSUME TypeOK, UpInv, dev' = dev, NEW seg \in Segment, toDev' = Append(toDev, seg),
         seg.pos = sent, sent' = sent + seg.len, sent' <= DevEdge,
         seg.flags = "ACK" => seg.seq = (1 + seg.pos) % SeqMod,
         seg.flags # "ACK" => seg.len = 0
  PROVE  UpInv'
<1>1. /\ toDev \in Seq(Segment) /\ sent \in Nat
      /\ dev.rcv \in Nat /\ dev.buf \in Nat
  BY Zenon DEF TypeOK, Device
<1>2. seg.len \in Nat
  BY Zenon DEF Segment
<1>3. DevEdge' = DevEdge
  BY Zenon DEF DevEdge
<1>4. dev'.buf <= DevBuf /\ dev'.rcv <= sent' /\ sent' <= DevEdge'
  BY <1>1, <1>2, <1>3 DEF UpInv
<1>5. ASSUME dev'.state \in {"LISTEN", "SYNRCVD", "OPEN"}
      PROVE  /\ toDev' # <<>> /\ toDev'[1].pos = dev'.rcv
             /\ \A i \in DOMAIN toDev' :
                  /\ toDev'[i].pos + toDev'[i].len <= sent'
                  /\ toDev'[i].pos + toDev'[i].len =
                       IF i = Len(toDev') THEN sent' ELSE toDev'[i + 1].pos
                  /\ toDev'[i].flags = "ACK" => toDev'[i].seq = (1 + toDev'[i].pos) % SeqMod
                  /\ toDev'[i].flags # "ACK" => toDev'[i].len = 0
  <2> DEFINE n == Len(toDev)
  <2>1. /\ n \in Nat /\ Len(toDev') = n + 1 /\ DOMAIN toDev' = 1..(n + 1)
        /\ DOMAIN toDev = 1..n /\ toDev' # <<>>
        /\ \A i \in 1..n : toDev'[i] = toDev[i] /\ toDev[i] \in Segment
        /\ toDev'[n + 1] = seg
    <3>1. /\ Len(toDev') = Len(toDev) + 1 /\ DOMAIN toDev' = 1..(Len(toDev) + 1)
          /\ DOMAIN toDev = 1..Len(toDev) /\ toDev' # <<>>
          /\ \A i \in DOMAIN toDev : toDev'[i] = toDev[i]
          /\ toDev'[Len(toDev) + 1] = seg
      BY SMTT(40), <1>1
    <3>2. n \in Nat /\ \A i \in 1..n : toDev[i] \in Segment
      BY <1>1
    <3> QED BY Zenon, <3>1, <3>2
  <2>2. /\ IF toDev = <<>> THEN dev.rcv = sent ELSE toDev[1].pos = dev.rcv
        /\ \A i \in 1..n :
             /\ toDev[i].pos + toDev[i].len <= sent
             /\ toDev[i].pos + toDev[i].len = IF i = n THEN sent ELSE toDev[i + 1].pos
             /\ toDev[i].flags = "ACK" => toDev[i].seq = (1 + toDev[i].pos) % SeqMod
             /\ toDev[i].flags # "ACK" => toDev[i].len = 0
    BY Zenon, <1>5, <2>1 DEF UpInv
  <2>3. toDev'[1].pos = dev'.rcv
    <3>1. CASE toDev = <<>>
      <4>1. n = 0 BY Zenon, <3>1
      <4> QED BY <4>1, <3>1, <2>1, <2>2
    <3>2. CASE toDev # <<>>
      <4>1. 1 \in 1..n BY <3>2, <1>1, <2>1
      <4> QED BY Zenon, <4>1, <3>2, <2>1, <2>2
    <3> QED BY Zenon, <3>1, <3>2
  <2>4. ASSUME NEW i \in 1..n
        PROVE  /\ toDev'[i].pos + toDev'[i].len <= sent'
               /\ toDev'[i].pos + toDev'[i].len = toDev'[i + 1].pos
               /\ toDev'[i].flags = "ACK" => toDev'[i].seq = (1 + toDev'[i].pos) % SeqMod
               /\ toDev'[i].flags # "ACK" => toDev'[i].len = 0
    <3>1. toDev[i].pos \in Nat /\ toDev[i].len \in Nat
      BY Zenon, <2>1 DEF Segment
    <3>2. i = n => toDev'[i + 1].pos = sent
      BY Zenon, <2>1
    <3>3. i # n => i + 1 \in 1..n
      <4>1. n \in Nat BY Zenon, <2>1
      <4> HIDE DEF n
      <4> QED BY <4>1
    <3>4. toDev'[i] = toDev[i]
      BY Zenon, <2>1
    <3>5. toDev'[i].pos + toDev'[i].len = toDev'[i + 1].pos
      <4>1. CASE i = n BY Zenon, <4>1, <2>2, <3>2, <3>4
      <4>2. CASE i # n BY Zenon, <4>2, <2>1, <2>2, <3>3, <3>4
      <4> QED BY Zenon, <4>1, <4>2
    <3>6. toDev'[i].pos + toDev'[i].len <= sent'
      <4>1. toDev[i].pos + toDev[i].len <= sent BY Zenon, <2>2
      <4>2. toDev[i].pos + toDev[i].len \in Int BY <3>1
      <4>3. sent \in Int /\ sent' \in Int /\ sent <= sent' BY <1>1, <1>2
      <4> QED BY <3>4, <4>1, <4>2, <4>3, LeqTransitive, Zenon
    <3> QED
      BY Zenon, <2>2, <3>4, <3>5, <3>6
  <2>5. /\ toDev'[n + 1].pos + toDev'[n + 1].len = sent'
        /\ toDev'[n + 1].flags = "ACK" =>
             toDev'[n + 1].seq = (1 + toDev'[n + 1].pos) % SeqMod
        /\ toDev'[n + 1].flags # "ACK" => toDev'[n + 1].len = 0
    BY Zenon, <2>1
  <2>6. sent' \in Nat
    BY <1>1, <1>2
  <2> HIDE DEF n
  <2>7. \A i \in DOMAIN toDev' : i \in 1..n \/ i = n + 1
    BY <2>1
  <2>8. \A i \in 1..n : i # n + 1
    BY <2>1
  <2> QED
    BY <2>1, <2>3, <2>4, <2>5, <2>6, <2>7, <2>8
<1> QED
  BY Zenon, <1>4, <1>5 DEF UpInv

\* A new acknowledgement is the largest so far.
LEMMA AppendKeepsAckInv ==
  ASSUME TypeOK, AckInv, dev' = dev, NEW seg \in Segment, toDev' = Append(toDev, seg),
         got' \in Nat, got <= got', dev.una <= got,
         seg.flags = "ACK" => /\ seg.ack = (1 + seg.apos) % SeqMod
                              /\ got <= seg.apos /\ seg.apos <= got',
         seg.flags # "RST" => seg.win = RecvWin \div WinUnit
  PROVE  AckInv'
<1> DEFINE n == Len(toDev)
<1>1. /\ toDev \in Seq(Segment) /\ got \in Nat /\ dev.una \in Nat
  BY Zenon DEF TypeOK, Device
<1>2. /\ n \in Nat /\ Len(toDev') = n + 1 /\ DOMAIN toDev' = 1..(n + 1)
      /\ DOMAIN toDev = 1..n
      /\ \A i \in 1..n : toDev'[i] = toDev[i] /\ toDev[i] \in Segment
      /\ toDev'[n + 1] = seg
  BY <1>1, AppendElements
<1>3. \A i \in 1..n : toDev[i].apos \in Nat
  BY Zenon, <1>2 DEF Segment
<1>4. seg.apos \in Nat
  BY Zenon DEF Segment
<1> HIDE DEF n
<1>5. \A i \in DOMAIN toDev' : i \in 1..n \/ i = n + 1
  BY <1>2
<1>6. \A i \in 1..n : toDev[i].flags = "ACK" =>
        /\ toDev[i].ack = (1 + toDev[i].apos) % SeqMod
        /\ dev.una <= toDev[i].apos
        /\ toDev[i].apos <= got
  BY Zenon, <1>2 DEF AckInv
<1>7. \A i \in DOMAIN toDev' : toDev'[i].flags = "ACK" =>
        /\ toDev'[i].ack = (1 + toDev'[i].apos) % SeqMod
        /\ dev'.una <= toDev'[i].apos
        /\ toDev'[i].apos <= got'
  BY SMTT(40), <1>1, <1>2, <1>3, <1>4, <1>5, <1>6
<1>8. \A i \in DOMAIN toDev' : \A j \in DOMAIN toDev' :
        (i <= j /\ toDev'[i].flags = "ACK" /\ toDev'[j].flags = "ACK") =>
          toDev'[i].apos <= toDev'[j].apos
  <2>1. SUFFICES ASSUME NEW i \in DOMAIN toDev', NEW j \in DOMAIN toDev', i <= j,
                        toDev'[i].flags = "ACK", toDev'[j].flags = "ACK"
                 PROVE  toDev'[i].apos <= toDev'[j].apos
    BY Zenon
  <2>2. CASE j \in 1..n
    <3>1. i \in 1..n BY <1>2, <2>1, <2>2
    <3> QED BY Zenon, <2>1, <2>2, <3>1, <1>2 DEF AckInv
  <2>3. CASE j = n + 1 /\ i \in 1..n
    BY <2>1, <2>3, <1>1, <1>2, <1>3, <1>4, <1>6
  <2>4. CASE j = n + 1 /\ i = n + 1
    BY <2>4, <1>2, <1>4
  <2> QED
    BY Zenon, <1>5, <2>2, <2>3, <2>4
<1>9. \A i \in DOMAIN toDev' :
        toDev'[i].flags # "RST" => toDev'[i].win = RecvWin \div WinUnit
  BY Zenon, <1>2, <1>5 DEF AckInv
<1> QED
  BY Zenon, <1>7, <1>8, <1>9 DEF AckInv

-----------------------------------------------------------------------------
(* Teardown.                                                                 *)

\* Once the structure is freed only the facts about the two streams remain.
LEMMA ZeroedConnection ==
  Zeroed \in Connection /\ Zeroed.state = "NONE"
BY ConstantTypes DEF Zeroed, Connection, ConnStates

\* connection_teardown keeps the invariant from any connection c whose buffer
\* holds bytes that the device sent and the client has not got.
LEMMA TeardownKeeps ==
  ASSUME IndInv, NEW c, NEW g \in Nat, NEW b \in BOOLEAN,
         c.tx_seq \in 0..(SeqMod - 1), c.tx_ack \in 0..(SeqMod - 1), c.ib_size \in Nat,
         got <= g, g + c.ib_size <= dev.nxt,
         connection_teardown(c, g, b),
         dev' = dev, sent' = sent, acked' \in Nat, acked' <= dev.rcv,
         toHost' \in Seq(Segment), toHost = <<>> => toHost' = <<>>
  PROVE  IndInv'
<1> USE DEF IndInv
<1>1. conn' = Zeroed /\ conn' \in Connection /\ conn'.state = "NONE"
  BY Zenon, ZeroedConnection DEF connection_teardown, TeardownClient
<1>2. cstate' \in ClientStates
  BY Zenon DEF connection_teardown, TeardownClient, ClientStates
<1>3. got' \in Nat /\ g <= got' /\ got' <= g + c.ib_size
  BY DEF connection_teardown, TeardownClient
<1>4. dev \in Device /\ sent \in Nat /\ got \in Nat /\ dev.nxt \in Nat /\ dev.una \in Nat
      /\ toDev \in Seq(Segment)
  BY Zenon DEF TypeOK, Device
<1>5. got <= got' /\ got' <= dev.nxt
  BY SMTT(40), <1>3, <1>4
<1> DEFINE seg == TcpSegment(c, g, "RST", 0)
<1>6. seg \in Segment /\ seg.flags = "RST" /\ seg.pos = sent /\ seg.len = 0
  BY Zenon, <1>4, AdvertisedWindow DEF TcpSegment, Segment, Flags
<1>7. toDev' = toDev \/ toDev' = Append(toDev, seg)
  BY Zenon DEF connection_teardown
<1> HIDE DEF seg
<1>8. TypeOK'
  <2>1. CASE toDev' = toDev
    BY Zenon, <2>1, <1>1, <1>2, <1>3, <1>4 DEF TypeOK
  <2>2. CASE toDev' = Append(toDev, seg)
    <3>1. toDev' \in Seq(Segment)
      BY Zenon, <2>2, <1>4, <1>6, AppendElements
    <3> QED
      BY Zenon, <1>1, <1>2, <1>3, <1>4, <3>1 DEF TypeOK
  <2> QED
    BY Zenon, <1>7, <2>1, <2>2
<1>9. UpInv'
  <2>1. CASE toDev' = toDev
    BY Zenon, <2>1 DEF UpInv, DevEdge
  <2>2. CASE toDev' = Append(toDev, seg)
    <3>1. sent' = sent + seg.len /\ sent' <= DevEdge
      BY <1>4, <1>6 DEF UpInv
    <3> QED
      BY Zenon, <2>2, <1>6, <3>1, AppendKeepsUpInv
  <2> QED
    BY Zenon, <1>7, <2>1, <2>2
<1>10. AckInv'
  <2>1. CASE toDev' = toDev
    <3>1. \A i \in DOMAIN toDev : toDev[i].apos \in Nat
      <4>1. \A i \in DOMAIN toDev : toDev[i] \in Segment BY <1>4
      <4> QED BY Zenon, <4>1 DEF Segment
    <3> QED
      BY SMTT(40), <2>1, <1>3, <1>4, <1>5, <3>1 DEF AckInv
  <2>2. CASE toDev' = Append(toDev, seg)
    BY Zenon, <2>2, <1>3, <1>5, <1>6, AppendKeepsAckInv DEF DownInv
  <2> QED
    BY Zenon, <1>7, <2>1, <2>2
<1>11. DownInv'
  BY <1>1, <1>3, <1>4, <1>5 DEF DownInv
<1>12. HandshakeInv'
  <2>1. \A i \in DOMAIN toDev' : toDev'[i].flags = "SYN" => i = 1 /\ dev'.state = "LISTEN"
    <3>1. CASE toDev' = toDev
      BY Zenon, <3>1 DEF HandshakeInv
    <3>2. CASE toDev' = Append(toDev, seg)
      <4>1. \A i \in DOMAIN toDev' : \/ i \in DOMAIN toDev /\ toDev'[i] = toDev[i]
                                     \/ toDev'[i] = seg
        BY SMTT(40), <3>2, <1>4, <1>6, AppendElements
      <4> QED
        BY Zenon, <4>1, <1>6 DEF HandshakeInv
    <3> QED
      BY Zenon, <1>7, <3>1, <3>2
  <2> QED
    BY Zenon, <1>1, <2>1 DEF HandshakeInv
<1>13. UpdatedInv' /\ WindowInv'
  BY Zenon, <1>1 DEF UpdatedInv, WindowInv
<1> QED
  BY Zenon, <1>8, <1>9, <1>10, <1>11, <1>12, <1>13

-----------------------------------------------------------------------------
(* Handlers that leave the connection open.                                  *)

\* send_tcp(TH_ACK) with n bytes, from a connection whose counters stand for
\* the current offsets.
LEMMA SendAckKeeps ==
  ASSUME IndInv, NEW c, NEW g \in Nat, NEW n \in Nat,
         c.tx_seq \in 0..(SeqMod - 1), c.tx_ack \in 0..(SeqMod - 1),
         c.tx_seq = (1 + sent) % SeqMod, c.tx_ack = (1 + g) % SeqMod,
         toDev' = Append(toDev, TcpSegment(c, g, "ACK", n)),
         dev' = dev, dev.state # "LISTEN", got <= g, got' = g,
         sent' = sent + n, sent' <= DevEdge
  PROVE  /\ toDev' \in Seq(Segment)
         /\ UpInv'
         /\ AckInv'
         /\ \A i \in DOMAIN toDev' : toDev'[i].flags # "SYN"
<1> USE DEF IndInv
<1> DEFINE seg == TcpSegment(c, g, "ACK", n)
<1>1. sent \in Nat /\ toDev \in Seq(Segment)
  BY Zenon DEF TypeOK
<1>2. /\ seg \in Segment /\ seg.flags = "ACK" /\ seg.pos = sent /\ seg.len = n
      /\ seg.seq = c.tx_seq /\ seg.ack = c.tx_ack /\ seg.apos = g
      /\ seg.win = RecvWin \div WinUnit
  BY Zenon, <1>1, AdvertisedWindow DEF TcpSegment, Segment, Flags
<1>3. toDev' = Append(toDev, seg)
  BY Zenon
<1> HIDE DEF seg
<1>4. UpInv'
  BY Zenon, <1>2, <1>3, AppendKeepsUpInv
<1>5. AckInv'
  <2>1. got' \in Nat /\ got <= got' /\ dev.una <= got /\ got <= seg.apos /\ seg.apos <= got'
    BY <1>2 DEF DownInv
  <2> QED
    BY Zenon, <1>2, <1>3, <2>1, AppendKeepsAckInv
<1>6. toDev' \in Seq(Segment)
  BY <1>1, <1>2, <1>3, AppendElements
<1>7. \A i \in DOMAIN toDev' : toDev'[i].flags # "SYN"
  <2>1. \A i \in DOMAIN toDev' : \/ i \in DOMAIN toDev /\ toDev'[i] = toDev[i]
                                 \/ toDev'[i] = seg
    BY SMTT(40), <1>1, <1>2, <1>3, AppendElements
  <2> QED
    BY <2>1, <1>2 DEF HandshakeInv
<1> QED
  BY Zenon, <1>4, <1>5, <1>6, <1>7

\* What is in flight behind the segment that is being handled.
LEMMA TailInFlight ==
  ASSUME NEW q \in Seq(Segment), q # <<>>, NEW base, NEW a, InFlight(q, base, a)
  PROVE  /\ q[1].pos = base
         /\ q[1].pos + q[1].len <= dev.nxt
         /\ q[1].ack = (1 + q[1].apos) % SeqMod
         /\ a <= q[1].apos /\ q[1].apos <= dev.rcv
         /\ q[1].apos + q[1].win * WinUnit <= DevEdge
         /\ q[1].win * WinUnit <= DevBuf
         /\ q[1].flags = "SYNACK" => q[1].seq = 0
         /\ InFlight(Tail(q), q[1].pos + q[1].len, q[1].apos)
<1> DEFINE n == Len(q)
           t == Tail(q)
           h == q[1]
<1>2. /\ n \in Nat \ {0} /\ DOMAIN q = 1..n /\ DOMAIN t = 1..(n - 1) /\ Len(t) = n - 1
      /\ \A i \in 1..(n - 1) : t[i] = q[i + 1]
      /\ t = <<>> <=> n = 1
  BY Zenon, TailElements
<1>3. /\ q[1].pos = base
      /\ \A i \in 1..n :
           /\ q[i].pos + q[i].len <= dev.nxt
           /\ q[i].pos + q[i].len = IF i = n THEN dev.nxt ELSE q[i + 1].pos
           /\ q[i].flags = "SYNACK" => q[i].seq = 0
           /\ q[i].ack = (1 + q[i].apos) % SeqMod
           /\ a <= q[i].apos /\ q[i].apos <= dev.rcv
           /\ q[i].apos + q[i].win * WinUnit <= DevEdge
           /\ q[i].win * WinUnit <= DevBuf
      /\ \A i \in 1..n : \A j \in 1..n : i <= j => q[i].apos <= q[j].apos
  BY Zenon, <1>2 DEF InFlight
<1> HIDE DEF n, t, h
<1>4. 1 \in 1..n /\ \A i \in 1..(n - 1) : i + 1 \in 1..n /\ 1 <= i + 1
  BY <1>2
<1>8. IF t = <<>> THEN h.pos + h.len = dev.nxt ELSE t[1].pos = h.pos + h.len
  <2>1. CASE n = 1
    BY Zenon, <2>1, <1>2, <1>3, <1>4 DEF h
  <2>2. CASE n # 1
    <3>1. 1 \in 1..(n - 1) BY <2>2, <1>2
    <3>2. t[1] = q[1 + 1] BY Zenon, <3>1, <1>2
    <3> QED BY Zenon, <2>2, <1>2, <1>3, <1>4, <3>2 DEF h
  <2> QED
    BY Zenon, <2>1, <2>2
<1>9. ASSUME NEW i \in 1..(n - 1)
      PROVE  /\ t[i].pos + t[i].len <= dev.nxt
             /\ t[i].pos + t[i].len = IF i = n - 1 THEN dev.nxt ELSE t[i + 1].pos
             /\ t[i].flags = "SYNACK" => t[i].seq = 0
             /\ t[i].ack = (1 + t[i].apos) % SeqMod
             /\ h.apos <= t[i].apos
             /\ t[i].apos <= dev.rcv
             /\ t[i].apos + t[i].win * WinUnit <= DevEdge
             /\ t[i].win * WinUnit <= DevBuf
  <2>1. i + 1 \in 1..n /\ 1 <= i + 1 /\ t[i] = q[i + 1] /\ 1 \in 1..n
    BY Zenon, <1>2, <1>4
  <2>2. t[i].pos + t[i].len = IF i = n - 1 THEN dev.nxt ELSE t[i + 1].pos
    <3>1. CASE i = n - 1
      <4>1. i + 1 = n BY <3>1, <1>2
      <4> QED BY Zenon, <3>1, <4>1, <2>1, <1>3
    <3>2. CASE i # n - 1
      <4>1. i + 1 \in 1..(n - 1) /\ i + 1 # n BY <3>2, <1>2
      <4>2. t[i + 1] = q[(i + 1) + 1] BY Zenon, <4>1, <1>2
      <4> QED BY Zenon, <3>2, <4>1, <4>2, <2>1, <1>3
    <3> QED
      BY Zenon, <3>1, <3>2
  <2>3. h.apos <= t[i].apos
    BY Zenon, <2>1, <1>3 DEF h
  <2> QED
    BY Zenon, <2>1, <2>2, <2>3, <1>3
<1>10. ASSUME NEW i \in 1..(n - 1), NEW j \in 1..(n - 1), i <= j
       PROVE  t[i].apos <= t[j].apos
  <2>1. i + 1 \in 1..n /\ j + 1 \in 1..n /\ i + 1 <= j + 1
    BY <1>2, <1>10
  <2> QED
    BY Zenon, <2>1, <1>2, <1>3
<1>11. InFlight(t, h.pos + h.len, h.apos)
  <2>1. \A i \in DOMAIN t :
          /\ t[i].pos + t[i].len <= dev.nxt
          /\ t[i].pos + t[i].len = IF i = Len(t) THEN dev.nxt ELSE t[i + 1].pos
          /\ t[i].flags = "SYNACK" => t[i].seq = 0
          /\ t[i].ack = (1 + t[i].apos) % SeqMod
          /\ h.apos <= t[i].apos
          /\ t[i].apos <= dev.rcv
          /\ t[i].apos + t[i].win * WinUnit <= DevEdge
          /\ t[i].win * WinUnit <= DevBuf
    BY <1>2, <1>9, Zenon
  <2>2. \A i \in DOMAIN t : \A j \in DOMAIN t : i <= j => t[i].apos <= t[j].apos
    BY <1>2, <1>10, Zenon
  <2> QED
    BY <1>8, <2>1, <2>2, Zenon DEF InFlight
<1> QED
  BY Zenon, <1>3, <1>4, <1>11 DEF t, h

\* A handler that ends with update_connection on an open connection c keeps the
\* invariant when c's counters stand for the new offsets and the segments
\* still in flight from the device start where c's buffer ends.
LEMMA OpenKeeps ==
  ASSUME IndInv, NEW c \in Connection, c.state = "CONNECTED",
         conn' = update_connection(c), cstate' \in ClientStates,
         dev' = dev, dev.state \in {"SYNRCVD", "OPEN", "CLOSED"},
         toDev' \in Seq(Segment), UpInv', AckInv',
         \A i \in DOMAIN toDev' : toDev'[i].flags # "SYN",
         got' \in Nat, sent' \in Nat, acked' \in Nat, got <= got',
         c.tx_ack = (1 + got') % SeqMod, c.rx_recvd = (got' + c.ib_size) % SeqMod,
         c.tx_seq = (1 + sent') % SeqMod, c.rx_ack = (1 + acked') % SeqMod,
         got' + c.ib_size <= dev.nxt,
         acked' <= dev.rcv, acked' + c.rx_win <= DevEdge, c.rx_win <= DevBuf,
         sent' <= acked' + DevBuf,
         toHost' \in Seq(Segment), InFlight(toHost', got' + c.ib_size, acked')
  PROVE  IndInv'
<1> USE DEF IndInv
<1>1. /\ conn' \in Connection /\ conn'.state = "CONNECTED" /\ conn'.ib_size = c.ib_size
      /\ conn'.tx_ack = c.tx_ack /\ conn'.rx_recvd = c.rx_recvd
      /\ conn'.tx_seq = c.tx_seq /\ conn'.rx_ack = c.rx_ack /\ conn'.rx_win = c.rx_win
      /\ conn' = update_connection(conn')
  BY Zenon, UpdateConnection
<1>2. c.ib_size \in Nat /\ dev.nxt \in Nat /\ dev.una \in Nat /\ got \in Nat /\ dev \in Device
  BY Zenon DEF Connection, TypeOK, Device
<1>3. TypeOK'
  BY Zenon, <1>1, <1>2 DEF TypeOK
<1>4. HandshakeInv'
  BY Zenon, <1>1 DEF HandshakeInv
<1>5. UpdatedInv'
  BY Zenon, <1>1 DEF UpdatedInv
<1>6. DevEdge' = DevEdge
  BY Zenon DEF DevEdge
<1>7. DownInv'
  <2>1. dev'.una <= got' /\ got' <= dev'.nxt /\ dev'.nxt <= dev'.una + RecvWin
    <3>1. dev.una <= got /\ dev.nxt <= dev.una + RecvWin
      BY Zenon DEF DownInv
    <3>2. dev.una <= got'
      BY <3>1, <1>2
    <3>3. got' <= dev.nxt
      BY SMTT(40), <1>2
    <3> QED
      BY Zenon, <3>1, <3>2, <3>3
  <2>2. InFlight(toHost, got + conn.ib_size, acked)'
    BY <1>1, <1>6, Zenon DEF InFlight
  <2> QED
    BY Zenon, <1>1, <2>1, <2>2 DEF DownInv
<1>8. WindowInv'
  BY Zenon, <1>1, <1>6 DEF WindowInv
<1> QED
  BY Zenon, <1>3, <1>4, <1>5, <1>7, <1>8

-----------------------------------------------------------------------------
(* The actions of the host, one by one.                                      *)

\* device_start_connect sends the SYN of a connection that does not exist yet.
LEMMA StartConnectKeeps ==
  ASSUME IndInv, device_start_connect
  PROVE  IndInv'
<1> USE DEF IndInv, device_start_connect
<1>1. CASE UNCHANGED <<toDev, conn, cstate>>
  BY <1>1 DEF TypeOK, HandshakeInv, UpdatedInv, DownInv, InFlight, AckInv, UpInv, WindowInv, DevEdge
<1>2. CASE /\ toDev' = Append(toDev, TcpSegment(Zeroed, got, "SYN", 0))
           /\ conn' = [Zeroed EXCEPT !.state = "CONNECTING"]
           /\ cstate' = "CONNECTING1"
  <2> DEFINE seg == TcpSegment(Zeroed, got, "SYN", 0)
  <2>1. /\ toDev \in Seq(Segment) /\ sent \in Nat /\ got \in Nat /\ acked \in Nat
        /\ dev \in Device
    BY Zenon DEF TypeOK
  <2>2. /\ conn' \in Connection /\ conn'.state = "CONNECTING" /\ conn'.ib_size = 0
        /\ conn'.tx_seq = 0 /\ conn'.tx_ack = 0
    <3>1. conn' \in Connection
      BY Zenon, <1>2, ZeroedConnection DEF Connection, ConnStates
    <3> QED
      BY Zenon, <1>2, <3>1 DEF Zeroed
  <2>3. /\ seg \in Segment /\ seg.flags = "SYN" /\ seg.pos = sent /\ seg.len = 0
        /\ seg.win = RecvWin \div WinUnit
    BY SMTT(40), <2>1, AdvertisedWindow, ConstantTypes, SMTT(60)
    DEF TcpSegment, Segment, Flags, Zeroed
  <2>4. toDev' = Append(toDev, seg) /\ toDev' = <<seg>>
    BY <1>2
  <2> HIDE DEF seg
  <2>5. /\ dev.nxt = 0 /\ dev.rcv = 0 /\ dev.una = 0 /\ dev.buf = 0 /\ toHost = <<>>
        /\ dev.state = "LISTEN"
    BY Zenon DEF HandshakeInv
  <2>6. sent = 0 /\ got = 0 /\ acked = 0
    BY <2>1, <2>5 DEF UpInv, DownInv, WindowInv
  <2>7. UpInv'
    <3>1. sent' = sent + seg.len /\ sent' <= DevEdge
      BY <2>1, <2>3 DEF UpInv
    <3> QED
      BY Zenon, <2>3, <2>4, <3>1, AppendKeepsUpInv
  <2>8. AckInv'
    BY <2>1, <2>3, <2>4, <2>5, <2>6, AppendKeepsAckInv
  <2>9. DOMAIN toDev' = {1} /\ toDev'[1] = seg /\ toDev' \in Seq(Segment)
    BY <2>3, <2>4
  <2>10. TypeOK'
    BY Zenon, <1>2, <2>1, <2>2, <2>9 DEF TypeOK, ClientStates
  <2>11. HandshakeInv'
    BY Zenon, <2>2, <2>3, <2>5, <2>6, <2>9 DEF HandshakeInv
  <2>12. UpdatedInv' /\ DownInv' /\ WindowInv'
    <3>1. InFlight(toHost, got + conn.ib_size, acked)'
      <4>1. DOMAIN toHost' = {} BY <2>5
      <4> QED BY <2>2, <2>5, <2>6, <4>1 DEF InFlight
    <3> QED
      BY <2>2, <2>5, <2>6, <3>1, ConstantTypes DEF UpdatedInv, DownInv, WindowInv
  <2> QED
    BY Zenon, <2>7, <2>8, <2>10, <2>11, <2>12
<1> QED
  BY Zenon, <1>1, <1>2

\* A successful send_tcp leaves everything but the acknowledgement state alone.
LEMMA SendTcpDoneFields ==
  ASSUME NEW c \in Connection
  PROVE  /\ SendTcpDone(c) \in Connection
         /\ SendTcpDone(c).state = c.state
         /\ SendTcpDone(c).tx_seq = c.tx_seq
         /\ SendTcpDone(c).tx_ack = c.tx_ack
         /\ SendTcpDone(c).rx_ack = c.rx_ack
         /\ SendTcpDone(c).rx_win = c.rx_win
         /\ SendTcpDone(c).rx_recvd = c.rx_recvd
         /\ SendTcpDone(c).ib_size = c.ib_size
BY Zenon DEF SendTcpDone, Connection

\* The connection with the window fields of the segment being handled.
LEMMA LearnedFields ==
  ASSUME NEW c \in Connection, NEW th \in Segment
  PROVE  /\ Learned(c, th) \in Connection
         /\ Learned(c, th).state = c.state
         /\ Learned(c, th).ib_size = c.ib_size
         /\ Learned(c, th).tx_seq = c.tx_seq
         /\ Learned(c, th).tx_ack = c.tx_ack
         /\ Learned(c, th).rx_recvd = c.rx_recvd
         /\ Learned(c, th).rx_ack = th.ack
         /\ Learned(c, th).rx_win = th.win * WinUnit
<1>1. th.ack \in 0..(SeqMod - 1) /\ th.win \in Nat
  BY Zenon DEF Segment
<1>2. PICK m \in Nat : m = th.win * WinUnit
  BY <1>1, ConstantTypes
<1>3. Learned(c, th) = [c EXCEPT !.rx_ack = th.ack, !.rx_win = m]
  BY Zenon, <1>2 DEF Learned
<1> QED
  BY Zenon, <1>1, <1>2, <1>3 DEF Connection

\* Zero and one as counters.
LEMMA SmallCounters ==
  1 % SeqMod \in 0..(SeqMod - 1) /\ 0 % SeqMod = 0
BY ConstantTypes

\* Advancing a counter keeps it a counter.
LEMMA CounterAdvance ==
  ASSUME NEW a \in 0..(SeqMod - 1), NEW n \in Nat
  PROVE  (a + n) % SeqMod \in 0..(SeqMod - 1)
<1>1. a + n \in Int
  BY ConstantTypes
<1> QED
  BY Zenon, <1>1, ConstantTypes, ModRange

\* The connection with len more bytes in ib_buf.
LEMMA ReceivedFields ==
  ASSUME NEW c \in Connection, NEW len \in Nat
  PROVE  /\ Received(c, len) \in Connection
         /\ Received(c, len).state = c.state
         /\ Received(c, len).ib_size = c.ib_size + len
         /\ Received(c, len).tx_seq = c.tx_seq
         /\ Received(c, len).tx_ack = c.tx_ack
         /\ Received(c, len).rx_recvd = (c.rx_recvd + len) % SeqMod
         /\ Received(c, len).rx_ack = c.rx_ack
         /\ Received(c, len).rx_win = c.rx_win
<1>1. c.rx_recvd \in 0..(SeqMod - 1) /\ c.ib_size \in Nat
  BY Zenon DEF Connection
<1>2. PICK r \in 0..(SeqMod - 1) : r = (c.rx_recvd + len) % SeqMod
  BY Zenon, <1>1, CounterAdvance
<1>3. PICK m \in Nat : m = c.ib_size + len
  BY <1>1
<1>4. Received(c, len) = [c EXCEPT !.ib_size = m, !.rx_recvd = r]
  BY Zenon, <1>2, <1>3 DEF Received
<1> QED
  BY Zenon, <1>1, <1>2, <1>3, <1>4 DEF Connection

\* The connection after n bytes of the client's stream were sent.
LEMMA SentFields ==
  ASSUME NEW c \in Connection, NEW n \in Nat
  PROVE  /\ Sent(c, n) \in Connection
         /\ Sent(c, n).state = c.state
         /\ Sent(c, n).ib_size = c.ib_size
         /\ Sent(c, n).tx_seq = (c.tx_seq + n) % SeqMod
         /\ Sent(c, n).tx_ack = c.tx_ack
         /\ Sent(c, n).rx_recvd = c.rx_recvd
         /\ Sent(c, n).rx_ack = c.rx_ack
         /\ Sent(c, n).rx_win = c.rx_win
<1>1. c.tx_seq \in 0..(SeqMod - 1)
  BY Zenon DEF Connection
<1>2. PICK r \in 0..(SeqMod - 1) : r = (c.tx_seq + n) % SeqMod
  BY Zenon, <1>1, CounterAdvance
<1>3. Sent(c, n) = [c EXCEPT !.tx_seq = r]
  BY Zenon, <1>2 DEF Sent
<1> QED
  BY Zenon, <1>1, <1>2, <1>3 DEF Connection

\* The connection after the client's socket accepted w bytes of ib_buf.
LEMMA WrittenFields ==
  ASSUME NEW c \in Connection, NEW w \in Nat, w <= c.ib_size
  PROVE  /\ Written(c, w) \in Connection
         /\ Written(c, w).state = c.state
         /\ Written(c, w).ib_size = c.ib_size - w
         /\ Written(c, w).tx_seq = c.tx_seq
         /\ Written(c, w).tx_ack = (c.tx_ack + w) % SeqMod
         /\ Written(c, w).rx_recvd = c.rx_recvd
         /\ Written(c, w).rx_ack = c.rx_ack
         /\ Written(c, w).rx_win = c.rx_win
<1>1. c.tx_ack \in 0..(SeqMod - 1) /\ c.ib_size \in Nat
  BY Zenon DEF Connection
<1>2. PICK r \in 0..(SeqMod - 1) : r = (c.tx_ack + w) % SeqMod
  BY Zenon, <1>1, CounterAdvance
<1>3. PICK m \in Nat : m = c.ib_size - w
  BY <1>1
<1>4. Written(c, w) = [c EXCEPT !.ib_size = m, !.tx_ack = r]
  BY Zenon, <1>2, <1>3 DEF Written
<1> QED
  BY Zenon, <1>1, <1>2, <1>3, <1>4 DEF Connection

\* The connection once its SYN is acknowledged, before the ACK is sent.
LEMMA HandshakeFields ==
  ASSUME NEW c \in Connection, c.tx_seq = 0, c.tx_ack = 0,
         NEW th, th.seq \in 0..(SeqMod - 1)
  PROVE  /\ Handshaken(c, th) \in Connection
         /\ Handshaken(c, th).state = c.state
         /\ Handshaken(c, th).ib_size = c.ib_size
         /\ Handshaken(c, th).tx_seq = 1 % SeqMod
         /\ Handshaken(c, th).tx_ack = 1 % SeqMod
         /\ Handshaken(c, th).rx_recvd = th.seq
         /\ Handshaken(c, th).rx_ack = c.rx_ack
         /\ Handshaken(c, th).rx_win = c.rx_win
<1> DEFINE d == Handshaken(c, th)
<1>1. PICK u \in 0..(SeqMod - 1) : u = 1 % SeqMod
  BY Zenon, SmallCounters
<1>2. PICK z \in 0..(SeqMod - 1) : z = th.seq
  BY Zenon
<1>3. c.tx_seq + 1 = 1 /\ c.tx_ack + 1 = 1
  OBVIOUS
<1>4. d = [c EXCEPT !.tx_seq = u, !.tx_ack = u, !.rx_recvd = z]
  BY Zenon, <1>1, <1>2, <1>3 DEF Handshaken
<1> HIDE DEF d
<1>5. /\ d \in Connection /\ d.state = c.state /\ d.ib_size = c.ib_size
      /\ d.tx_seq = u /\ d.tx_ack = u /\ d.rx_recvd = z
      /\ d.rx_ack = c.rx_ack /\ d.rx_win = c.rx_win
  BY Zenon, <1>1, <1>2, <1>4 DEF Connection
<1> QED
  BY Zenon, <1>1, <1>2, <1>5 DEF d

\* The connection that the ACK of a handshake leaves behind.
LEMMA OpenedFields ==
  ASSUME NEW c \in Connection,
         NEW d, d = [SendTcpDone(c) EXCEPT !.state = "CONNECTED"]
  PROVE  /\ d \in Connection /\ d.state = "CONNECTED" /\ d.ib_size = c.ib_size
         /\ d.tx_seq = c.tx_seq /\ d.tx_ack = c.tx_ack /\ d.rx_recvd = c.rx_recvd
         /\ d.rx_ack = c.rx_ack /\ d.rx_win = c.rx_win
BY SendTcpDoneFields DEF Connection, ConnStates

\* What a handler of device_tcp_input starts from.
LEMMA InputFacts ==
  ASSUME IndInv, toHost # <<>>, conn.state # "NONE", NEW th, th = Head(toHost)
  PROVE  /\ th \in Segment
         /\ th.seq \in 0..(SeqMod - 1) /\ {th.win, th.len, th.pos, th.apos} \subseteq Nat
         /\ Tail(toHost) \in Seq(Segment)
         /\ th.pos = got + conn.ib_size
         /\ got + conn.ib_size + th.len <= dev.nxt
         /\ th.ack = (1 + th.apos) % SeqMod
         /\ acked <= th.apos /\ th.apos <= dev.rcv
         /\ th.apos + th.win * WinUnit <= DevEdge
         /\ th.win * WinUnit <= DevBuf
         /\ th.flags = "SYNACK" => th.seq = 0
         /\ InFlight(Tail(toHost), got + conn.ib_size + th.len, th.apos)
<1>1. toHost \in Seq(Segment) /\ InFlight(toHost, got + conn.ib_size, acked)
  BY Zenon DEF IndInv, TypeOK, DownInv
<1>2. th = toHost[1] /\ th \in Segment /\ Tail(toHost) \in Seq(Segment)
  BY Zenon, <1>1, TailElements
<1>3. th.seq \in 0..(SeqMod - 1) /\ {th.win, th.len, th.pos, th.apos} \subseteq Nat
  BY Zenon, <1>2 DEF Segment
<1>4. /\ th.pos = got + conn.ib_size
      /\ th.pos + th.len <= dev.nxt
      /\ th.ack = (1 + th.apos) % SeqMod
      /\ acked <= th.apos /\ th.apos <= dev.rcv
      /\ th.apos + th.win * WinUnit <= DevEdge
      /\ th.win * WinUnit <= DevBuf
      /\ th.flags = "SYNACK" => th.seq = 0
      /\ InFlight(Tail(toHost), th.pos + th.len, th.apos)
  <2>1. PICK b : b = got + conn.ib_size
    BY Zenon
  <2>2. InFlight(toHost, b, acked)
    BY Zenon, <1>1, <2>1
  <2>3. /\ toHost[1].pos = b
        /\ toHost[1].pos + toHost[1].len <= dev.nxt
        /\ toHost[1].ack = (1 + toHost[1].apos) % SeqMod
        /\ acked <= toHost[1].apos /\ toHost[1].apos <= dev.rcv
        /\ toHost[1].apos + toHost[1].win * WinUnit <= DevEdge
        /\ toHost[1].win * WinUnit <= DevBuf
        /\ toHost[1].flags = "SYNACK" => toHost[1].seq = 0
        /\ InFlight(Tail(toHost), toHost[1].pos + toHost[1].len, toHost[1].apos)
    BY ZenonT(40), <1>1, <2>2, TailInFlight
  <2> QED
    BY Zenon, <1>2, <2>1, <2>3
<1> QED
  BY <1>2, <1>3, <1>4, Zenon

\* device_tcp_input on a connection that waits for its SYN+ACK.
LEMMA InputConnectingKeeps ==
  ASSUME IndInv, toHost # <<>>, conn.state = "CONNECTING",
         NEW th, th = Head(toHost),
         NEW c \in Connection, c.state = "CONNECTING", c.ib_size = conn.ib_size,
         c.tx_seq = conn.tx_seq, c.tx_ack = conn.tx_ack,
         c.rx_ack = th.ack, c.rx_win = th.win * WinUnit,
         InputConnecting(c, th),
         acked' = th.apos, toHost' = Tail(toHost), dev' = dev, sent' = sent
  PROVE  IndInv'
<1> USE DEF IndInv
<1> DEFINE open == Handshaken(c, th)
<1>1. conn.state # "NONE"
  BY Zenon
<1>2. /\ sent = 0 /\ conn.ib_size = 0 /\ dev.nxt = 0 /\ conn.tx_seq = 0 /\ conn.tx_ack = 0
      /\ dev.state \in {"SYNRCVD", "CLOSED"}
  BY Zenon DEF HandshakeInv
<1>3. /\ th.seq \in 0..(SeqMod - 1) /\ {th.win, th.len, th.pos, th.apos} \subseteq Nat
      /\ toHost' \in Seq(Segment)
      /\ got + conn.ib_size + th.len <= dev.nxt
      /\ th.ack = (1 + th.apos) % SeqMod
      /\ th.apos <= dev.rcv
      /\ th.apos + th.win * WinUnit <= DevEdge
      /\ th.win * WinUnit <= DevBuf
      /\ th.flags = "SYNACK" => th.seq = 0
      /\ InFlight(toHost', got + conn.ib_size + th.len, th.apos)
  BY Zenon, <1>1, InputFacts
<1>4. got \in Nat /\ sent \in Nat /\ dev.rcv \in Nat
  BY Zenon DEF TypeOK, Device
<1>5. dev.rcv <= sent /\ sent <= DevEdge
  BY Zenon DEF UpInv
<1>6. got = 0 /\ th.apos = 0 /\ th.len = 0
  BY <1>2, <1>3, <1>4, <1>5
<1>7. acked' \in Nat /\ acked' <= dev.rcv /\ (toHost = <<>> => toHost' = <<>>)
  BY Zenon, <1>3
<1>8. /\ open \in Connection /\ open.state = "CONNECTING" /\ open.ib_size = 0
      /\ open.tx_seq = 1 % SeqMod /\ open.tx_ack = 1 % SeqMod /\ open.rx_recvd = th.seq
      /\ open.rx_ack = th.ack /\ open.rx_win = th.win * WinUnit
  <2>1. c.tx_seq = 0 /\ c.tx_ack = 0 /\ th.seq \in 0..(SeqMod - 1)
    BY Zenon, <1>2, <1>3
  <2>2. /\ open \in Connection /\ open.state = c.state /\ open.ib_size = c.ib_size
        /\ open.tx_seq = 1 % SeqMod /\ open.tx_ack = 1 % SeqMod /\ open.rx_recvd = th.seq
        /\ open.rx_ack = c.rx_ack /\ open.rx_win = c.rx_win
    BY Zenon, <2>1, HandshakeFields
  <2> QED
    BY <1>2, <2>2, Zenon
<1> HIDE DEF open
<1>9. /\ c.tx_seq \in 0..(SeqMod - 1) /\ c.tx_ack \in 0..(SeqMod - 1) /\ c.ib_size \in Nat
      /\ open.tx_seq \in 0..(SeqMod - 1) /\ open.tx_ack \in 0..(SeqMod - 1)
  BY Zenon, <1>8 DEF Connection
<1>10. got + c.ib_size <= dev.nxt /\ got + open.ib_size <= dev.nxt /\ got <= got
       /\ open.ib_size \in Nat
  BY <1>2, <1>6, <1>8
<1>11. ASSUME NEW d, connection_teardown(d, got, FALSE),
              d.tx_seq \in 0..(SeqMod - 1), d.tx_ack \in 0..(SeqMod - 1), d.ib_size \in Nat,
              got + d.ib_size <= dev.nxt
       PROVE  IndInv'
  BY Zenon, <1>3, <1>4, <1>7, <1>10, <1>11, TeardownKeeps
<1>12. CASE connection_teardown(c, got, FALSE)
  BY Zenon, <1>9, <1>10, <1>11, <1>12
<1>13. CASE connection_teardown(open, got, FALSE)
  BY Zenon, <1>9, <1>10, <1>11, <1>13
<1>14. CASE connection_teardown([c EXCEPT !.state = "REFUSED"], got, FALSE)
  <2> DEFINE d == [c EXCEPT !.state = "REFUSED"]
  <2>1. d.tx_seq = c.tx_seq /\ d.tx_ack = c.tx_ack /\ d.ib_size = c.ib_size
    BY Zenon DEF Connection
  <2>2. connection_teardown(d, got, FALSE) BY Zenon, <1>14
  <2> HIDE DEF d
  <2> QED
    BY Zenon, <2>1, <2>2, <1>9, <1>10, <1>11
<1>15. CASE /\ th.flags = "SYNACK"
            /\ toDev' = Append(toDev, TcpSegment(open, got, "ACK", 0))
            /\ conn' = update_connection([SendTcpDone(open) EXCEPT !.state = "CONNECTED"])
            /\ cstate' = "CONNECTING2"
            /\ got' = got
  <2>0. PICK c2 : c2 = [SendTcpDone(open) EXCEPT !.state = "CONNECTED"]
    BY Zenon
  <2>1. /\ c2 \in Connection /\ c2.state = "CONNECTED" /\ c2.ib_size = 0
        /\ c2.tx_seq = 1 % SeqMod /\ c2.tx_ack = 1 % SeqMod /\ c2.rx_recvd = th.seq
        /\ c2.rx_ack = th.ack /\ c2.rx_win = th.win * WinUnit
    <3>1. /\ c2 \in Connection /\ c2.state = "CONNECTED" /\ c2.ib_size = open.ib_size
          /\ c2.tx_seq = open.tx_seq /\ c2.tx_ack = open.tx_ack
          /\ c2.rx_recvd = open.rx_recvd
          /\ c2.rx_ack = open.rx_ack /\ c2.rx_win = open.rx_win
      <4>1. open \in Connection BY Zenon, <1>8
      <4> QED BY ZenonT(40), <4>1, <2>0, OpenedFields
    <3> QED
      BY <1>8, <3>1, Zenon
  <2>2. conn' = update_connection(c2) /\ cstate' \in ClientStates
    BY Zenon, <1>15, <2>0 DEF ClientStates
  <2>3. 1 + sent = 1 /\ 1 + got = 1 /\ sent' = sent + 0 /\ sent' <= DevEdge /\ 0 \in Nat
    BY <1>2, <1>4, <1>5, <1>6, SMTT(30)
  <2>4. /\ toDev' \in Seq(Segment) /\ UpInv' /\ AckInv'
        /\ \A i \in DOMAIN toDev' : toDev'[i].flags # "SYN"
    BY Zenon, <1>2, <1>4, <1>8, <1>9, <1>10, <1>15, <2>3, SendAckKeeps
  <2>5. got' + c2.ib_size = 0 /\ 0 % SeqMod = 0
    BY <1>6, <1>15, <2>1, SmallCounters
  <2>6. /\ got' \in Nat /\ sent' \in Nat /\ acked' \in Nat /\ got <= got'
        /\ c2.tx_ack = (1 + got') % SeqMod /\ c2.rx_recvd = (got' + c2.ib_size) % SeqMod
        /\ c2.tx_seq = (1 + sent') % SeqMod /\ c2.rx_ack = (1 + acked') % SeqMod
        /\ got' + c2.ib_size <= dev.nxt
        /\ acked' <= dev.rcv /\ acked' + c2.rx_win <= DevEdge /\ c2.rx_win <= DevBuf
        /\ sent' <= acked' + DevBuf
    <3>1. c2.rx_recvd = (got' + c2.ib_size) % SeqMod
      BY <1>3, <1>15, <2>1, <2>5, Zenon
    <3>2. c2.tx_ack = (1 + got') % SeqMod /\ c2.tx_seq = (1 + sent') % SeqMod
      BY <1>15, <2>1, <2>3, Zenon
    <3>3. c2.rx_ack = (1 + acked') % SeqMod /\ acked' + c2.rx_win <= DevEdge
          /\ c2.rx_win <= DevBuf
      BY <1>3, <2>1, Zenon
    <3>4. /\ got' \in Nat /\ sent' \in Nat /\ got <= got'
          /\ got' + c2.ib_size <= dev.nxt /\ sent' <= acked' + DevBuf
      BY SMTT(40), <1>2, <1>4, <1>6, <1>15, <2>5, ConstantTypes
    <3> QED
      BY <1>7, <3>1, <3>2, <3>3, <3>4, Zenon
  <2>7. InFlight(toHost', got' + c2.ib_size, acked')
    <3>1. got' + c2.ib_size = got + conn.ib_size + th.len
      BY <1>2, <1>6, <2>5
    <3> QED
      BY <3>1, <1>3, Zenon
  <2> QED
    BY Zenon, <1>2, <1>3, <2>1, <2>2, <2>4, <2>6, <2>7, OpenKeeps
<1> QED
  BY <1>12, <1>13, <1>14, <1>15, Zenon DEF InputConnecting, open

\* The facts of the invariant that a handler of an open connection uses.
LEMMA OpenFacts ==
  ASSUME IndInv, conn.state = "CONNECTED"
  PROVE  /\ conn \in Connection /\ conn.ib_size \in Nat /\ conn.rx_win \in Nat
         /\ {sent, got, acked} \subseteq Nat /\ cstate \in ClientStates
         /\ {dev.nxt, dev.rcv, dev.una, dev.buf} \subseteq Nat
         /\ DevEdge \in Nat
         /\ dev.state \in {"SYNRCVD", "OPEN", "CLOSED"}
         /\ toDev \in Seq(Segment) /\ toHost \in Seq(Segment)
         /\ got + conn.ib_size <= dev.nxt
         /\ dev.una <= got /\ dev.nxt <= dev.una + RecvWin
         /\ conn.tx_ack = (1 + got) % SeqMod
         /\ conn.rx_recvd = (got + conn.ib_size) % SeqMod
         /\ conn.tx_seq = (1 + sent) % SeqMod
         /\ conn.rx_ack = (1 + acked) % SeqMod
         /\ acked <= dev.rcv /\ dev.rcv <= sent /\ sent <= DevEdge
         /\ acked + conn.rx_win <= DevEdge
         /\ conn.rx_win <= DevBuf /\ sent <= acked + DevBuf
         /\ conn = update_connection(conn)
         /\ InFlight(toHost, got + conn.ib_size, acked)
<1> USE DEF IndInv
<1>1. conn.state # "NONE"
  BY Zenon
<1>2. /\ conn \in Connection /\ cstate \in ClientStates /\ {sent, got, acked} \subseteq Nat
      /\ dev \in Device /\ toDev \in Seq(Segment) /\ toHost \in Seq(Segment)
  BY Zenon DEF TypeOK
<1>3. conn.ib_size \in Nat /\ conn.rx_win \in Nat
  BY Zenon, <1>2 DEF Connection
<1>4. {dev.nxt, dev.rcv, dev.una, dev.buf} \subseteq Nat
  BY Zenon, <1>2 DEF Device
<1>5. DevEdge \in Nat
  BY <1>4, ConstantTypes DEF UpInv, DevEdge
<1>6. /\ got + conn.ib_size <= dev.nxt
      /\ dev.una <= got /\ dev.nxt <= dev.una + RecvWin
      /\ conn.tx_ack = (1 + got) % SeqMod
      /\ conn.rx_recvd = (got + conn.ib_size) % SeqMod
      /\ InFlight(toHost, got + conn.ib_size, acked)
  BY Zenon, <1>1 DEF DownInv
<1>7. /\ conn.tx_seq = (1 + sent) % SeqMod
      /\ conn.rx_ack = (1 + acked) % SeqMod
      /\ acked <= dev.rcv
      /\ acked + conn.rx_win <= DevEdge
      /\ conn.rx_win <= DevBuf /\ sent <= acked + DevBuf
  BY Zenon DEF WindowInv
<1>8. dev.rcv <= sent /\ sent <= DevEdge /\ conn = update_connection(conn)
      /\ dev.state \in {"SYNRCVD", "OPEN", "CLOSED"}
  BY Zenon DEF UpInv, UpdatedInv, HandshakeInv
<1> QED
  BY <1>2, <1>3, <1>4, <1>5, <1>6, <1>7, <1>8, Zenon

\* What OpenKeeps asks of a connection c whose counters stand for the offsets
\* g, s and a.
Standing(c, g, s, a) ==
  /\ c \in Connection /\ c.state = "CONNECTED"
  /\ c.tx_ack = (1 + g) % SeqMod
  /\ c.rx_recvd = (g + c.ib_size) % SeqMod
  /\ c.tx_seq = (1 + s) % SeqMod
  /\ c.rx_ack = (1 + a) % SeqMod
  /\ g + c.ib_size <= dev.nxt
  /\ a + c.rx_win <= DevEdge
  /\ c.rx_win <= DevBuf

\* The connection that device_tcp_input hands to its branches.
LEMMA LearnedStanding ==
  ASSUME IndInv, conn.state = "CONNECTED", toHost # <<>>, NEW th, th = Head(toHost)
  PROVE  Standing(Learned(conn, th), got, sent, th.apos)
<1> DEFINE c == Learned(conn, th)
<1>1. /\ conn \in Connection
      /\ got + conn.ib_size <= dev.nxt
      /\ conn.tx_ack = (1 + got) % SeqMod
      /\ conn.rx_recvd = (got + conn.ib_size) % SeqMod
      /\ conn.tx_seq = (1 + sent) % SeqMod
  BY Zenon, OpenFacts
<1>2. conn.state # "NONE"
  BY Zenon
<1>3. /\ th \in Segment /\ th.ack = (1 + th.apos) % SeqMod
      /\ th.apos + th.win * WinUnit <= DevEdge
      /\ th.win * WinUnit <= DevBuf
  BY Zenon, <1>2, InputFacts
<1>4. /\ c \in Connection /\ c.state = conn.state /\ c.ib_size = conn.ib_size
      /\ c.tx_seq = conn.tx_seq /\ c.tx_ack = conn.tx_ack /\ c.rx_recvd = conn.rx_recvd
      /\ c.rx_ack = th.ack /\ c.rx_win = th.win * WinUnit
  BY Zenon, <1>1, <1>3, LearnedFields
<1> HIDE DEF c
<1>5. Standing(c, got, sent, th.apos)
  BY <1>1, <1>3, <1>4, Zenon DEF Standing
<1> QED
  BY Zenon, <1>5 DEF c

\* len bytes appended to ib_buf.
LEMMA ReceivedStanding ==
  ASSUME NEW c, NEW g \in Nat, NEW s, NEW a, Standing(c, g, s, a), NEW len \in Nat,
         g + c.ib_size + len <= dev.nxt
  PROVE  /\ Standing(Received(c, len), g, s, a)
         /\ Received(c, len).ib_size = c.ib_size + len
<1> DEFINE d == Received(c, len)
<1>1. c \in Connection /\ c.ib_size \in Nat
  BY Zenon DEF Standing, Connection
<1>2. /\ d \in Connection /\ d.state = c.state /\ d.ib_size = c.ib_size + len
      /\ d.tx_seq = c.tx_seq /\ d.tx_ack = c.tx_ack
      /\ d.rx_recvd = (c.rx_recvd + len) % SeqMod
      /\ d.rx_ack = c.rx_ack /\ d.rx_win = c.rx_win
  BY Zenon, <1>1, ReceivedFields
<1>3. c.rx_recvd = (g + c.ib_size) % SeqMod
  BY Zenon DEF Standing
<1> HIDE DEF d
<1>4. g + c.ib_size \in Int /\ len \in Int /\ g + c.ib_size + len = g + d.ib_size
  BY <1>1, <1>2
<1>5. d.rx_recvd = (g + d.ib_size) % SeqMod
  <2>1. (((g + c.ib_size) % SeqMod) + len) % SeqMod = (g + c.ib_size + len) % SeqMod
    BY Zenon, <1>4, ConstantTypes, ModAdd
  <2> QED
    BY <2>1, <1>2, <1>3, <1>4, Zenon
<1>6. g + d.ib_size <= dev.nxt
  BY Zenon, <1>4
<1>7. Standing(d, g, s, a)
  BY <1>2, <1>5, <1>6, Zenon DEF Standing
<1> QED
  BY Zenon, <1>2, <1>7 DEF d

\* send_tcp succeeded and update_connection ran: the offsets are the same.
LEMMA UpdateStanding ==
  ASSUME NEW c, NEW g, NEW s, NEW a, Standing(c, g, s, a)
  PROVE  /\ Standing(update_connection(c), g, s, a)
         /\ update_connection(c).ib_size = c.ib_size
<1> DEFINE d == update_connection(c)
<1>1. c \in Connection
  BY Zenon DEF Standing
<1>2. /\ d \in Connection /\ d.state = c.state /\ d.ib_size = c.ib_size
      /\ d.tx_seq = c.tx_seq /\ d.tx_ack = c.tx_ack /\ d.rx_recvd = c.rx_recvd
      /\ d.rx_ack = c.rx_ack /\ d.rx_win = c.rx_win
  BY Zenon, <1>1, UpdateConnection
<1> HIDE DEF d
<1>3. Standing(d, g, s, a)
  BY <1>2, Zenon DEF Standing
<1> QED
  BY Zenon, <1>2, <1>3 DEF d

\* The same for a successful send_tcp.
LEMMA SendTcpDoneStanding ==
  ASSUME NEW c, NEW g, NEW s, NEW a, Standing(c, g, s, a)
  PROVE  /\ Standing(SendTcpDone(c), g, s, a)
         /\ SendTcpDone(c).ib_size = c.ib_size
<1> DEFINE d == SendTcpDone(c)
<1>1. c \in Connection
  BY Zenon DEF Standing
<1>2. /\ d \in Connection /\ d.state = c.state /\ d.ib_size = c.ib_size
      /\ d.tx_seq = c.tx_seq /\ d.tx_ack = c.tx_ack /\ d.rx_recvd = c.rx_recvd
      /\ d.rx_ack = c.rx_ack /\ d.rx_win = c.rx_win
  BY Zenon, <1>1, SendTcpDoneFields
<1> HIDE DEF d
<1>3. Standing(d, g, s, a)
  BY <1>2, Zenon DEF Standing
<1> QED
  BY Zenon, <1>2, <1>3 DEF d

\* n bytes of the client's stream sent.
LEMMA SentStanding ==
  ASSUME NEW c, NEW g, NEW s \in Nat, NEW a, Standing(c, g, s, a), NEW n \in Nat
  PROVE  /\ Standing(Sent(c, n), g, s + n, a)
         /\ Sent(c, n).ib_size = c.ib_size
<1> DEFINE d == Sent(c, n)
<1>1. c \in Connection /\ c.tx_seq = (1 + s) % SeqMod
  BY Zenon DEF Standing
<1>2. /\ d \in Connection /\ d.state = c.state /\ d.ib_size = c.ib_size
      /\ d.tx_seq = (c.tx_seq + n) % SeqMod
      /\ d.tx_ack = c.tx_ack /\ d.rx_recvd = c.rx_recvd
      /\ d.rx_ack = c.rx_ack /\ d.rx_win = c.rx_win
  BY Zenon, <1>1, SentFields
<1> HIDE DEF d
<1>3. 1 + s \in Int /\ n \in Int /\ 1 + s + n = 1 + (s + n)
  OBVIOUS
<1>4. d.tx_seq = (1 + (s + n)) % SeqMod
  <2>1. (((1 + s) % SeqMod) + n) % SeqMod = (1 + s + n) % SeqMod
    BY Zenon, <1>3, ConstantTypes, ModAdd
  <2> QED
    BY <2>1, <1>1, <1>2, <1>3, Zenon
<1>5. Standing(d, g, s + n, a)
  BY <1>2, <1>4, Zenon DEF Standing
<1> QED
  BY Zenon, <1>2, <1>5 DEF d

\* w bytes of ib_buf written to the client.
LEMMA WrittenStanding ==
  ASSUME NEW c, NEW g \in Nat, NEW s, NEW a, Standing(c, g, s, a), dev.nxt \in Nat,
         NEW w \in Nat, w <= c.ib_size
  PROVE  /\ Standing(Written(c, w), g + w, s, a)
         /\ Written(c, w).ib_size \in Nat
         /\ (g + w) + Written(c, w).ib_size = g + c.ib_size
<1> DEFINE d == Written(c, w)
<1>1. c \in Connection /\ c.ib_size \in Nat
      /\ c.tx_ack = (1 + g) % SeqMod /\ c.rx_recvd = (g + c.ib_size) % SeqMod
      /\ g + c.ib_size <= dev.nxt
  BY Zenon DEF Standing, Connection
<1>2. /\ d \in Connection /\ d.state = c.state /\ d.ib_size = c.ib_size - w
      /\ d.tx_seq = c.tx_seq /\ d.tx_ack = (c.tx_ack + w) % SeqMod
      /\ d.rx_recvd = c.rx_recvd
      /\ d.rx_ack = c.rx_ack /\ d.rx_win = c.rx_win
  BY Zenon, <1>1, WrittenFields
<1> HIDE DEF d
<1>3. 1 + g \in Int /\ w \in Int /\ 1 + g + w = 1 + (g + w)
      /\ (g + w) + d.ib_size = g + c.ib_size /\ d.ib_size \in Nat
  BY <1>1, <1>2
<1>4. d.tx_ack = (1 + (g + w)) % SeqMod
  <2>1. (((1 + g) % SeqMod) + w) % SeqMod = (1 + g + w) % SeqMod
    BY Zenon, <1>3, ConstantTypes, ModAdd
  <2> QED
    BY <2>1, <1>1, <1>2, <1>3, Zenon
<1>5. Standing(d, g + w, s, a)
  BY ZenonT(40), <1>1, <1>2, <1>3, <1>4 DEF Standing
<1> QED
  BY Zenon, <1>3, <1>5 DEF d

\* OpenKeeps in terms of Standing.
LEMMA StandingKeeps ==
  ASSUME IndInv, conn.state = "CONNECTED", NEW c, Standing(c, got', sent', acked'),
         conn' = update_connection(c), cstate' \in ClientStates, dev' = dev,
         toDev' \in Seq(Segment), UpInv', AckInv',
         \A i \in DOMAIN toDev' : toDev'[i].flags # "SYN",
         got' \in Nat, sent' \in Nat, acked' \in Nat, got <= got',
         acked' <= dev.rcv, sent' <= acked' + DevBuf,
         toHost' \in Seq(Segment), InFlight(toHost', got' + c.ib_size, acked')
  PROVE  IndInv'
<1>1. dev.state \in {"SYNRCVD", "OPEN", "CLOSED"}
  BY Zenon, OpenFacts
<1>2. /\ c \in Connection /\ c.state = "CONNECTED"
      /\ c.tx_ack = (1 + got') % SeqMod
      /\ c.rx_recvd = (got' + c.ib_size) % SeqMod
      /\ c.tx_seq = (1 + sent') % SeqMod
      /\ c.rx_ack = (1 + acked') % SeqMod
      /\ got' + c.ib_size <= dev.nxt
      /\ acked' + c.rx_win <= DevEdge
      /\ c.rx_win <= DevBuf
  BY Zenon DEF Standing
<1> QED
  BY Zenon, <1>1, <1>2, OpenKeeps

\* Tearing down a connection whose counters stand for offsets of the streams.
LEMMA StandingTeardown ==
  ASSUME IndInv, NEW c, NEW g \in Nat, NEW a, Standing(c, g, sent, a), got <= g,
         NEW d, d.tx_seq = c.tx_seq, d.tx_ack = c.tx_ack, d.ib_size = c.ib_size,
         NEW b \in BOOLEAN, connection_teardown(d, g, b),
         dev' = dev, sent' = sent, acked' \in Nat, acked' <= dev.rcv,
         toHost' \in Seq(Segment), toHost = <<>> => toHost' = <<>>
  PROVE  IndInv'
<1>1. c \in Connection /\ g + c.ib_size <= dev.nxt
  BY Zenon DEF Standing
<1>2. /\ d.tx_seq \in 0..(SeqMod - 1) /\ d.tx_ack \in 0..(SeqMod - 1) /\ d.ib_size \in Nat
      /\ g + d.ib_size <= dev.nxt
  BY Zenon, <1>1 DEF Connection
<1> QED
  BY Zenon, <1>2, TeardownKeeps

\* send_tcp_ack, at the end of a handler of an open connection.
LEMMA SendTcpAckKeeps ==
  ASSUME IndInv, conn.state = "CONNECTED", NEW c, Standing(c, got, sent, acked'),
         send_tcp_ack(c), dev' = dev, sent' = sent,
         acked' \in Nat, acked <= acked', acked' <= dev.rcv,
         toHost' \in Seq(Segment), toHost = <<>> => toHost' = <<>>,
         InFlight(toHost', got + c.ib_size, acked')
  PROVE  IndInv'
<1>1. /\ {sent, got, acked} \subseteq Nat /\ cstate \in ClientStates
      /\ dev.state \in {"SYNRCVD", "OPEN", "CLOSED"}
      /\ sent <= DevEdge /\ sent <= acked + DevBuf
  BY Zenon, OpenFacts
<1>2. CASE connection_teardown(c, got, FALSE)
  <2>1. got <= got /\ c.tx_seq = c.tx_seq /\ c.tx_ack = c.tx_ack /\ c.ib_size = c.ib_size
        /\ FALSE \in BOOLEAN /\ got \in Nat
    BY <1>1
  <2> QED
    BY Zenon, <1>2, <2>1, StandingTeardown
<1>3. CASE /\ toDev' = Append(toDev, TcpSegment(c, got, "ACK", 0))
           /\ conn' = update_connection(SendTcpDone(c))
           /\ UNCHANGED <<cstate, got>>
  <2>1. c \in Connection /\ c.tx_seq = (1 + sent) % SeqMod /\ c.tx_ack = (1 + got) % SeqMod
    BY Zenon DEF Standing
  <2>2. c.tx_seq \in 0..(SeqMod - 1) /\ c.tx_ack \in 0..(SeqMod - 1)
    BY Zenon, <2>1 DEF Connection
  <2>3. sent' = sent + 0 /\ sent' <= DevEdge /\ got <= got /\ got' = got /\ 0 \in Nat
        /\ got \in Nat /\ dev.state # "LISTEN"
    BY <1>1, <1>3
  <2>4. /\ toDev' \in Seq(Segment) /\ UpInv' /\ AckInv'
        /\ \A i \in DOMAIN toDev' : toDev'[i].flags # "SYN"
    BY Zenon, <1>3, <2>1, <2>2, <2>3, SendAckKeeps
  <2>5. Standing(SendTcpDone(c), got, sent, acked') /\ SendTcpDone(c).ib_size = c.ib_size
    BY Zenon, SendTcpDoneStanding
  <2>6. /\ Standing(SendTcpDone(c), got', sent', acked')
        /\ InFlight(toHost', got' + SendTcpDone(c).ib_size, acked')
    BY <2>5, <2>3, Zenon
  <2>7. /\ got' \in Nat /\ sent' \in Nat /\ got <= got' /\ sent' <= acked' + DevBuf
        /\ cstate' \in ClientStates /\ conn' = update_connection(SendTcpDone(c))
    BY <1>1, <1>3, ConstantTypes
  <2> QED
    BY Zenon, <2>4, <2>6, <2>7, StandingKeeps
<1> QED
  BY <1>2, <1>3, Zenon DEF send_tcp_ack

\* device_tcp_input on an open connection: the payload goes to ib_buf and is
\* acknowledged up to what the client has got, or the connection goes down.
LEMMA InputConnectedKeeps ==
  ASSUME IndInv, toHost # <<>>, conn.state = "CONNECTED", NEW th, th = Head(toHost),
         InputConnected(Learned(conn, th), th),
         acked' = th.apos, toHost' = Tail(toHost), dev' = dev, sent' = sent
  PROVE  IndInv'
<1> DEFINE c == Learned(conn, th)
<1>1. conn.state # "NONE" /\ conn \in Connection /\ got \in Nat /\ acked \in Nat
  BY Zenon, OpenFacts
<1>2. /\ th \in Segment /\ {th.win, th.len, th.pos, th.apos} \subseteq Nat
      /\ toHost' \in Seq(Segment)
      /\ got + conn.ib_size + th.len <= dev.nxt
      /\ acked <= th.apos /\ th.apos <= dev.rcv
      /\ InFlight(Tail(toHost), got + conn.ib_size + th.len, th.apos)
  BY Zenon, <1>1, InputFacts
<1>3. Standing(c, got, sent, th.apos) /\ c.ib_size = conn.ib_size /\ c \in Connection
  BY Zenon, <1>1, <1>2, LearnedStanding, LearnedFields
<1>4. InputConnected(c, th)
  BY Zenon
<1>5. acked' \in Nat /\ acked <= acked' /\ acked' <= dev.rcv /\ (toHost = <<>> => toHost' = <<>>)
      /\ got <= got /\ FALSE \in BOOLEAN
  BY <1>1, <1>2
<1> HIDE DEF c
<1>6. ASSUME NEW d, d.tx_seq = c.tx_seq, d.tx_ack = c.tx_ack, d.ib_size = c.ib_size,
             connection_teardown(d, got, FALSE)
      PROVE  IndInv'
  BY Zenon, <1>1, <1>2, <1>3, <1>5, <1>6, StandingTeardown
<1>7. CASE connection_teardown(c, got, FALSE)
  BY Zenon, <1>6, <1>7
<1>8. CASE connection_teardown([c EXCEPT !.state = "DYING"], got, FALSE)
  <2> DEFINE d == [c EXCEPT !.state = "DYING"]
  <2>1. d.tx_seq = c.tx_seq /\ d.tx_ack = c.tx_ack /\ d.ib_size = c.ib_size
    BY Zenon, <1>3 DEF Connection
  <2>2. connection_teardown(d, got, FALSE) BY Zenon, <1>8
  <2> HIDE DEF d
  <2> QED
    BY Zenon, <2>1, <2>2, <1>6
<1>9. CASE send_tcp_ack(update_connection(Received(c, th.len)))
  <2> DEFINE len == th.len
             d == Received(c, len)
             e == update_connection(d)
  <2>1. len \in Nat /\ got + c.ib_size + len <= dev.nxt
    BY Zenon, <1>2, <1>3
  <2> HIDE DEF len
  <2>2. Standing(d, got, sent, th.apos) /\ d.ib_size = c.ib_size + len
    BY Zenon, <1>1, <1>3, <2>1, ReceivedStanding
  <2> HIDE DEF d
  <2>3. Standing(e, got, sent, th.apos) /\ e.ib_size = d.ib_size
    BY Zenon, <2>2, UpdateStanding
  <2>4. send_tcp_ack(e)
    BY Zenon, <1>9 DEF d, len
  <2> HIDE DEF e
  <2>5. got + conn.ib_size + th.len = got + e.ib_size
    <3>1. conn.ib_size \in Nat BY Zenon, <1>1 DEF Connection
    <3> QED BY <1>1, <1>2, <1>3, <2>2, <2>3, <3>1 DEF len
  <2>6. Standing(e, got, sent, acked') /\ InFlight(toHost', got + e.ib_size, acked')
    BY <1>2, <2>3, <2>5, Zenon
  <2> QED
    BY Zenon, <1>2, <1>5, <2>4, <2>6, SendTcpAckKeeps
<1> QED
  BY <1>4, <1>7, <1>8, <1>9, Zenon DEF InputConnected, connection_device_input

\* The fields of a segment.
LEMMA SegmentFields ==
  ASSUME NEW th \in Segment
  PROVE  /\ th.seq \in 0..(SeqMod - 1) /\ th.ack \in 0..(SeqMod - 1)
         /\ {th.win, th.len, th.pos, th.apos} \subseteq Nat
         /\ 0 \in 0..(SeqMod - 1)
BY SMTT(40), ConstantTypes DEF Segment

\* A segment without a connection changes nothing but toDev.
LEMMA InputUnknownKeeps ==
  ASSUME IndInv, toHost # <<>>, conn.state = "NONE", NEW th, th = Head(toHost),
         InputUnknown(th),
         acked' = acked, toHost' = Tail(toHost), dev' = dev, sent' = sent
  PROVE  IndInv'
<1> USE DEF IndInv
<1> DEFINE seg == [flags |-> "RST", seq |-> 0, ack |-> th.seq,
                   win |-> 0, len |-> 0, pos |-> sent, apos |-> got]
<1>1. /\ toHost \in Seq(Segment) /\ toDev \in Seq(Segment) /\ {sent, got, acked} \subseteq Nat
      /\ conn \in Connection /\ cstate \in ClientStates /\ dev \in Device
      /\ dev.una \in Nat /\ dev.nxt \in Nat
  BY Zenon DEF TypeOK, Device
<1>2. th \in Segment /\ toHost' \in Seq(Segment)
  BY Zenon, <1>1, TailElements
<1>3. /\ seg \in Segment /\ seg.flags = "RST" /\ seg.pos = sent /\ seg.len = 0
  <2>1. th.seq \in 0..(SeqMod - 1) /\ 0 \in 0..(SeqMod - 1)
    BY Zenon, <1>2, SegmentFields
  <2>2. PICK z \in 0..(SeqMod - 1) : z = th.seq
    BY Zenon, <2>1
  <2>3. seg = [flags |-> "RST", seq |-> 0, ack |-> z,
               win |-> 0, len |-> 0, pos |-> sent, apos |-> got]
    BY Zenon, <2>2
  <2> QED
    BY Zenon, <1>1, <2>1, <2>2, <2>3 DEF Segment, Flags
<1>4. /\ toDev' = toDev \/ toDev' = Append(toDev, seg)
      /\ conn' = conn /\ cstate' = cstate /\ got' = got
  BY Zenon DEF InputUnknown
<1> HIDE DEF seg
<1>5. /\ toDev' \in Seq(Segment) /\ UpInv' /\ AckInv'
      /\ \A i \in DOMAIN toDev' : toDev'[i].flags = "SYN" => i = 1 /\ dev'.state = "LISTEN"
  <2>1. CASE toDev' = toDev
    <3>1. UpInv' BY Zenon, <2>1 DEF UpInv, DevEdge
    <3>2. AckInv' BY Zenon, <2>1, <1>4 DEF AckInv
    <3> QED BY Zenon, <2>1, <3>1, <3>2, <1>1 DEF HandshakeInv
  <2>2. CASE toDev' = Append(toDev, seg)
    <3>1. sent' = sent + seg.len /\ sent' <= DevEdge
      BY <1>1, <1>3 DEF UpInv
    <3>2. UpInv'
      BY Zenon, <2>2, <1>3, <3>1, AppendKeepsUpInv
    <3>3. got' \in Nat /\ got <= got' /\ dev.una <= got
      BY <1>1, <1>4 DEF DownInv
    <3>4. AckInv'
      BY Zenon, <2>2, <1>3, <3>3, AppendKeepsAckInv
    <3>5. \A i \in DOMAIN toDev' : \/ i \in DOMAIN toDev /\ toDev'[i] = toDev[i]
                                   \/ toDev'[i] = seg
      BY SMTT(40), <2>2, <1>1, <1>3, AppendElements
    <3>6. toDev' \in Seq(Segment)
      BY Zenon, <2>2, <1>1, <1>3, AppendElements
    <3> QED
      BY Zenon, <3>2, <3>4, <3>5, <3>6, <1>3 DEF HandshakeInv
  <2> QED
    BY Zenon, <1>4, <2>1, <2>2
<1>6. TypeOK'
  BY Zenon, <1>1, <1>2, <1>4, <1>5 DEF TypeOK
<1>7. HandshakeInv'
  BY Zenon, <1>4, <1>5 DEF HandshakeInv
<1>8. DownInv'
  BY Zenon, <1>4 DEF DownInv
<1>9. UpdatedInv' /\ WindowInv'
  BY Zenon, <1>4 DEF UpdatedInv, WindowInv
<1> QED
  BY Zenon, <1>5, <1>6, <1>7, <1>8, <1>9

\* device_tcp_input, whatever the state of the connection.
LEMMA TcpInputKeeps ==
  ASSUME IndInv, device_tcp_input
  PROVE  IndInv'
<1> DEFINE th == Head(toHost)
<1>1. /\ toHost # <<>> /\ toHost' = Tail(toHost) /\ dev' = dev /\ sent' = sent
      /\ acked' = IF conn.state = "NONE" THEN acked ELSE th.apos
  BY Zenon DEF device_tcp_input
<1>2. CASE conn.state = "CONNECTING" /\ InputConnecting(Learned(conn, th), th)
  <2>1. conn.state # "NONE" /\ conn \in Connection
    BY Zenon, <1>2 DEF IndInv, TypeOK
  <2>2. th \in Segment
    BY Zenon, <1>1, <2>1, InputFacts
  <2> HIDE DEF th
  <2>3. /\ Learned(conn, th) \in Connection
        /\ Learned(conn, th).state = conn.state
        /\ Learned(conn, th).ib_size = conn.ib_size
        /\ Learned(conn, th).tx_seq = conn.tx_seq
        /\ Learned(conn, th).tx_ack = conn.tx_ack
        /\ Learned(conn, th).rx_ack = th.ack
        /\ Learned(conn, th).rx_win = th.win * WinUnit
    BY Zenon, <2>1, <2>2, LearnedFields
  <2>4. th = Head(toHost) /\ acked' = th.apos
    BY Zenon, <1>1, <2>1 DEF th
  <2> QED
    BY Zenon, <1>1, <1>2, <2>3, <2>4, InputConnectingKeeps
<1>3. CASE conn.state = "CONNECTED" /\ InputConnected(Learned(conn, th), th)
  <2>1. th = Head(toHost) /\ acked' = th.apos
    BY Zenon, <1>1, <1>3
  <2> HIDE DEF th
  <2> QED
    BY Zenon, <1>1, <1>3, <2>1, InputConnectedKeeps
<1>4. CASE conn.state = "NONE" /\ InputUnknown(th)
  <2>1. th = Head(toHost) /\ acked' = acked
    BY Zenon, <1>1, <1>4
  <2> HIDE DEF th
  <2> QED
    BY Zenon, <1>1, <1>4, <2>1, InputUnknownKeeps
<1> QED
  BY <1>2, <1>3, <1>4, Zenon DEF device_tcp_input

\* The open connection itself.
LEMMA ConnStanding ==
  ASSUME IndInv, conn.state = "CONNECTED"
  PROVE  Standing(conn, got, sent, acked)
<1>1. /\ conn \in Connection
      /\ conn.tx_ack = (1 + got) % SeqMod
      /\ conn.rx_recvd = (got + conn.ib_size) % SeqMod
      /\ conn.tx_seq = (1 + sent) % SeqMod
      /\ conn.rx_ack = (1 + acked) % SeqMod
      /\ got + conn.ib_size <= dev.nxt
      /\ acked + conn.rx_win <= DevEdge
      /\ conn.rx_win <= DevBuf
  BY Zenon, OpenFacts
<1> QED
  BY <1>1, Zenon DEF Standing

\* What update_connection allowed to send still fits below the device's edge.
LEMMA SendableBelowEdge ==
  ASSUME IndInv, conn.state = "CONNECTED", NEW n \in Nat, n > 0, n <= conn.sendable
  PROVE  sent + n <= DevEdge /\ sent + n <= acked + DevBuf
<1>1. /\ conn \in Connection /\ {sent, got, acked} \subseteq Nat
      /\ conn.tx_seq = (1 + sent) % SeqMod
      /\ conn.rx_ack = (1 + acked) % SeqMod
      /\ acked <= dev.rcv /\ dev.rcv <= sent /\ dev.rcv \in Nat
      /\ conn.rx_win \in Nat /\ DevEdge \in Nat
      /\ acked + conn.rx_win <= DevEdge
      /\ conn.rx_win <= DevBuf /\ sent <= acked + DevBuf
      /\ conn = update_connection(conn)
  BY Zenon, OpenFacts
<1>2. conn.sendable = Sendable(conn)
  BY Zenon, <1>1, UpdateConnection
<1>3. /\ Sendable(conn) \in Nat
      /\ Sendable(conn) > 0 =>
           ((conn.tx_seq - conn.rx_ack) % SeqMod) + Sendable(conn) <= conn.rx_win
  BY Zenon, <1>1, SendableWithinWindow
<1>4. (conn.tx_seq - conn.rx_ack) % SeqMod = sent - acked
  <2>1. /\ 1 + sent \in Int /\ 1 + acked \in Int /\ 1 + acked <= 1 + sent
        /\ (1 + sent) - (1 + acked) < SeqMod /\ (1 + sent) - (1 + acked) = sent - acked
    BY <1>1, ConstantTypes
  <2>2. (((1 + sent) % SeqMod) - ((1 + acked) % SeqMod)) % SeqMod = (1 + sent) - (1 + acked)
    BY <2>1, ConstantTypes, ModSub
  <2> QED
    BY <1>1, <2>1, <2>2, Zenon
<1>5. Sendable(conn) > 0 /\ (sent - acked) + Sendable(conn) <= conn.rx_win
  <2>1. Sendable(conn) > 0
    BY <1>2, <1>3
  <2> QED
    BY Zenon, <2>1, <1>3, <1>4
<1>6. n <= Sendable(conn)
  BY Zenon, <1>2
<1>7. (sent - acked) + n <= conn.rx_win
  BY <1>1, <1>3, <1>5, <1>6
<1> QED
  BY <1>1, <1>7, ConstantTypes

\* The POLLIN half of device_client_process.
LEMMA ForwardKeeps ==
  ASSUME IndInv, conn.state = "CONNECTED",
         NEW c, NEW g \in Nat, got <= g, Standing(c, g, sent, acked),
         InFlight(toHost, g + c.ib_size, acked),
         NEW n \in Nat, n <= conn.sendable, ForwardToDevice(c, g, n),
         dev' = dev, toHost' = toHost, acked' = acked
  PROVE  IndInv'
<1>1. /\ {sent, got, acked} \subseteq Nat /\ cstate \in ClientStates
      /\ dev.state \in {"SYNRCVD", "OPEN", "CLOSED"} /\ toHost \in Seq(Segment)
      /\ acked <= dev.rcv
  BY Zenon, OpenFacts
<1>2. CASE connection_teardown(c, g, FALSE) /\ sent' = sent
  <2>1. /\ c.tx_seq = c.tx_seq /\ c.tx_ack = c.tx_ack /\ c.ib_size = c.ib_size
        /\ FALSE \in BOOLEAN /\ acked' \in Nat /\ acked' <= dev.rcv
        /\ toHost' \in Seq(Segment) /\ (toHost = <<>> => toHost' = <<>>)
    BY Zenon, <1>1
  <2> QED
    BY Zenon, <1>2, <2>1, StandingTeardown
<1>3. CASE /\ n > 0
           /\ toDev' = Append(toDev, TcpSegment(c, g, "ACK", n))
           /\ conn' = update_connection(Sent(SendTcpDone(c), n))
           /\ sent' = sent + n
           /\ cstate' = cstate
           /\ got' = g
  <2> DEFINE d == SendTcpDone(c)
             e == Sent(d, n)
  <2>1. c \in Connection /\ c.tx_seq = (1 + sent) % SeqMod /\ c.tx_ack = (1 + g) % SeqMod
    BY Zenon DEF Standing
  <2>2. c.tx_seq \in 0..(SeqMod - 1) /\ c.tx_ack \in 0..(SeqMod - 1)
    BY Zenon, <2>1 DEF Connection
  <2>3. sent + n <= DevEdge /\ sent + n <= acked + DevBuf
    BY Zenon, <1>3, SendableBelowEdge
  <2>4. dev.state # "LISTEN" /\ sent' <= DevEdge /\ sent' = sent + n /\ got' = g
    BY Zenon, <1>1, <1>3, <2>3
  <2>5. /\ toDev' \in Seq(Segment) /\ UpInv' /\ AckInv'
        /\ \A i \in DOMAIN toDev' : toDev'[i].flags # "SYN"
    BY Zenon, <1>3, <2>1, <2>2, <2>4, SendAckKeeps
  <2>6. Standing(d, g, sent, acked) /\ d.ib_size = c.ib_size
    BY Zenon, SendTcpDoneStanding
  <2> HIDE DEF d
  <2>7. Standing(e, g, sent + n, acked) /\ e.ib_size = d.ib_size
    BY Zenon, <1>1, <2>6, SentStanding
  <2>8. conn' = update_connection(e)
    BY Zenon, <1>3 DEF d
  <2> HIDE DEF e
  <2>9. /\ Standing(e, got', sent', acked')
        /\ InFlight(toHost', got' + e.ib_size, acked')
    BY <2>4, <2>6, <2>7, Zenon
  <2>10. /\ got' \in Nat /\ sent' \in Nat /\ acked' \in Nat /\ got <= got'
         /\ acked' <= dev.rcv /\ sent' <= acked' + DevBuf
         /\ cstate' \in ClientStates /\ toHost' \in Seq(Segment)
    BY <1>1, <1>3, <2>3
  <2> QED
    BY Zenon, <2>5, <2>8, <2>9, <2>10, StandingKeeps
<1> QED
  BY <1>2, <1>3, Zenon DEF ForwardToDevice

\* device_client_process: ib_buf to the client, then the client to the device.
LEMMA ClientProcessKeeps ==
  ASSUME IndInv, device_client_process
  PROVE  IndInv'
<1>1. conn.state = "CONNECTED" /\ toHost' = toHost /\ dev' = dev /\ acked' = acked
  BY Zenon DEF device_client_process
<1>2. /\ {sent, got, acked} \subseteq Nat /\ cstate \in ClientStates
      /\ toHost \in Seq(Segment) /\ toDev \in Seq(Segment)
      /\ acked <= dev.rcv /\ conn \in Connection /\ conn.ib_size \in Nat
      /\ dev.nxt \in Nat /\ sent <= acked + DevBuf
      /\ dev.state \in {"SYNRCVD", "OPEN", "CLOSED"}
      /\ InFlight(toHost, got + conn.ib_size, acked)
  BY Zenon, <1>1, OpenFacts
<1>3. Standing(conn, got, sent, acked)
  BY Zenon, <1>1, ConnStanding
<1>4. CASE connection_teardown(conn, got, FALSE) /\ sent' = sent
  <2>1. /\ conn.tx_seq = conn.tx_seq /\ conn.tx_ack = conn.tx_ack /\ conn.ib_size = conn.ib_size
        /\ FALSE \in BOOLEAN /\ acked' \in Nat /\ acked' <= dev.rcv /\ got <= got /\ got \in Nat
        /\ toHost' \in Seq(Segment) /\ (toHost = <<>> => toHost' = <<>>)
    BY <1>1, <1>2
  <2> QED
    BY Zenon, <1>1, <1>3, <1>4, <2>1, StandingTeardown
<1>5. ASSUME NEW w \in Nat, w <= conn.ib_size
      PROVE  /\ Standing(Written(conn, w), got + w, sent, acked)
             /\ InFlight(toHost, (got + w) + Written(conn, w).ib_size, acked)
             /\ got + w \in Nat /\ got <= got + w
  <2>1. /\ Standing(Written(conn, w), got + w, sent, acked)
        /\ (got + w) + Written(conn, w).ib_size = got + conn.ib_size
    BY Zenon, <1>2, <1>3, <1>5, WrittenStanding
  <2>2. InFlight(toHost, (got + w) + Written(conn, w).ib_size, acked)
    BY <2>1, <1>2, Zenon
  <2> QED
    BY SMTT(40), <1>2, <2>1, <2>2
<1>6. ASSUME NEW w \in Nat, w <= conn.ib_size, NEW n \in 0..Smallest(conn.sendable, UpBytes - sent),
             ForwardToDevice(Written(conn, w), got + w, n)
      PROVE  IndInv'
  <2>1. n \in Nat /\ n <= conn.sendable
    <3>1. conn.sendable \in Nat BY Zenon, <1>2 DEF Connection
    <3> QED BY <1>2, <3>1, ConstantTypes DEF Smallest
  <2> QED
    BY Zenon, <1>1, <1>5, <1>6, <2>1, ForwardKeeps
<1>7. ASSUME NEW w \in Nat, w <= conn.ib_size, conn' = update_connection(Written(conn, w)),
             got' = got + w, UNCHANGED <<toDev, cstate, sent>>
      PROVE  IndInv'
  <2>1. UpInv'
    BY Zenon, <1>1, <1>7 DEF IndInv, UpInv, DevEdge
  <2>2. AckInv'
    <3>1. \A i \in DOMAIN toDev : toDev[i].apos \in Nat
      <4>1. \A i \in DOMAIN toDev : toDev[i] \in Segment BY SMTT(40), <1>2
      <4> QED BY Zenon, <4>1 DEF Segment
    <3>2. \A i \in DOMAIN toDev : toDev[i].apos <= got => toDev[i].apos <= got'
      BY <3>1, <1>2, <1>7
    <3>3. AckInv
      BY Zenon DEF IndInv
    <3> QED
      BY <1>1, <1>7, <3>2, <3>3, Zenon DEF AckInv
  <2>3. \A i \in DOMAIN toDev' : toDev'[i].flags # "SYN"
    BY Zenon, <1>2, <1>7 DEF IndInv, HandshakeInv
  <2>4. /\ Standing(Written(conn, w), got', sent', acked')
        /\ InFlight(toHost', got' + Written(conn, w).ib_size, acked')
    BY <1>1, <1>5, <1>7, Zenon
  <2>5. /\ got' \in Nat /\ sent' \in Nat /\ acked' \in Nat /\ got <= got'
        /\ acked' <= dev.rcv /\ sent' <= acked' + DevBuf /\ toDev' \in Seq(Segment)
        /\ cstate' \in ClientStates /\ toHost' \in Seq(Segment)
    BY Zenon, <1>1, <1>2, <1>5, <1>7
  <2> QED
    BY Zenon, <1>1, <1>7, <2>1, <2>2, <2>3, <2>4, <2>5, StandingKeeps
<1>8. ASSUME NEW ev, NEW w \in IF "POLLOUT" \in ev THEN 1..conn.ib_size ELSE {0}
      PROVE  w \in Nat /\ w <= conn.ib_size
  BY <1>2, <1>8
<1> QED
  BY ZenonT(40), <1>4, <1>6, <1>7, <1>8 DEF device_client_process

\* device_check_timeouts sends an acknowledgement and changes no offset.
LEMMA TimeoutsKeep ==
  ASSUME IndInv, device_check_timeouts
  PROVE  IndInv'
<1>1. /\ conn.state = "CONNECTED" /\ send_tcp_ack(conn)
      /\ toHost' = toHost /\ dev' = dev /\ sent' = sent /\ acked' = acked
  BY Zenon DEF device_check_timeouts
<1>2. /\ acked \in Nat /\ acked <= dev.rcv /\ toHost \in Seq(Segment)
      /\ InFlight(toHost, got + conn.ib_size, acked)
  BY Zenon, <1>1, OpenFacts
<1>3. Standing(conn, got, sent, acked)
  BY Zenon, <1>1, ConnStanding
<1>4. /\ Standing(conn, got, sent, acked') /\ InFlight(toHost', got + conn.ib_size, acked')
      /\ acked' \in Nat /\ acked' <= dev.rcv /\ toHost' \in Seq(Segment)
      /\ (toHost = <<>> => toHost' = <<>>)
  BY <1>1, <1>2, <1>3, Zenon
<1>5. acked <= acked'
  BY <1>1, <1>2
<1> QED
  BY Zenon, <1>1, <1>4, <1>5, SendTcpAckKeeps

\* connection_teardown of the connection as it is, from outside its handlers.
LEMMA PlainTeardownKeeps ==
  ASSUME IndInv, conn.state # "NONE", NEW b \in BOOLEAN, connection_teardown(conn, got, b),
         UNCHANGED <<toHost, dev, sent, acked>>
  PROVE  IndInv'
<1> USE DEF IndInv
<1>1. /\ conn \in Connection /\ got \in Nat /\ acked \in Nat /\ toHost \in Seq(Segment)
  BY Zenon DEF TypeOK
<1>2. conn.tx_seq \in 0..(SeqMod - 1) /\ conn.tx_ack \in 0..(SeqMod - 1) /\ conn.ib_size \in Nat
  BY Zenon, <1>1 DEF Connection
<1>3. got + conn.ib_size <= dev.nxt /\ got <= got /\ acked <= dev.rcv
  BY <1>1 DEF DownInv, WindowInv
<1> QED
  BY Zenon, <1>1, <1>2, <1>3, TeardownKeeps

\* process_send opens the client's side and touches nothing else.
LEMMA ProcessSendKeeps ==
  ASSUME IndInv, process_send
  PROVE  IndInv'
<1> USE DEF IndInv, process_send
<1>1. TypeOK'
  BY Zenon DEF TypeOK, ClientStates
<1>2. InFlight(toHost, got + conn.ib_size, acked)' = InFlight(toHost, got + conn.ib_size, acked)
  BY SMTT(40) DEF InFlight, DevEdge
<1>3. HandshakeInv' /\ UpdatedInv' /\ AckInv'
  BY Zenon DEF HandshakeInv, UpdatedInv, AckInv
<1>4. DownInv'
  BY Zenon, <1>2 DEF DownInv
<1>5. UpInv' /\ WindowInv'
  BY Zenon DEF UpInv, WindowInv, DevEdge
<1> QED
  BY Zenon, <1>1, <1>3, <1>4, <1>5

\* Doing nothing.
LEMMA StutterKeeps ==
  ASSUME IndInv, UNCHANGED vars
  PROVE  IndInv'
<1> USE DEF IndInv, vars
<1>1. TypeOK'
  BY Zenon DEF TypeOK
<1>2. InFlight(toHost, got + conn.ib_size, acked)' = InFlight(toHost, got + conn.ib_size, acked)
  BY SMTT(40) DEF InFlight, DevEdge
<1>3. HandshakeInv' /\ UpdatedInv' /\ AckInv'
  BY Zenon DEF HandshakeInv, UpdatedInv, AckInv
<1>4. DownInv'
  BY Zenon, <1>2 DEF DownInv
<1>5. UpInv' /\ WindowInv'
  BY Zenon DEF UpInv, WindowInv, DevEdge
<1> QED
  BY Zenon, <1>1, <1>3, <1>4, <1>5

\* device_remove: whatever was on the cable is lost and the device is gone.
LEMMA RemoveKeeps ==
  ASSUME IndInv, device_remove
  PROVE  IndInv'
<1> USE DEF IndInv
<1>1. /\ dev' = [dev EXCEPT !.state = "GONE"] /\ toDev' = <<>> /\ toHost' = <<>>
      /\ sent' = sent /\ acked' = acked
      /\ \/ conn.state = "NONE" /\ conn' = conn /\ cstate' = cstate /\ got' = got
         \/ conn.state # "NONE" /\ TeardownClient(conn, got, FALSE)
  BY Zenon DEF device_remove
<1>2. /\ conn \in Connection /\ conn.ib_size \in Nat /\ cstate \in ClientStates
      /\ {sent, got, acked} \subseteq Nat /\ dev \in Device
  BY Zenon DEF TypeOK, Connection
<1>3. /\ dev' \in Device /\ dev'.state = "GONE" /\ dev'.nxt = dev.nxt /\ dev'.rcv = dev.rcv
      /\ dev'.una = dev.una /\ dev'.buf = dev.buf /\ DevEdge' = DevEdge
      /\ dev.nxt \in Nat /\ dev.una \in Nat
  BY Zenon, <1>1, <1>2 DEF Device, DevEdge
<1>4. /\ conn' \in Connection /\ conn'.state = "NONE" /\ cstate' \in ClientStates
      /\ got' \in Nat /\ got <= got' /\ got' <= dev.nxt
  <2>1. got <= dev.nxt /\ (conn.state # "NONE" => got + conn.ib_size <= dev.nxt)
    BY Zenon DEF DownInv
  <2>2. CASE conn.state = "NONE" /\ conn' = conn /\ cstate' = cstate /\ got' = got
    BY <2>1, <2>2, <1>2, <1>3
  <2>3. CASE conn.state # "NONE" /\ TeardownClient(conn, got, FALSE)
    <3>1. conn' \in Connection /\ conn'.state = "NONE"
      BY Zenon, <2>3, ZeroedConnection DEF TeardownClient
    <3>2. cstate' \in ClientStates
      BY Zenon, <2>3 DEF TeardownClient, ClientStates
    <3>3. got' \in Nat /\ got <= got' /\ got' <= got + conn.ib_size
      BY <2>3, <1>2 DEF TeardownClient
    <3> QED
      BY SMTT(40), <2>1, <2>3, <1>2, <1>3, <3>1, <3>2, <3>3
  <2> QED
    BY Zenon, <1>1, <2>2, <2>3
<1>5. /\ <<>> \in Seq(Segment) /\ DOMAIN toDev' = {}
  BY <1>1
<1>6. TypeOK'
  BY Zenon, <1>1, <1>2, <1>3, <1>4, <1>5 DEF TypeOK
<1>7. HandshakeInv'
  BY Zenon, <1>3, <1>4, <1>5 DEF HandshakeInv
<1>8. UpdatedInv' /\ WindowInv'
  BY Zenon, <1>1, <1>3, <1>4 DEF UpdatedInv, WindowInv
<1>9. DownInv'
  BY SMTT(40), <1>2, <1>3, <1>4 DEF DownInv
<1>10. AckInv'
  BY Zenon, <1>5 DEF AckInv
<1>11. UpInv'
  BY Zenon, <1>1, <1>3 DEF UpInv
<1> QED
  BY Zenon, <1>6, <1>7, <1>8, <1>9, <1>10, <1>11

-----------------------------------------------------------------------------
(* The actions of the device.                                                *)

\* A segment in flight stays a good one while the device's edge and its
\* receive offset grow.
LEMMA GrowthInFlight ==
  ASSUME NEW q \in Seq(Segment), NEW base, NEW a, InFlight(q, base, a),
         dev \in Device, dev' \in Device, dev'.nxt = dev.nxt, dev.rcv <= dev'.rcv,
         DevEdge \in Nat, DevEdge' \in Nat, DevEdge <= DevEdge'
  PROVE  /\ IF q = <<>> THEN base = dev'.nxt ELSE q[1].pos = base
         /\ \A i \in DOMAIN q :
              /\ q[i].pos + q[i].len <= dev'.nxt
              /\ q[i].pos + q[i].len = IF i = Len(q) THEN dev'.nxt ELSE q[i + 1].pos
              /\ q[i].flags = "SYNACK" => q[i].seq = 0
              /\ q[i].ack = (1 + q[i].apos) % SeqMod
              /\ a <= q[i].apos
              /\ q[i].apos <= dev'.rcv
              /\ q[i].apos + q[i].win * WinUnit <= DevEdge'
              /\ q[i].win * WinUnit <= DevBuf
         /\ \A i \in DOMAIN q : \A j \in DOMAIN q : i <= j => q[i].apos <= q[j].apos
<1>1. dev.rcv \in Nat /\ dev'.rcv \in Nat
  BY Zenon DEF Device
<1>2. \A i \in DOMAIN q : q[i].apos \in Nat /\ q[i].win * WinUnit \in Nat
  <2>1. ASSUME NEW i \in DOMAIN q PROVE q[i].apos \in Nat /\ q[i].win * WinUnit \in Nat
    <3>1. q[i] \in Segment OBVIOUS
    <3>2. q[i].apos \in Nat /\ q[i].win \in Nat BY Zenon, <3>1 DEF Segment
    <3> QED BY <3>2, ConstantTypes
  <2> QED BY Zenon, <2>1
<1>3. ASSUME NEW i \in DOMAIN q
      PROVE  q[i].apos <= dev'.rcv /\ q[i].apos + q[i].win * WinUnit <= DevEdge'
  <2>1. q[i].apos <= dev.rcv /\ q[i].apos + q[i].win * WinUnit <= DevEdge
    BY Zenon DEF InFlight
  <2>2. PICK x \in Nat : x = q[i].win * WinUnit
    BY Zenon, <1>2
  <2>3. q[i].apos \in Nat
    BY Zenon, <1>2
  <2>4. q[i].apos + x <= DevEdge
    BY Zenon, <2>1, <2>2
  <2>5. q[i].apos + x <= DevEdge'
    BY <2>3, <2>4, <2>2
  <2> QED
    BY SMTT(40), <1>1, <2>1, <2>2, <2>3, <2>5
<1> QED
  BY <1>3, Zenon DEF InFlight

\* What a step of the device that sends nothing leaves true.
LEMMA DevStepKeeps ==
  ASSUME IndInv, conn' = conn, cstate' = cstate, toHost' = toHost,
         sent' = sent, got' = got, acked' = acked,
         dev' \in Device, dev'.nxt = dev.nxt, dev.rcv <= dev'.rcv,
         dev.una <= dev'.una, dev'.una <= got,
         DevEdge' \in Nat, DevEdge <= DevEdge',
         toDev' \in Seq(Segment), HandshakeInv', AckInv', UpInv'
  PROVE  IndInv'
<1> USE DEF IndInv
<1>1. /\ dev \in Device /\ toHost \in Seq(Segment) /\ {sent, got, acked} \subseteq Nat
      /\ conn \in Connection
  BY Zenon DEF TypeOK
<1>2. /\ {dev.nxt, dev.rcv, dev.una, dev.buf} \subseteq Nat
      /\ {dev'.nxt, dev'.rcv, dev'.una} \subseteq Nat
  BY Zenon, <1>1 DEF Device
<1>3. DevEdge \in Nat
  BY SMTT(40), <1>2, ConstantTypes, SMTT(30) DEF UpInv, DevEdge
<1>4. TypeOK'
  BY Zenon, <1>1 DEF TypeOK
<1>5. UpdatedInv'
  BY Zenon DEF UpdatedInv
<1>6. WindowInv'
  <2>1. acked <= dev.rcv
    BY Zenon DEF WindowInv
  <2>2. acked' <= dev'.rcv
    BY SMTT(40), <1>1, <1>2, <2>1
  <2>3. ASSUME conn.state = "CONNECTED"
        PROVE  /\ conn.tx_seq = (1 + sent) % SeqMod /\ conn.rx_ack = (1 + acked) % SeqMod
               /\ acked + conn.rx_win <= DevEdge' /\ conn.rx_win <= DevBuf
               /\ sent <= acked + DevBuf
    <3>1. conn.rx_win \in Nat
      BY Zenon, <1>1 DEF Connection
    <3>2. acked + conn.rx_win <= DevEdge
      BY Zenon, <2>3 DEF WindowInv
    <3> QED
      BY SMTT(40), <1>1, <1>3, <2>3, <3>1, <3>2 DEF WindowInv
  <2> QED
    BY Zenon, <2>2, <2>3 DEF WindowInv
<1>7. DownInv'
  <2>1. dev'.una <= got' /\ got' <= dev'.nxt /\ dev'.nxt <= dev'.una + RecvWin
    <3>1. got <= dev.nxt /\ dev.nxt <= dev.una + RecvWin
      BY Zenon DEF DownInv
    <3> QED
      BY SMTT(40), <3>1, <1>1, <1>2, ConstantTypes, SMTT(30)
  <2>2. ASSUME conn.state # "NONE"
        PROVE  got' + conn'.ib_size <= dev'.nxt /\ InFlight(toHost, got + conn.ib_size, acked)'
    <3> DEFINE base == got + conn.ib_size
    <3>1. base <= dev.nxt /\ InFlight(toHost, base, acked)
      BY Zenon, <2>2 DEF DownInv
    <3>2. base' = base
      BY Zenon
    <3> HIDE DEF base
    <3>3. InFlight(toHost, base, acked)'
      BY ZenonT(40), <1>1, <1>3, <3>1, <3>2, GrowthInFlight DEF InFlight
    <3> QED
      BY Zenon, <3>1, <3>3 DEF base
  <2>3. conn.state = "CONNECTED" => /\ conn.tx_ack = (1 + got) % SeqMod
                                    /\ conn.rx_recvd = (got + conn.ib_size) % SeqMod
    BY Zenon DEF DownInv
  <2> QED
    BY Zenon, <2>1, <2>2, <2>3 DEF DownInv
<1> QED
  BY Zenon, <1>4, <1>5, <1>6, <1>7

\* The service reads: the edge moves up.
LEMMA DevReadKeeps ==
  ASSUME IndInv, DevRead
  PROVE  IndInv'
<1> USE DEF IndInv
<1>1. PICK n \in 1..dev.buf : dev' = [dev EXCEPT !.buf = @ - n]
  BY Zenon DEF DevRead
<1>2. /\ dev.state = "OPEN" /\ conn' = conn /\ cstate' = cstate /\ toDev' = toDev
      /\ toHost' = toHost /\ sent' = sent /\ got' = got /\ acked' = acked
  BY Zenon DEF DevRead
<1>3. dev \in Device /\ {dev.nxt, dev.rcv, dev.una, dev.buf} \subseteq Nat /\ toDev \in Seq(Segment)
      /\ {sent, got} \subseteq Nat
  BY Zenon DEF TypeOK, Device
<1>4. PICK m \in Nat : m = dev.buf - n
  BY <1>3
<1>5. dev' = [dev EXCEPT !.buf = m]
  BY Zenon, <1>1, <1>4
<1>6. /\ dev' \in Device /\ dev'.state = dev.state /\ dev'.nxt = dev.nxt /\ dev'.rcv = dev.rcv
      /\ dev'.una = dev.una /\ dev'.buf = m /\ dev'.win = dev.win
  BY Zenon, <1>3, <1>5 DEF Device
<1>7. m <= dev.buf /\ dev.buf <= DevBuf
  BY <1>1, <1>3, <1>4 DEF UpInv
<1>8. DevEdge' \in Nat /\ DevEdge <= DevEdge'
  BY SMTT(40), <1>3, <1>6, <1>7, ConstantTypes, SMTT(30) DEF DevEdge
<1>9. HandshakeInv'
  BY Zenon, <1>2, <1>6 DEF HandshakeInv
<1>10. AckInv'
  BY Zenon, <1>2, <1>6 DEF AckInv
<1>11. UpInv'
  <2>1. dev'.buf <= DevBuf /\ dev'.rcv <= sent' /\ sent' <= DevEdge'
    <3>1. dev.rcv <= sent /\ sent <= DevEdge /\ DevEdge \in Int
      BY SMTT(40), <1>3, ConstantTypes DEF UpInv, DevEdge
    <3> QED
      BY SMTT(40), <1>2, <1>3, <1>6, <1>7, <1>8, <3>1, ConstantTypes
  <2> QED
    BY Zenon, <1>2, <1>6, <2>1 DEF UpInv
<1>12. dev.una <= dev'.una /\ dev'.una <= got /\ dev.rcv <= dev'.rcv /\ toDev' \in Seq(Segment)
  BY <1>2, <1>3, <1>6 DEF DownInv
<1> QED
  BY Zenon, <1>2, <1>6, <1>8, <1>9, <1>10, <1>11, <1>12, DevStepKeeps

\* The segment that the device handles next.
LEMMA HeadFacts ==
  ASSUME IndInv, toDev # <<>>, NEW th, th = Head(toDev)
  PROVE  /\ th \in Segment /\ th = toDev[1] /\ 1 \in DOMAIN toDev
         /\ {th.len, th.apos, th.win} \subseteq Nat /\ th.ack \in 0..(SeqMod - 1)
         /\ th.flags # "RST" => th.win = RecvWin \div WinUnit
         /\ th.flags = "ACK" => /\ th.ack = (1 + th.apos) % SeqMod
                                /\ dev.una <= th.apos /\ th.apos <= got
         /\ dev.state \in {"LISTEN", "SYNRCVD", "OPEN"} =>
              /\ th.pos = dev.rcv
              /\ dev.rcv + th.len <= sent
              /\ th.flags = "ACK" => th.seq = (1 + dev.rcv) % SeqMod
              /\ th.flags # "ACK" => th.len = 0
<1> USE DEF IndInv
<1>1. toDev \in Seq(Segment)
  BY Zenon DEF TypeOK
<1>2. th = toDev[1] /\ th \in Segment /\ 1 \in DOMAIN toDev
  BY <1>1, TailElements
<1>3. {th.len, th.apos, th.win} \subseteq Nat /\ th.ack \in 0..(SeqMod - 1)
  BY Zenon, <1>2, SegmentFields
<1>4. /\ th.flags # "RST" => th.win = RecvWin \div WinUnit
      /\ th.flags = "ACK" => /\ th.ack = (1 + th.apos) % SeqMod
                             /\ dev.una <= th.apos /\ th.apos <= got
  BY Zenon, <1>2 DEF AckInv
<1>5. dev.state \in {"LISTEN", "SYNRCVD", "OPEN"} =>
              /\ th.pos = dev.rcv
              /\ th.pos + th.len <= sent
              /\ th.flags = "ACK" => th.seq = (1 + th.pos) % SeqMod
              /\ th.flags # "ACK" => th.len = 0
  BY <1>2, Zenon DEF UpInv
<1>6. dev.state \in {"LISTEN", "SYNRCVD", "OPEN"} =>
              /\ th.pos = dev.rcv
              /\ dev.rcv + th.len <= sent
              /\ th.flags = "ACK" => th.seq = (1 + dev.rcv) % SeqMod
              /\ th.flags # "ACK" => th.len = 0
  BY <1>5, Zenon
<1> QED
  BY <1>2, <1>3, <1>4, <1>6, Zenon

\* Behind the first segment there is no SYN, and no ACK either while the host
\* is still connecting.
LEMMA TailFlags ==
  ASSUME IndInv, toDev # <<>>, toDev' = Tail(toDev)
  PROVE  /\ toDev' \in Seq(Segment)
         /\ \A i \in DOMAIN toDev' : toDev'[i].flags # "SYN"
         /\ conn.state = "CONNECTING" => \A i \in DOMAIN toDev' : toDev'[i].flags # "ACK"
<1> USE DEF IndInv
<1>1. toDev \in Seq(Segment)
  BY Zenon DEF TypeOK
<1>2. /\ toDev' \in Seq(Segment) /\ Len(toDev) \in Nat
      /\ DOMAIN toDev' = 1..(Len(toDev) - 1) /\ DOMAIN toDev = 1..Len(toDev)
      /\ \A i \in DOMAIN toDev' : toDev'[i] = toDev[i + 1]
  BY Zenon, <1>1, TailElements
<1>3. ASSUME NEW i \in DOMAIN toDev'
      PROVE  i + 1 \in DOMAIN toDev /\ i + 1 # 1 /\ toDev'[i] = toDev[i + 1]
  BY <1>2
<1>4. ASSUME NEW i \in DOMAIN toDev' PROVE toDev'[i].flags # "SYN"
  BY Zenon, <1>3 DEF HandshakeInv
<1>5. ASSUME conn.state = "CONNECTING", NEW i \in DOMAIN toDev' PROVE toDev'[i].flags # "ACK"
  BY SMTT(40), <1>3, <1>5 DEF HandshakeInv
<1> QED
  BY Zenon, <1>2, <1>4, <1>5

\* The acknowledgements behind the first segment.
LEMMA TailKeepsAckInv ==
  ASSUME IndInv, toDev # <<>>, toDev' = Tail(toDev), got' = got,
         \/ dev'.una = dev.una
         \/ Head(toDev).flags = "ACK" /\ dev'.una = Head(toDev).apos
  PROVE  AckInv'
<1> USE DEF IndInv
<1>1. toDev \in Seq(Segment)
  BY Zenon DEF TypeOK
<1>2. /\ Len(toDev) \in Nat \ {0}
      /\ DOMAIN toDev' = 1..(Len(toDev) - 1) /\ DOMAIN toDev = 1..Len(toDev)
      /\ \A i \in DOMAIN toDev' : toDev'[i] = toDev[i + 1]
      /\ Head(toDev) = toDev[1]
  BY Zenon, <1>1, TailElements
<1>3. ASSUME NEW i \in DOMAIN toDev'
      PROVE  i + 1 \in DOMAIN toDev /\ 1 \in DOMAIN toDev /\ 1 <= i + 1 /\ toDev'[i] = toDev[i + 1]
  BY <1>2
<1>4. ASSUME NEW i \in DOMAIN toDev', toDev'[i].flags = "ACK"
      PROVE  /\ toDev'[i].ack = (1 + toDev'[i].apos) % SeqMod
             /\ dev'.una <= toDev'[i].apos
             /\ toDev'[i].apos <= got'
  <2>1. i + 1 \in DOMAIN toDev /\ 1 \in DOMAIN toDev /\ 1 <= i + 1 /\ toDev'[i] = toDev[i + 1]
    BY Zenon, <1>3
  <2>2. /\ toDev[i + 1].ack = (1 + toDev[i + 1].apos) % SeqMod
        /\ dev.una <= toDev[i + 1].apos /\ toDev[i + 1].apos <= got
    BY SMTT(40), <1>4, <2>1 DEF AckInv
  <2>3. toDev[1].flags = "ACK" => toDev[1].apos <= toDev[i + 1].apos
    BY SMTT(40), <1>4, <2>1 DEF AckInv
  <2> QED
    BY <1>2, <2>1, <2>2, <2>3, Zenon
<1>5. ASSUME NEW i \in DOMAIN toDev', NEW j \in DOMAIN toDev', i <= j,
             toDev'[i].flags = "ACK", toDev'[j].flags = "ACK"
      PROVE  toDev'[i].apos <= toDev'[j].apos
  <2>1. i + 1 <= j + 1
    BY SMTT(40), <1>2, <1>5
  <2> QED
    BY SMTT(40), <1>3, <1>5, <2>1 DEF AckInv
<1>6. ASSUME NEW i \in DOMAIN toDev', toDev'[i].flags # "RST"
      PROVE  toDev'[i].win = RecvWin \div WinUnit
  BY <1>3, <1>6 DEF AckInv
<1> QED
  BY <1>4, <1>5, <1>6, Zenon DEF AckInv

\* The client's stream behind the first segment.
LEMMA TailKeepsUpInv ==
  ASSUME IndInv, toDev # <<>>, toDev' = Tail(toDev), sent' = sent,
         dev.state \in {"LISTEN", "SYNRCVD", "OPEN"},
         dev'.buf <= DevBuf, dev'.rcv = dev.rcv + Head(toDev).len, DevEdge' = DevEdge
  PROVE  UpInv'
<1> USE DEF IndInv
<1> DEFINE n == Len(toDev)
<1>1. toDev \in Seq(Segment) /\ sent \in Nat
  BY Zenon DEF TypeOK
<1>2. /\ n \in Nat \ {0} /\ Len(toDev') = n - 1
      /\ DOMAIN toDev' = 1..(n - 1) /\ DOMAIN toDev = 1..n
      /\ \A i \in DOMAIN toDev' : toDev'[i] = toDev[i + 1]
      /\ Head(toDev) = toDev[1] /\ (toDev' = <<>> <=> n = 1)
  BY Zenon, <1>1, TailElements
<1>3. /\ toDev[1].pos = dev.rcv
      /\ \A i \in 1..n :
           /\ toDev[i].pos + toDev[i].len <= sent
           /\ toDev[i].pos + toDev[i].len = IF i = n THEN sent ELSE toDev[i + 1].pos
           /\ toDev[i].flags = "ACK" => toDev[i].seq = (1 + toDev[i].pos) % SeqMod
           /\ toDev[i].flags # "ACK" => toDev[i].len = 0
  BY Zenon, <1>2 DEF UpInv
<1> HIDE DEF n
<1>4. 1 \in 1..n /\ \A i \in 1..(n - 1) : i + 1 \in 1..n
  BY SMTT(40), <1>2
<1>5. dev'.rcv <= sent' /\ sent' <= DevEdge'
  BY SMTT(40), <1>2, <1>3, <1>4 DEF UpInv
<1>6. IF toDev' = <<>> THEN dev'.rcv = sent' ELSE toDev'[1].pos = dev'.rcv
  <2>1. CASE n = 1
    BY SMTT(40), <2>1, <1>2, <1>3, <1>4
  <2>2. CASE n # 1
    <3>1. 1 \in 1..(n - 1) BY <2>2, <1>2
    <3>2. toDev'[1] = toDev[1 + 1] BY Zenon, <3>1, <1>2
    <3> QED BY SMTT(40), <2>2, <1>2, <1>3, <1>4, <3>2
  <2> QED
    BY Zenon, <2>1, <2>2
<1>7. ASSUME NEW i \in DOMAIN toDev'
      PROVE  /\ toDev'[i].pos + toDev'[i].len <= sent'
             /\ toDev'[i].pos + toDev'[i].len =
                  IF i = Len(toDev') THEN sent' ELSE toDev'[i + 1].pos
             /\ toDev'[i].flags = "ACK" => toDev'[i].seq = (1 + toDev'[i].pos) % SeqMod
             /\ toDev'[i].flags # "ACK" => toDev'[i].len = 0
  <2>1. i \in 1..(n - 1) /\ i + 1 \in 1..n /\ toDev'[i] = toDev[i + 1]
    BY Zenon, <1>2, <1>4
  <2>2. toDev'[i].pos + toDev'[i].len = IF i = Len(toDev') THEN sent' ELSE toDev'[i + 1].pos
    <3>1. CASE i = n - 1
      <4>1. i + 1 = n BY SMTT(40), <3>1, <1>2
      <4> QED BY SMTT(40), <3>1, <4>1, <2>1, <1>2, <1>3
    <3>2. CASE i # n - 1
      <4>1. i + 1 \in 1..(n - 1) /\ i + 1 # n BY SMTT(40), <3>2, <2>1, <1>2
      <4>2. toDev'[i + 1] = toDev[(i + 1) + 1] BY Zenon, <4>1, <1>2
      <4> QED BY Zenon, <3>2, <4>1, <4>2, <2>1, <1>2, <1>3
    <3> QED
      BY Zenon, <3>1, <3>2
  <2> QED
    BY Zenon, <2>1, <2>2, <1>3
<1> QED
  BY <1>5, <1>6, <1>7, Zenon DEF UpInv

\* The device handles a segment: an ACK moves its offsets, an RST closes it.
LEMMA DevReceiveKeeps ==
  ASSUME IndInv, DevReceive
  PROVE  IndInv'
<1> DEFINE th == Head(toDev)
<1>1. /\ toDev # <<>> /\ toDev' = Tail(toDev) /\ conn' = conn /\ cstate' = cstate
      /\ toHost' = toHost /\ sent' = sent /\ got' = got /\ acked' = acked
  BY Zenon DEF DevReceive
<1>2. /\ dev \in Device /\ {dev.nxt, dev.rcv, dev.una, dev.buf} \subseteq Nat
      /\ {sent, got, acked} \subseteq Nat
  BY Zenon DEF IndInv, TypeOK, Device
<1>3. /\ dev.una <= got /\ got <= dev.nxt /\ dev.nxt <= dev.una + RecvWin
      /\ dev.buf <= DevBuf /\ sent <= DevEdge /\ dev.rcv <= sent
  BY Zenon DEF IndInv, DownInv, UpInv
<1>4. /\ toDev' \in Seq(Segment)
      /\ \A i \in DOMAIN toDev' : toDev'[i].flags # "SYN"
      /\ conn.state = "CONNECTING" => \A i \in DOMAIN toDev' : toDev'[i].flags # "ACK"
  BY Zenon, <1>1, TailFlags
<1>5. /\ th \in Segment /\ th = toDev[1] /\ 1 \in DOMAIN toDev
      /\ {th.len, th.apos, th.win} \subseteq Nat /\ th.ack \in 0..(SeqMod - 1)
      /\ th.flags # "RST" => th.win = RecvWin \div WinUnit
      /\ th.flags = "ACK" => /\ th.ack = (1 + th.apos) % SeqMod
                             /\ dev.una <= th.apos /\ th.apos <= got
      /\ dev.state \in {"LISTEN", "SYNRCVD", "OPEN"} => dev.rcv + th.len <= sent
  BY Zenon, <1>1, HeadFacts
<1>6. DevEdge \in Nat
  BY SMTT(40), <1>2, <1>3, ConstantTypes DEF DevEdge
<1>7. CASE /\ dev.state \in {"SYNRCVD", "OPEN"}
           /\ th.flags = "ACK"
           /\ dev' = [dev EXCEPT !.state = "OPEN", !.rcv = @ + th.len, !.buf = @ + th.len,
                                 !.una = @ + ((th.ack - (1 + @)) % SeqMod),
                                 !.win = th.win * WinUnit]
  <2>1. dev.una + ((th.ack - (1 + dev.una)) % SeqMod) = th.apos
    <3>1. /\ 1 + th.apos \in Int /\ 1 + dev.una \in Int /\ 1 + dev.una <= 1 + th.apos
          /\ (1 + th.apos) - (1 + dev.una) < SeqMod
          /\ dev.una + ((1 + th.apos) - (1 + dev.una)) = th.apos
      <4>1. th.apos \in Nat /\ dev.una <= th.apos /\ th.apos <= got
        BY Zenon, <1>5, <1>7
      <4>2. PICK x \in Nat : x = th.apos
        BY Zenon, <4>1
      <4>3. dev.una <= x /\ x < dev.una + SeqMod
        BY SMTT(40), <1>2, <1>3, <4>1, <4>2, ConstantTypes
      <4>4. /\ 1 + x \in Int /\ 1 + dev.una \in Int /\ 1 + dev.una <= 1 + x
            /\ (1 + x) - (1 + dev.una) < SeqMod
            /\ dev.una + ((1 + x) - (1 + dev.una)) = x
        BY SMTT(40), <1>2, <4>2, <4>3, ConstantTypes
      <4> QED
        BY <4>2, <4>4, Zenon
    <3>2. (((1 + th.apos) % SeqMod) - (1 + dev.una)) % SeqMod = (1 + th.apos) - (1 + dev.una)
      BY <3>1, ConstantTypes, ModSubLeft
    <3> QED
      BY <1>5, <1>7, <3>1, <3>2, Zenon
  <2>2. th.win * WinUnit = RecvWin
    <3>1. th.win = RecvWin \div WinUnit
      BY Zenon, <1>5, <1>7
    <3> QED
      BY <3>1, AdvertisedWindow, Zenon
  <2>3. PICK r \in Nat, b \in Nat, u \in Nat :
          r = dev.rcv + th.len /\ b = dev.buf + th.len /\ u = th.apos
    BY SMTT(40), <1>2, <1>5
  <2>4. dev' = [dev EXCEPT !.state = "OPEN", !.rcv = r, !.buf = b, !.una = u, !.win = RecvWin]
    BY Zenon, <1>7, <2>1, <2>2, <2>3
  <2>5. /\ dev' \in Device /\ dev'.state = "OPEN" /\ dev'.nxt = dev.nxt
        /\ dev'.rcv = r /\ dev'.buf = b /\ dev'.una = u /\ dev'.win = RecvWin
    BY Zenon, <1>2, <2>3, <2>4, ConstantTypes DEF Device
  <2>6. DevEdge' = DevEdge
    BY <1>2, <1>5, <2>3, <2>5, ConstantTypes DEF DevEdge
  <2>7. dev'.buf <= DevBuf
    BY SMTT(40), <1>2, <1>3, <1>5, <1>7, <2>3, <2>5, ConstantTypes DEF DevEdge
  <2>8. dev.rcv <= dev'.rcv /\ dev.una <= dev'.una /\ dev'.una <= got
        /\ DevEdge' \in Nat /\ DevEdge <= DevEdge'
    BY SMTT(40), <1>2, <1>5, <1>6, <1>7, <2>3, <2>5, <2>6
  <2>9. UpInv'
    BY SMTT(40), <1>1, <1>7, <2>3, <2>5, <2>6, <2>7, TailKeepsUpInv
  <2>10. AckInv'
    BY SMTT(40), <1>1, <1>7, <2>3, <2>5, TailKeepsAckInv
  <2>11. HandshakeInv'
    <3>1. conn.state # "CONNECTING"
      BY SMTT(40), <1>5, <1>7 DEF IndInv, HandshakeInv
    <3> QED
      BY <1>1, <1>4, <2>5, <3>1 DEF HandshakeInv
  <2> QED
    BY SMTT(40), <1>1, <1>4, <2>5, <2>8, <2>9, <2>10, <2>11, DevStepKeeps
<1>8. CASE \/ th.flags = "RST" /\ dev' = [dev EXCEPT !.state = "CLOSED"]
           \/ dev.state = "CLOSED" /\ dev' = dev
  <2>1. /\ dev' \in Device /\ dev'.state = "CLOSED" /\ dev'.nxt = dev.nxt
        /\ dev'.rcv = dev.rcv /\ dev'.buf = dev.buf /\ dev'.una = dev.una
    BY Zenon, <1>2, <1>8 DEF Device
  <2>2. DevEdge' = DevEdge
    BY Zenon, <2>1 DEF DevEdge
  <2>3. UpInv'
    BY SMTT(40), <1>1, <1>3, <2>1, <2>2 DEF UpInv
  <2>4. AckInv'
    BY Zenon, <1>1, <2>1, TailKeepsAckInv
  <2>5. HandshakeInv'
    BY SMTT(40), <1>1, <1>4, <2>1 DEF IndInv, HandshakeInv
  <2>6. dev.rcv <= dev'.rcv /\ dev.una <= dev'.una /\ dev'.una <= got
        /\ DevEdge' \in Nat /\ DevEdge <= DevEdge'
    BY SMTT(40), <1>2, <1>3, <1>6, <2>1, <2>2
  <2> QED
    BY SMTT(40), <1>1, <1>4, <2>1, <2>3, <2>4, <2>5, <2>6, DevStepKeeps
<1> QED
  BY <1>7, <1>8, Zenon DEF DevReceive

\* A segment that the device appends carries its current offsets.
LEMMA DevSegmentFacts ==
  ASSUME dev \in Device, dev.buf <= DevBuf, NEW f \in Flags, NEW n \in Nat,
         NEW seg, seg = DevSegment(dev, f, n)
  PROVE  /\ seg \in Segment /\ seg.flags = f /\ seg.len = n
         /\ seg.pos = dev.nxt /\ seg.apos = dev.rcv
         /\ seg.ack = (1 + dev.rcv) % SeqMod
         /\ seg.win * WinUnit \in Nat /\ seg.win * WinUnit <= DevBuf - dev.buf
<1>1. dev.nxt \in Nat /\ dev.rcv \in Nat /\ dev.buf \in Nat
  BY Zenon DEF Device
<1>2. DevBuf - dev.buf \in Nat
  BY <1>1, ConstantTypes
<1>3. /\ DevWin(dev.buf) \in Nat /\ DevWin(dev.buf) * WinUnit \in Nat
      /\ DevWin(dev.buf) * WinUnit <= DevBuf - dev.buf
  BY Zenon, <1>2, ConstantTypes, UnitRounding DEF DevWin
<1>4. (1 + dev.nxt) % SeqMod \in 0..(SeqMod - 1) /\ (1 + dev.rcv) % SeqMod \in 0..(SeqMod - 1)
  <2>1. 1 + dev.nxt \in Int /\ 1 + dev.rcv \in Int BY <1>1
  <2> QED BY Zenon, <2>1, ConstantTypes, ModRange
<1>5. PICK x \in 0..(SeqMod - 1), y \in 0..(SeqMod - 1), w \in Nat :
        x = (1 + dev.nxt) % SeqMod /\ y = (1 + dev.rcv) % SeqMod /\ w = DevWin(dev.buf)
  BY Zenon, <1>3, <1>4
<1>6. seg = [flags |-> f, seq |-> x, ack |-> y, win |-> w, len |-> n,
             pos |-> dev.nxt, apos |-> dev.rcv]
  BY Zenon, <1>5 DEF DevSegment
<1>7. /\ seg \in Segment /\ seg.flags = f /\ seg.len = n
      /\ seg.pos = dev.nxt /\ seg.apos = dev.rcv /\ seg.ack = y /\ seg.win = w
  BY SMTT(40), <1>1, <1>5, <1>6 DEF Segment
<1>8. w * WinUnit \in Nat /\ w * WinUnit <= DevBuf - dev.buf
  BY Zenon, <1>3, <1>5
<1> QED
  BY Zenon, <1>5, <1>7, <1>8

\* The segments in flight with one more at the end.
LEMMA AppendToHost ==
  ASSUME toHost \in Seq(Segment), got + conn.ib_size \in Nat, acked \in Nat,
         InFlight(toHost, got + conn.ib_size, acked),
         got' = got, conn' = conn, acked' = acked,
         NEW seg \in Segment, toHost' = Append(toHost, seg),
         dev \in Device, dev' \in Device, seg.pos = dev.nxt, dev'.nxt = dev.nxt + seg.len,
         dev'.rcv = dev.rcv, DevEdge' = DevEdge, seg.flags = "SYNACK" => seg.seq = 0,
         seg.apos = dev.rcv, seg.ack = (1 + dev.rcv) % SeqMod,
         seg.apos + seg.win * WinUnit <= DevEdge, seg.win * WinUnit <= DevBuf,
         acked <= dev.rcv
  PROVE  InFlight(toHost, got + conn.ib_size, acked)'
<1> DEFINE q == toHost
           q2 == toHost'
           base == got + conn.ib_size
           a == acked
           n == Len(q)
<1>0. /\ q \in Seq(Segment) /\ q2 = Append(q, seg) /\ InFlight(q, base, a)
      /\ base' = base /\ a' = a /\ a <= dev.rcv
  BY Zenon
<1> HIDE DEF q, q2, base, a
<1>1. /\ n \in Nat /\ Len(q2) = n + 1 /\ DOMAIN q2 = 1..(n + 1) /\ DOMAIN q = 1..n
      /\ q2 # <<>> /\ q2[n + 1] = seg
      /\ \A i \in 1..n : q2[i] = q[i] /\ q[i] \in Segment
  BY <1>0, AppendElements, SMTT(30)
<1>2. /\ IF q = <<>> THEN base = dev.nxt ELSE q[1].pos = base
      /\ \A i \in 1..n :
           /\ q[i].pos + q[i].len <= dev.nxt
           /\ q[i].pos + q[i].len = IF i = n THEN dev.nxt ELSE q[i + 1].pos
           /\ q[i].flags = "SYNACK" => q[i].seq = 0
           /\ q[i].ack = (1 + q[i].apos) % SeqMod
           /\ a <= q[i].apos /\ q[i].apos <= dev.rcv
           /\ q[i].apos + q[i].win * WinUnit <= DevEdge
           /\ q[i].win * WinUnit <= DevBuf
      /\ \A i \in 1..n : \A j \in 1..n : i <= j => q[i].apos <= q[j].apos
  BY Zenon, <1>0, <1>1 DEF InFlight
<1>3. dev.nxt \in Nat /\ dev.rcv \in Nat /\ seg.len \in Nat
  BY Zenon DEF Device, Segment
<1>4. q2[1].pos = base
  <2>1. CASE q = <<>>
    <3>1. n + 1 = 1 BY <2>1
    <3> QED BY <3>1, <2>1, <1>1, <1>2, Zenon
  <2>2. CASE q # <<>>
    <3>1. 1 \in 1..n BY <2>2, <1>0, <1>1, SMTT(30)
    <3> QED BY <3>1, <2>2, <1>1, <1>2, Zenon
  <2> QED BY Zenon, <2>1, <2>2
<1> HIDE DEF n
<1>5. ASSUME NEW i \in 1..n
      PROVE  /\ q2[i].pos + q2[i].len <= dev'.nxt
             /\ q2[i].pos + q2[i].len = q2[i + 1].pos
  <2>1. q[i].pos \in Nat /\ q[i].len \in Nat
    BY Zenon, <1>1, SegmentFields
  <2>2. q2[i] = q[i] /\ q[i].pos + q[i].len <= dev.nxt
    BY Zenon, <1>1, <1>2
  <2>3. q2[i].pos + q2[i].len = q2[i + 1].pos
    <3>1. CASE i = n
      BY Zenon, <3>1, <1>1, <1>2
    <3>2. CASE i # n
      <4>1. i + 1 \in 1..n BY <3>2, <1>1, SMTT(30)
      <4> QED BY SMTT(40), <3>2, <4>1, <1>1, <1>2
    <3> QED BY Zenon, <3>1, <3>2
  <2>4. q[i].pos + q[i].len <= dev'.nxt
    <3>1. q[i].pos + q[i].len \in Int BY <2>1, SumOfNaturals, Zenon
    <3>2. dev.nxt \in Int /\ dev'.nxt \in Int /\ dev.nxt <= dev'.nxt BY <1>3
    <3> QED BY <2>2, <3>1, <3>2, LeqTransitive, Zenon
  <2> QED
    BY <2>2, <2>3, <2>4, Zenon
<1>6. \A i \in DOMAIN q2 : i \in 1..n \/ i = n + 1
  BY <1>1
<1>7. \A i \in 1..n : i # n + 1
  BY SMTT(40), <1>1
<1>8. ASSUME NEW i \in DOMAIN q2
      PROVE  /\ q2[i].flags = "SYNACK" => q2[i].seq = 0
             /\ q2[i].ack = (1 + q2[i].apos) % SeqMod
             /\ a <= q2[i].apos
             /\ q2[i].apos <= dev'.rcv
             /\ q2[i].apos + q2[i].win * WinUnit <= DevEdge'
             /\ q2[i].win * WinUnit <= DevBuf
  <2>1. CASE i \in 1..n
    BY <2>1, <1>1, <1>2, Zenon
  <2>2. CASE i = n + 1
    <3>1. q2[i] = seg
      BY <2>2, <1>1, Zenon
    <3>2. dev.rcv <= dev.rcv
      BY <1>3, LeqReflexive, Zenon
    <3>3. seg.apos <= dev'.rcv /\ a <= seg.apos
      BY <3>2, <1>0, Zenon
    <3> QED
      BY <3>1, <3>3, Zenon
  <2> QED
    BY Zenon, <1>6, <2>1, <2>2
<1>9. ASSUME NEW i \in DOMAIN q2
      PROVE  /\ q2[i].pos + q2[i].len <= dev'.nxt
             /\ q2[i].pos + q2[i].len = IF i = Len(q2) THEN dev'.nxt ELSE q2[i + 1].pos
  <2>1. CASE i \in 1..n
    BY SMTT(40), <2>1, <1>1, <1>5, <1>7
  <2>2. CASE i = n + 1
    BY SMTT(40), <2>2, <1>1, <1>3
  <2> QED
    BY Zenon, <1>6, <2>1, <2>2
<1>10. ASSUME NEW i \in DOMAIN q2, NEW j \in DOMAIN q2, i <= j
       PROVE  q2[i].apos <= q2[j].apos
  <2>1. CASE j \in 1..n
    <3>1. i \in 1..n BY <1>1, <1>10, <2>1, IndexBelow, Zenon
    <3> QED BY <1>1, <1>2, <1>10, <2>1, <3>1, Zenon
  <2>2. CASE j = n + 1 /\ i \in 1..n
    BY <2>2, <1>1, <1>2, Zenon
  <2>3. CASE j = n + 1 /\ i = n + 1
    BY <2>3, <1>1, <1>3, SMTT(30)
  <2> QED
    BY Zenon, <1>6, <2>1, <2>2, <2>3
<1>11. /\ q2 # <<>> /\ q2[1].pos = base
       /\ \A i \in DOMAIN q2 :
            /\ q2[i].pos + q2[i].len <= dev'.nxt
            /\ q2[i].pos + q2[i].len = IF i = Len(q2) THEN dev'.nxt ELSE q2[i + 1].pos
            /\ q2[i].flags = "SYNACK" => q2[i].seq = 0
            /\ q2[i].ack = (1 + q2[i].apos) % SeqMod
            /\ a <= q2[i].apos
            /\ q2[i].apos <= dev'.rcv
            /\ q2[i].apos + q2[i].win * WinUnit <= DevEdge'
            /\ q2[i].win * WinUnit <= DevBuf
       /\ \A i \in DOMAIN q2 : \A j \in DOMAIN q2 : i <= j => q2[i].apos <= q2[j].apos
  BY <1>1, <1>4, <1>8, <1>9, <1>10, Zenon
<1>12. InFlight(toHost, base, a)'
  BY <1>0, <1>11, Zenon DEF InFlight, q2
<1> QED
  BY Zenon, <1>12 DEF base, a

\* What a step of the device that sends a segment leaves true.
LEMMA DevSendKeeps ==
  ASSUME IndInv, conn' = conn, cstate' = cstate, sent' = sent, got' = got, acked' = acked,
         NEW seg \in Segment, toHost' = Append(toHost, seg), dev' \in Device,
         seg.pos = dev.nxt, dev'.nxt = dev.nxt + seg.len, dev'.nxt <= dev.una + RecvWin,
         dev'.rcv = dev.rcv, dev'.una = dev.una, dev'.buf = dev.buf,
         seg.flags = "SYNACK" => seg.seq = 0,
         seg.apos = dev.rcv, seg.ack = (1 + dev.rcv) % SeqMod,
         seg.win * WinUnit \in Nat, seg.win * WinUnit <= DevBuf - dev.buf,
         toDev' \in Seq(Segment), HandshakeInv', AckInv', UpInv'
  PROVE  IndInv'
<1> USE DEF IndInv
<1>1. /\ dev \in Device /\ toHost \in Seq(Segment) /\ {sent, got, acked} \subseteq Nat
      /\ conn \in Connection /\ conn.ib_size \in Nat
  BY Zenon DEF TypeOK, Connection
<1>2. {dev.nxt, dev.rcv, dev.una, dev.buf} \subseteq Nat /\ seg.len \in Nat
  BY Zenon, <1>1, SegmentFields DEF Device
<1>3. DevEdge' = DevEdge
  BY Zenon DEF DevEdge
<1>4. TypeOK'
  <2>1. toHost' \in Seq(Segment)
    BY Zenon, <1>1, AppendElements
  <2> QED
    BY Zenon, <1>1, <2>1 DEF TypeOK
<1>5. UpdatedInv' /\ WindowInv'
  BY Zenon, <1>3 DEF UpdatedInv, WindowInv
<1>6. seg.apos + seg.win * WinUnit <= DevEdge /\ seg.win * WinUnit <= DevBuf
  <2>1. PICK x \in Nat : x = seg.win * WinUnit
    BY Zenon
  <2>2. x <= DevBuf - dev.buf
    BY <2>1, Zenon
  <2>3. dev.rcv \in Nat /\ dev.buf \in Nat /\ DevBuf \in Nat
    BY <1>2, ConstantTypes, Zenon
  <2>4. dev.rcv + x <= dev.rcv + DevBuf - dev.buf /\ x <= DevBuf
    BY ZenonT(40), <2>2, <2>3, EdgeBound
  <2> QED
    BY <2>1, <2>4, Zenon DEF DevEdge
<1>7. DownInv'
  <2>1. dev'.una <= got' /\ got' <= dev'.nxt /\ dev'.nxt <= dev'.una + RecvWin
    BY SMTT(40), <1>1, <1>2, SMTT(60) DEF DownInv
  <2>2. ASSUME conn.state # "NONE"
        PROVE  got' + conn'.ib_size <= dev'.nxt /\ InFlight(toHost, got + conn.ib_size, acked)'
    <3> DEFINE base == got + conn.ib_size
    <3>1. base <= dev.nxt /\ InFlight(toHost, base, acked) /\ base \in Nat
      BY SMTT(40), <1>1, <2>2, SMTT(30) DEF DownInv
    <3>2. base' = base /\ acked <= dev.rcv
      BY Zenon DEF WindowInv
    <3> HIDE DEF base
    <3>3. base <= dev'.nxt
      BY SMTT(40), <1>2, <3>1
    <3>4. InFlight(toHost, got + conn.ib_size, acked)'
      BY ZenonT(40), <1>1, <1>3, <1>6, <3>1, <3>2, AppendToHost DEF base
    <3> QED
      BY Zenon, <3>2, <3>3, <3>4 DEF base
  <2>3. conn.state = "CONNECTED" => /\ conn.tx_ack = (1 + got) % SeqMod
                                    /\ conn.rx_recvd = (got + conn.ib_size) % SeqMod
    BY Zenon DEF DownInv
  <2> QED
    BY SMTT(40), <2>1, <2>2, <2>3 DEF DownInv
<1> QED
  BY SMTT(40), <1>4, <1>5, <1>7

\* DevSend, DevAck and DevClose: an open device sends a segment and, at most,
\* moves nxt or closes.
LEMMA OpenDevKeeps ==
  ASSUME IndInv, dev.state = "OPEN",
         UNCHANGED <<conn, cstate, toDev, sent, got, acked>>,
         NEW f \in {"ACK", "RST", "FIN"}, NEW n \in Nat,
         toHost' = Append(toHost, DevSegment(dev, f, n)),
         dev' \in Device, dev'.state \in {"OPEN", "CLOSED"}, dev'.win = dev.win,
         dev'.nxt = dev.nxt + n, dev'.nxt <= dev.una + RecvWin,
         dev'.rcv = dev.rcv, dev'.una = dev.una, dev'.buf = dev.buf
  PROVE  IndInv'
<1> USE DEF IndInv
<1> DEFINE seg == DevSegment(dev, f, n)
<1>1. dev \in Device /\ toDev \in Seq(Segment) /\ dev.buf <= DevBuf
  BY ZenonT(40) DEF TypeOK, UpInv
<1>2. /\ seg \in Segment /\ seg.flags = f /\ seg.len = n
      /\ seg.pos = dev.nxt /\ seg.apos = dev.rcv
      /\ seg.ack = (1 + dev.rcv) % SeqMod
      /\ seg.win * WinUnit \in Nat /\ seg.win * WinUnit <= DevBuf - dev.buf
  <2>1. f \in Flags BY Zenon DEF Flags
  <2> QED BY Zenon, <1>1, <2>1, DevSegmentFacts
<1>3. toHost' = Append(toHost, seg)
  BY Zenon
<1> HIDE DEF seg
<1>4. HandshakeInv'
  BY Zenon DEF HandshakeInv
<1>5. AckInv'
  BY SMTT(40) DEF AckInv
<1>6. UpInv'
  BY Zenon DEF UpInv, DevEdge
<1>7. seg.flags # "SYNACK" /\ dev'.nxt = dev.nxt + seg.len
  BY Zenon, <1>2
<1>8. toDev' \in Seq(Segment)
  BY Zenon, <1>1
<1> QED
  BY SMTT(40), <1>2, <1>3, <1>4, <1>5, <1>6, <1>7, <1>8, DevSendKeeps

\* The device sends n bytes within the window it was given.
LEMMA DevSendDone ==
  ASSUME IndInv, DevSend
  PROVE  IndInv'
<1>1. PICK n \in 1..DevSeg :
        /\ dev.nxt + n <= dev.una + dev.win
        /\ toHost' = Append(toHost, DevSegment(dev, "ACK", n))
        /\ dev' = Advertised([dev EXCEPT !.nxt = @ + n])
  BY Zenon DEF DevSend
<1>2. /\ dev.state = "OPEN" /\ UNCHANGED <<conn, cstate, toDev, sent, got, acked>>
      /\ n \in Nat
  BY SMTT(40), DevSend, ConstantTypes DEF DevSend
<1>3. dev \in Device /\ dev.win = RecvWin /\ dev.buf <= DevBuf /\ dev.buf \in Nat
      /\ dev.nxt \in Nat /\ dev.rcv \in Nat
  BY SMTT(40), <1>2 DEF IndInv, TypeOK, HandshakeInv, UpInv, Device
<1>4. DevWin(dev.buf) \in Nat
  BY <1>3, ConstantTypes, UnitRounding DEF DevWin
<1>5. PICK m \in Nat, w \in Nat : m = dev.nxt + n /\ w = DevWin(dev.buf)
  BY <1>2, <1>3, <1>4
<1>6. dev' = [dev EXCEPT !.nxt = m, !.adv = <<dev.rcv, w>>]
  BY Zenon, <1>1, <1>3, <1>5 DEF Advertised, Device
<1>7. /\ dev' \in Device /\ dev'.state = "OPEN" /\ dev'.win = dev.win /\ dev'.nxt = m
      /\ dev'.rcv = dev.rcv /\ dev'.una = dev.una /\ dev'.buf = dev.buf
  BY Zenon, <1>2, <1>3, <1>5, <1>6 DEF Device
<1>8. dev'.nxt = dev.nxt + n /\ dev'.nxt <= dev.una + RecvWin
  BY SMTT(40), <1>1, <1>3, <1>5, <1>7
<1> QED
  BY <1>1, <1>2, <1>7, <1>8, OpenDevKeeps

\* The device repeats its offsets and its window.
LEMMA DevAckDone ==
  ASSUME IndInv, DevAck
  PROVE  IndInv'
<1>1. /\ dev.state = "OPEN" /\ UNCHANGED <<conn, cstate, toDev, sent, got, acked>>
      /\ toHost' = Append(toHost, DevSegment(dev, "ACK", 0))
      /\ dev' = Advertised(dev)
  BY Zenon DEF DevAck
<1>2. /\ dev \in Device /\ dev.buf <= DevBuf /\ dev.buf \in Nat
      /\ dev.nxt \in Nat /\ dev.rcv \in Nat /\ dev.nxt <= dev.una + RecvWin
  BY Zenon DEF IndInv, TypeOK, DownInv, UpInv, Device
<1>3. PICK w \in Nat : w = DevWin(dev.buf)
  BY <1>2, ConstantTypes, UnitRounding DEF DevWin
<1>4. dev' = [dev EXCEPT !.adv = <<dev.rcv, w>>]
  BY Zenon, <1>1, <1>3 DEF Advertised
<1>5. <<dev.rcv, w>> \in Nat \X Nat
  BY Zenon, <1>2, <1>3
<1>6. /\ dev' \in Device /\ dev'.state = "OPEN" /\ dev'.win = dev.win /\ dev'.nxt = dev.nxt
      /\ dev'.rcv = dev.rcv /\ dev'.una = dev.una /\ dev'.buf = dev.buf
  <2>1. PICK p \in Nat \X Nat : p = <<dev.rcv, w>>
    BY Zenon, <1>5
  <2>2. dev' = [dev EXCEPT !.adv = p]
    BY Zenon, <1>4, <2>1
  <2> QED
    BY Zenon, <1>1, <1>2, <2>1, <2>2 DEF Device
<1>7. 0 \in Nat /\ dev'.nxt = dev.nxt + 0 /\ dev'.nxt <= dev.una + RecvWin
  BY <1>2, <1>6
<1> QED
  BY Zenon, <1>1, <1>6, <1>7, OpenDevKeeps

\* The device closes its end with an RST or a FIN.
LEMMA DevCloseDone ==
  ASSUME IndInv, DevClose
  PROVE  IndInv'
<1>1. PICK f \in {"RST", "FIN"} : toHost' = Append(toHost, DevSegment(dev, f, 0))
  BY Zenon DEF DevClose
<1>2. /\ dev.state = "OPEN" /\ UNCHANGED <<conn, cstate, toDev, sent, got, acked>>
      /\ dev' = [dev EXCEPT !.state = "CLOSED"]
  BY Zenon DEF DevClose
<1>3. dev \in Device /\ dev.nxt \in Nat /\ dev.nxt <= dev.una + RecvWin
  BY Zenon DEF IndInv, TypeOK, DownInv, Device
<1>4. /\ dev' \in Device /\ dev'.state = "CLOSED" /\ dev'.win = dev.win /\ dev'.nxt = dev.nxt
      /\ dev'.rcv = dev.rcv /\ dev'.una = dev.una /\ dev'.buf = dev.buf
  BY Zenon, <1>2, <1>3 DEF Device
<1>5. 0 \in Nat /\ dev'.nxt = dev.nxt + 0 /\ dev'.nxt <= dev.una + RecvWin
  BY <1>3, <1>4
<1> QED
  BY SMTT(40), <1>1, <1>2, <1>4, <1>5, OpenDevKeeps

\* A listening device takes or refuses the SYN.
LEMMA DevAcceptDone ==
  ASSUME IndInv, DevAccept
  PROVE  IndInv'
<1> DEFINE th == Head(toDev)
<1>1. /\ toDev # <<>> /\ dev.state = "LISTEN" /\ th.flags = "SYN" /\ toDev' = Tail(toDev)
      /\ conn' = conn /\ cstate' = cstate /\ sent' = sent /\ got' = got /\ acked' = acked
  BY SMTT(40) DEF DevAccept
<1>2. /\ dev \in Device /\ {dev.nxt, dev.rcv, dev.una, dev.buf} \subseteq Nat
      /\ dev.buf <= DevBuf /\ dev.nxt <= dev.una + RecvWin
  BY SMTT(40) DEF IndInv, TypeOK, UpInv, DownInv, Device
<1>3. /\ dev.nxt = 0 /\ dev.rcv = 0 /\ conn.state # "CONNECTED"
  BY Zenon, <1>1 DEF IndInv, HandshakeInv
<1>4. /\ toDev' \in Seq(Segment)
      /\ \A i \in DOMAIN toDev' : toDev'[i].flags # "SYN"
      /\ conn.state = "CONNECTING" => \A i \in DOMAIN toDev' : toDev'[i].flags # "ACK"
  BY Zenon, <1>1, TailFlags
<1>5. th.len = 0 /\ th.win * WinUnit = RecvWin
  <2>1. th.len = 0 /\ th.win = RecvWin \div WinUnit
    BY Zenon, <1>1, HeadFacts
  <2> QED
    BY <2>1, AdvertisedWindow, Zenon
<1> HIDE DEF th
<1>6. PICK w \in Nat : w = DevWin(dev.buf)
  BY SMTT(40), <1>2, ConstantTypes, UnitRounding DEF DevWin
<1>7. ASSUME NEW f \in {"SYNACK", "RST"}, NEW seg \in Segment,
             seg.flags = "SYNACK" => seg.seq = 0, seg.len = 0, seg.pos = dev.nxt,
             seg.apos = dev.rcv, seg.ack = (1 + dev.rcv) % SeqMod,
             seg.win * WinUnit \in Nat, seg.win * WinUnit <= DevBuf - dev.buf,
             toHost' = Append(toHost, seg),
             dev' \in Device, dev'.state \in {"SYNRCVD", "CLOSED"},
             dev'.state = "SYNRCVD" => dev'.win = RecvWin,
             dev'.nxt = dev.nxt, dev'.rcv = dev.rcv, dev'.una = dev.una, dev'.buf = dev.buf
      PROVE  IndInv'
  <2>1. DevEdge' = DevEdge
    BY Zenon, <1>7 DEF DevEdge
  <2>2. HandshakeInv'
    BY SMTT(40), <1>1, <1>3, <1>4, <1>7 DEF IndInv, HandshakeInv
  <2>3. AckInv'
    BY Zenon, <1>1, <1>7, TailKeepsAckInv
  <2>4. UpInv'
    <3>1. dev'.rcv = dev.rcv + Head(toDev).len /\ dev'.buf <= DevBuf
      BY SMTT(40), <1>2, <1>3, <1>5, <1>7 DEF th
    <3> QED
      BY Zenon, <1>1, <2>1, <3>1, TailKeepsUpInv
  <2>5. dev'.nxt = dev.nxt + seg.len /\ dev'.nxt <= dev.una + RecvWin
    BY SMTT(40), <1>2, <1>7
  <2> QED
    BY Zenon, <1>1, <1>4, <1>7, <2>2, <2>3, <2>4, <2>5, DevSendKeeps
<1>8. CASE /\ dev' = Advertised([dev EXCEPT !.state = "SYNRCVD", !.win = th.win * WinUnit])
           /\ toHost' = Append(toHost, [DevSegment(dev, "SYNACK", 0) EXCEPT !.seq = 0])
  <2> DEFINE s0 == DevSegment(dev, "SYNACK", 0)
             seg == [s0 EXCEPT !.seq = 0]
  <2>1. /\ s0 \in Segment /\ s0.flags = "SYNACK" /\ s0.len = 0
        /\ s0.pos = dev.nxt /\ s0.apos = dev.rcv
        /\ s0.ack = (1 + dev.rcv) % SeqMod
        /\ s0.win * WinUnit \in Nat /\ s0.win * WinUnit <= DevBuf - dev.buf
    <3>1. "SYNACK" \in Flags /\ 0 \in Nat BY Zenon DEF Flags
    <3> QED BY Zenon, <1>2, <3>1, DevSegmentFacts
  <2> HIDE DEF s0
  <2>2. /\ seg \in Segment /\ seg.seq = 0 /\ seg.len = s0.len /\ seg.pos = s0.pos
        /\ seg.apos = s0.apos /\ seg.ack = s0.ack /\ seg.win = s0.win
    BY <2>1, ConstantTypes DEF Segment
  <2>3. toHost' = Append(toHost, seg)
    BY Zenon, <1>8 DEF s0
  <2> HIDE DEF seg
  <2>4. /\ seg.len = 0 /\ seg.pos = dev.nxt /\ seg.apos = dev.rcv
        /\ seg.ack = (1 + dev.rcv) % SeqMod
        /\ seg.win * WinUnit \in Nat /\ seg.win * WinUnit <= DevBuf - dev.buf
    BY <2>1, <2>2, Zenon
  <2>5. dev' = [dev EXCEPT !.state = "SYNRCVD", !.win = RecvWin, !.adv = <<dev.rcv, w>>]
    BY Zenon, <1>2, <1>5, <1>6, <1>8 DEF Advertised, Device
  <2>6. /\ dev' \in Device /\ dev'.state = "SYNRCVD" /\ dev'.win = RecvWin
        /\ dev'.nxt = dev.nxt /\ dev'.rcv = dev.rcv /\ dev'.una = dev.una /\ dev'.buf = dev.buf
    BY ZenonT(40), <1>2, <1>6, <2>5, ConstantTypes DEF Device
  <2> QED
    BY Zenon, <1>7, <2>2, <2>3, <2>4, <2>6
<1>9. CASE /\ dev' = [dev EXCEPT !.state = "CLOSED"]
           /\ toHost' = Append(toHost, DevSegment(dev, "RST", 0))
  <2> DEFINE seg == DevSegment(dev, "RST", 0)
  <2>1. /\ seg \in Segment /\ seg.flags = "RST" /\ seg.len = 0
        /\ seg.pos = dev.nxt /\ seg.apos = dev.rcv
        /\ seg.ack = (1 + dev.rcv) % SeqMod
        /\ seg.win * WinUnit \in Nat /\ seg.win * WinUnit <= DevBuf - dev.buf
    <3>1. "RST" \in Flags /\ 0 \in Nat BY Zenon DEF Flags
    <3> QED BY Zenon, <1>2, <3>1, DevSegmentFacts
  <2>2. toHost' = Append(toHost, seg)
    BY Zenon, <1>9
  <2> HIDE DEF seg
  <2>3. /\ dev' \in Device /\ dev'.state = "CLOSED"
        /\ dev'.nxt = dev.nxt /\ dev'.rcv = dev.rcv /\ dev'.una = dev.una /\ dev'.buf = dev.buf
    BY Zenon, <1>2, <1>9 DEF Device
  <2> QED
    BY Zenon, <1>7, <2>1, <2>2, <2>3
<1> QED
  BY <1>8, <1>9, Zenon DEF DevAccept, th

-----------------------------------------------------------------------------
(* The theorems.                                                             *)

\* Initially there is no connection and nothing in flight.
LEMMA InitEstablishes == Init => IndInv
<1> SUFFICES ASSUME Init PROVE IndInv
  BY Zenon
<1>1. /\ conn = Zeroed /\ conn \in Connection /\ conn.state = "NONE" /\ cstate = "COMMAND"
      /\ toDev = <<>> /\ toHost = <<>> /\ sent = 0 /\ got = 0 /\ acked = 0
  BY Zenon, ZeroedConnection DEF Init
<1>2. /\ dev \in Device /\ dev.nxt = 0 /\ dev.rcv = 0 /\ dev.una = 0 /\ dev.buf = 0
      /\ dev.state = "LISTEN"
  BY Zenon DEF Init, Device
<1>3. <<>> \in Seq(Segment) /\ DOMAIN toDev = {} /\ DevEdge = DevBuf
  BY SMTT(40), <1>1, <1>2, ConstantTypes DEF DevEdge
<1>4. TypeOK
  BY SMTT(40), <1>1, <1>2, <1>3 DEF TypeOK, ClientStates
<1>5. HandshakeInv /\ UpdatedInv /\ AckInv
  BY Zenon, <1>1, <1>2, <1>3 DEF HandshakeInv, UpdatedInv, AckInv
<1>6. DownInv
  BY SMTT(40), <1>1, <1>2, ConstantTypes DEF DownInv
<1>7. UpInv
  BY SMTT(40), <1>1, <1>2, <1>3, ConstantTypes DEF UpInv
<1>8. WindowInv
  BY SMTT(40), <1>1, <1>2, ConstantTypes DEF WindowInv
<1> QED
  BY Zenon, <1>4, <1>5, <1>6, <1>7, <1>8 DEF IndInv

\* Every step keeps the invariant.
LEMMA StepKeeps == IndInv /\ [Next]_vars => IndInv'
<1> SUFFICES ASSUME IndInv, [Next]_vars PROVE IndInv'
  BY Zenon
<1>1. CASE device_start_connect   BY Zenon, <1>1, StartConnectKeeps
<1>2. CASE device_tcp_input       BY SMTT(40), <1>2, TcpInputKeeps
<1>3. CASE device_client_process  BY Zenon, <1>3, ClientProcessKeeps
<1>4. CASE device_check_timeouts  BY Zenon, <1>4, TimeoutsKeep
<1>5. CASE process_send           BY Zenon, <1>5, ProcessSendKeeps
<1>6. CASE device_abort_connect
  BY Zenon, <1>6, PlainTeardownKeeps DEF device_abort_connect
<1>7. CASE device_remove          BY Zenon, <1>7, RemoveKeeps
<1>8. CASE device_kill_connections
  BY Zenon, <1>8, PlainTeardownKeeps DEF device_kill_connections
<1>9. CASE DevAccept              BY Zenon, <1>9, DevAcceptDone
<1>10. CASE DevReceive            BY Zenon, <1>10, DevReceiveKeeps
<1>11. CASE DevSend               BY Zenon, <1>11, DevSendDone
<1>12. CASE DevRead               BY Zenon, <1>12, DevReadKeeps
<1>13. CASE DevAck                BY Zenon, <1>13, DevAckDone
<1>14. CASE DevClose              BY Zenon, <1>14, DevCloseDone
<1>15. CASE UNCHANGED vars        BY Zenon, <1>15, StutterKeeps
<1> QED
  BY SMTT(40), <1>1, <1>2, <1>3, <1>4, <1>5, <1>6, <1>7, <1>8, <1>9, <1>10, <1>11, <1>12, <1>13,
     <1>14, <1>15 DEF Next

\* IndInv, and with it the typing of the connection, holds in every reachable
\* state, whatever the width of the counters and the size of the buffers.
THEOREM Invariance == Spec => []IndInv
BY InitEstablishes, StepKeeps, PTL DEF Spec

\* Every counter, buffer size and segment stays within its type.
THEOREM TypeCorrect == Spec => []TypeOK
<1>1. IndInv => TypeOK
  BY Zenon DEF IndInv
<1> QED
  BY <1>1, Invariance, PTL

\* The payload of the next segment from the device always fits in ib_buf: the
\* overflow branch of connection_device_input is dead code as long as the
\* device respects th_win.
THEOREM InputFits == Spec => []InputNeverOverflows
<1>1. IndInv => InputNeverOverflows
  <2> SUFFICES ASSUME IndInv, conn.state = "CONNECTED", toHost # <<>>
               PROVE  conn.ib_size + Head(toHost).len <= InCap
    BY Zenon DEF InputNeverOverflows
  <2>1. conn.state # "NONE"
    BY Zenon
  <2>2. PICK th : th = Head(toHost)
    BY Zenon
  <2>3. got + conn.ib_size + th.len <= dev.nxt /\ th.len \in Nat
    BY Zenon, <2>1, <2>2, InputFacts
  <2>4. /\ conn.ib_size \in Nat /\ got \in Nat /\ dev.una \in Nat /\ dev.nxt \in Nat
        /\ dev.una <= got /\ dev.nxt <= dev.una + RecvWin
    BY Zenon, OpenFacts
  <2> QED
    BY SMTT(40), <2>2, <2>3, <2>4, ConstantTypes
<1> QED
  BY <1>1, Invariance, PTL

\* The host never overruns the device's receive buffer.
THEOREM DeviceFits == Spec => []DeviceNeverOverrun
<1>1. IndInv => DeviceNeverOverrun
  <2> SUFFICES ASSUME IndInv, dev.state = "OPEN", toDev # <<>>
               PROVE  dev.buf + Head(toDev).len <= DevBuf
    BY Zenon DEF DeviceNeverOverrun
  <2>1. PICK th : th = Head(toDev)
    BY Zenon
  <2>2. dev.rcv + th.len <= sent /\ th.len \in Nat
    BY SMTT(40), <2>1, HeadFacts
  <2>3. sent <= DevEdge /\ dev.rcv \in Nat /\ dev.buf \in Nat /\ sent \in Nat
    BY SMTT(40) DEF IndInv, UpInv, TypeOK, Device
  <2> QED
    BY SMTT(40), <2>1, <2>2, <2>3, ConstantTypes DEF DevEdge
<1> QED
  BY <1>1, Invariance, PTL

\* Nothing is acknowledged to the device before the client's socket took it.
THEOREM AckAfterDelivery == Spec => []AckOnlyDelivered
<1>1. IndInv => AckOnlyDelivered
  BY SMTT(40) DEF IndInv, DownInv, AckOnlyDelivered
<1> QED
  BY <1>1, Invariance, PTL

\* No byte of the device's stream is lost, repeated or counted twice.
THEOREM NothingLost == Spec => []StreamAccounted
<1>1. IndInv => StreamAccounted
  <2> SUFFICES ASSUME IndInv, conn.state = "CONNECTED"
               PROVE  /\ conn.tx_ack = (1 + got) % SeqMod
                      /\ conn.rx_recvd = (got + conn.ib_size) % SeqMod
                      /\ got + conn.ib_size = IF toHost = <<>> THEN dev.nxt ELSE Head(toHost).pos
    BY Zenon DEF StreamAccounted
  <2>1. /\ conn.tx_ack = (1 + got) % SeqMod
        /\ conn.rx_recvd = (got + conn.ib_size) % SeqMod
        /\ InFlight(toHost, got + conn.ib_size, acked)
    BY Zenon, OpenFacts
  <2>2. conn.state # "NONE"
    BY Zenon
  <2>3. CASE toHost = <<>>
    BY <2>1, <2>3, Zenon DEF InFlight
  <2>4. CASE toHost # <<>>
    BY SMTT(40), <2>1, <2>2, <2>4, InputFacts
  <2> QED
    BY Zenon, <2>1, <2>3, <2>4
<1> QED
  BY <1>1, Invariance, PTL

\* The device sees the client's stream in order and without gaps.
THEOREM InSequence == Spec => []SegmentsInSequence
<1>1. IndInv => SegmentsInSequence
  <2> SUFFICES ASSUME IndInv, dev.state = "OPEN", toDev # <<>>, Head(toDev).flags = "ACK"
               PROVE  /\ Head(toDev).seq = (1 + dev.rcv) % SeqMod
                      /\ Head(toDev).pos = dev.rcv
    BY Zenon DEF SegmentsInSequence
  <2> QED
    BY Zenon, HeadFacts
<1> QED
  BY <1>1, Invariance, PTL

\* The poll mask and the timer flag are always those of the current counters.
THEOREM MaskIsCurrent == Spec => []MaskCurrent
<1>1. IndInv => MaskCurrent
  <2> SUFFICES ASSUME IndInv, conn.state = "CONNECTED"
               PROVE  /\ "POLLOUT" \in conn.events <=> conn.ib_size > 0
                      /\ "POLLIN" \in conn.events <=>
                           (conn.tx_seq - conn.rx_ack) % SeqMod < conn.rx_win
                      /\ conn.ack_pending <=> conn.tx_acked # conn.tx_ack
    BY Zenon DEF MaskCurrent
  <2> DEFINE flight == (conn.tx_seq - conn.rx_ack) % SeqMod
  <2>1. conn \in Connection /\ conn = update_connection(conn)
    BY Zenon, OpenFacts
  <2>2. flight \in Nat /\ conn.rx_win \in Nat
    <3>1. conn.tx_seq - conn.rx_ack \in Int /\ conn.rx_win \in Nat
      BY <2>1, ConstantTypes DEF Connection
    <3>2. flight \in 0..(SeqMod - 1)
      BY ZenonT(40), <3>1, ConstantTypes, ModRange
    <3> QED
      BY SMTT(40), <3>1, <3>2, ConstantTypes
  <2>3. Sendable(conn) > 0 <=> flight < conn.rx_win
    BY <2>2, ConstantTypes, SMTT(30) DEF Sendable, Smallest
  <2> HIDE DEF flight
  <2>4. /\ conn.events = {e \in {"POLLIN", "POLLOUT"} :
                            \/ e = "POLLIN" /\ Sendable(conn) > 0
                            \/ e = "POLLOUT" /\ conn.ib_size > 0}
        /\ conn.ack_pending = (conn.tx_acked # conn.tx_ack)
    BY Zenon, <2>1 DEF update_connection, Connection
  <2> QED
    BY Zenon, <2>3, <2>4 DEF flight
<1> QED
  BY <1>1, Invariance, PTL

-----------------------------------------------------------------------------
(* The connection implements the pair of streams of StreamPair.              *)

\* No ACK is in flight that was not before.
NoNewAck ==
  \A i \in DOMAIN toDev' :
    toDev'[i].flags = "ACK" => \E j \in DOMAIN toDev : toDev[j].flags = "ACK"

\* The four things that a step of the host can do to the streams. A connection
\* that is not open, or not any more, moves nothing.
AtRest ==
  /\ conn.state # "CONNECTED" /\ conn'.state # "CONNECTED"
  /\ sent' = sent /\ got' = got
  /\ cstate = "CLOSED" => cstate' = "CLOSED"
  /\ conn'.state = "CONNECTING" => cstate' = "CONNECTING1"
  /\ conn'.state = "NONE" => cstate' \in {"COMMAND", "CLOSED"}
  /\ NoNewAck

\* The handshake ends.
Opened ==
  /\ conn.state = "CONNECTING" /\ conn'.state = "CONNECTED" /\ conn'.ib_size = 0
  /\ sent' = sent /\ got' = got
  /\ cstate # "CLOSED" /\ cstate' \in {"CONNECTING2", "CONNECTED"}

\* An open connection takes, receives or delivers data.
Moved ==
  /\ conn.state = "CONNECTED" /\ conn'.state = "CONNECTED"
  /\ sent <= sent' /\ got <= got' /\ got + conn.ib_size <= got' + conn'.ib_size
  /\ cstate' \in {"CONNECTING2", "CONNECTED"}

\* An open connection is torn down.
Torn ==
  /\ conn.state = "CONNECTED" /\ conn'.state = "NONE" /\ cstate' = "CLOSED"
  /\ sent' = sent /\ got <= got'

HostShape == AtRest \/ Opened \/ Moved \/ Torn

\* Appending a segment that is not an ACK.
LEMMA AppendFlags ==
  ASSUME NEW q \in Seq(Segment), NEW e, e.flags # "ACK",
         NEW i \in DOMAIN Append(q, e), Append(q, e)[i].flags = "ACK"
  PROVE  \E j \in DOMAIN q : q[j].flags = "ACK"
<1>1. /\ DOMAIN Append(q, e) = 1..(Len(q) + 1) /\ DOMAIN q = 1..Len(q) /\ Len(q) \in Nat
      /\ \A k \in 1..Len(q) : Append(q, e)[k] = q[k]
      /\ Append(q, e)[Len(q) + 1] = e
  OBVIOUS
<1>2. i # Len(q) + 1
  BY Zenon, <1>1
<1>3. i \in 1..Len(q)
  BY <1>1, <1>2
<1> QED
  BY Zenon, <1>1, <1>3

\* An open connection is torn down.
LEMMA TeardownIsTorn ==
  ASSUME conn.state = "CONNECTED", got \in Nat, NEW c, c.state \notin {"REFUSED", "CONNECTING"},
         c.ib_size \in Nat, NEW g \in Nat, got <= g, NEW b \in BOOLEAN,
         TeardownClient(c, g, b), sent' = sent
  PROVE  Torn
<1>1. conn' = Zeroed /\ cstate' = "CLOSED" /\ got' \in {g} \cup (g..(g + c.ib_size))
  BY Zenon DEF TeardownClient
<1>2. got <= got'
  BY <1>1
<1> QED
  BY Zenon, <1>1, <1>2 DEF Torn, Zeroed

\* A connect that fails or is given up.
LEMMA TeardownIsAtRest ==
  ASSUME conn.state = "CONNECTING", cstate # "CLOSED",
         NEW c, c.state = "REFUSED" \/ c.state = "CONNECTING", NEW b \in BOOLEAN,
         TeardownClient(c, got, b), sent' = sent, NoNewAck
  PROVE  AtRest
<1>1. conn' = Zeroed /\ cstate' \in {"COMMAND", "CLOSED"} /\ got' = got
  BY Zenon DEF TeardownClient
<1> QED
  BY Zenon, <1>1 DEF AtRest, Zeroed

\* The RST that is sent with it is no ACK.
LEMMA TeardownNoAck ==
  ASSUME toDev \in Seq(Segment), NEW c, NEW g, NEW b, connection_teardown(c, g, b)
  PROVE  NoNewAck
<1> DEFINE seg == TcpSegment(c, g, "RST", 0)
<1>1. toDev' = toDev \/ toDev' = Append(toDev, seg)
  BY Zenon DEF connection_teardown
<1>2. seg.flags # "ACK"
  BY Zenon DEF TcpSegment
<1> HIDE DEF seg
<1> QED
  BY Zenon, <1>1, <1>2, AppendFlags DEF NoNewAck

\* A connect that fails or is given up, with its RST.
LEMMA ConnectFails ==
  ASSUME toDev \in Seq(Segment), conn.state = "CONNECTING", cstate # "CLOSED",
         NEW c, c.state = "REFUSED" \/ c.state = "CONNECTING", NEW b \in BOOLEAN,
         connection_teardown(c, got, b), sent' = sent
  PROVE  HostShape
<1>1. NoNewAck
  BY Zenon, TeardownNoAck
<1>2. TeardownClient(c, got, b)
  BY Zenon DEF connection_teardown
<1>3. AtRest
  BY <1>1, <1>2, TeardownIsAtRest
<1> QED
  BY Zenon, <1>3 DEF HostShape

\* An open connection is torn down, with its RST.
LEMMA OpenFails ==
  ASSUME conn.state = "CONNECTED", got \in Nat, NEW c, c.state \notin {"REFUSED", "CONNECTING"},
         c.ib_size \in Nat, NEW g \in Nat, got <= g, NEW b \in BOOLEAN,
         connection_teardown(c, g, b), sent' = sent
  PROVE  HostShape
<1>1. TeardownClient(c, g, b)
  BY Zenon DEF connection_teardown
<1> QED
  BY Zenon, <1>1, TeardownIsTorn DEF HostShape

\* send_tcp_ack for an open connection whose ib_buf may have grown.
LEMMA SendAckShape ==
  ASSUME IndInv, SidesInv, conn.state = "CONNECTED",
         NEW c \in Connection, c.state = "CONNECTED", conn.ib_size <= c.ib_size,
         send_tcp_ack(c), sent' = sent
  PROVE  HostShape
<1>1. /\ got \in Nat /\ sent \in Nat /\ conn.ib_size \in Nat /\ c.ib_size \in Nat
      /\ cstate \in {"CONNECTING2", "CONNECTED"}
  <2>1. {sent, got, acked} \subseteq Nat /\ conn.ib_size \in Nat
    BY Zenon, OpenFacts
  <2> QED
    BY <2>1, Zenon DEF SidesInv, Connection
<1>2. CASE connection_teardown(c, got, FALSE)
  <2>1. got <= got /\ c.state \notin {"REFUSED", "CONNECTING"} /\ FALSE \in BOOLEAN
    BY <1>1
  <2> QED
    BY Zenon, <1>1, <1>2, <2>1, OpenFails
<1>3. CASE conn' = update_connection(SendTcpDone(c)) /\ UNCHANGED <<cstate, got>>
  <2>1. conn'.state = "CONNECTED" /\ conn'.ib_size = c.ib_size
    BY <1>3, SendTcpDoneFields, UpdateConnection
  <2>2. sent <= sent' /\ got <= got' /\ got + conn.ib_size <= got' + conn'.ib_size
    BY <1>1, <1>3, <2>1
  <2> QED
    BY Zenon, <1>1, <1>3, <2>1, <2>2 DEF HostShape, Moved
<1> QED
  BY Zenon, <1>2, <1>3 DEF send_tcp_ack

\* device_tcp_input on a connection that waits for its SYN+ACK.
LEMMA InputConnectingShape ==
  ASSUME IndInv, SidesInv, toHost # <<>>, conn.state = "CONNECTING",
         NEW th, th = Head(toHost),
         NEW c \in Connection, c.state = "CONNECTING", c.ib_size = conn.ib_size,
         c.tx_seq = conn.tx_seq, c.tx_ack = conn.tx_ack,
         InputConnecting(c, th), sent' = sent
  PROVE  HostShape
<1>1. /\ toDev \in Seq(Segment) /\ cstate = "CONNECTING1"
      /\ c.tx_seq = 0 /\ c.tx_ack = 0 /\ c.ib_size = 0
  BY Zenon DEF IndInv, TypeOK, HandshakeInv, SidesInv
<1>2. ASSUME NEW d, d.state = "REFUSED" \/ d.state = "CONNECTING",
             connection_teardown(d, got, FALSE)
      PROVE  HostShape
  <2>1. FALSE \in BOOLEAN /\ cstate # "CLOSED"
    BY Zenon, <1>1
  <2> QED
    BY Zenon, <1>1, <1>2, <2>1, ConnectFails
<1>3. Handshaken(c, th) \in Connection /\ Handshaken(c, th).state = "CONNECTING"
      /\ Handshaken(c, th).ib_size = 0
  <2>1. conn.state # "NONE"
    BY Zenon
  <2>2. th.seq \in 0..(SeqMod - 1)
    BY Zenon, <2>1, InputFacts
  <2> QED
    BY Zenon, <1>1, <2>2, HandshakeFields
<1>4. CASE /\ conn' = update_connection([SendTcpDone(Handshaken(c, th)) EXCEPT !.state = "CONNECTED"])
           /\ cstate' = "CONNECTING2" /\ got' = got
  <2>1. PICK d : d = [SendTcpDone(Handshaken(c, th)) EXCEPT !.state = "CONNECTED"]
    BY Zenon
  <2>2. d \in Connection /\ d.state = "CONNECTED" /\ d.ib_size = 0
    BY Zenon, <1>3, <2>1, OpenedFields
  <2>3. conn'.state = "CONNECTED" /\ conn'.ib_size = 0
    BY Zenon, <1>4, <2>1, <2>2, UpdateConnection
  <2> QED
    BY Zenon, <1>1, <1>4, <2>3 DEF HostShape, Opened
<1>5. [c EXCEPT !.state = "REFUSED"].state = "REFUSED"
  BY Zenon DEF Connection
<1> QED
  BY Zenon, <1>2, <1>3, <1>4, <1>5 DEF InputConnecting

\* device_tcp_input on an open connection.
LEMMA InputConnectedShape ==
  ASSUME IndInv, SidesInv, toHost # <<>>, conn.state = "CONNECTED",
         NEW th, th = Head(toHost),
         NEW c \in Connection, c.state = "CONNECTED", c.ib_size = conn.ib_size,
         InputConnected(c, th), sent' = sent
  PROVE  HostShape
<1>1. got \in Nat /\ c.ib_size \in Nat /\ th.len \in Nat
  <2>1. {sent, got, acked} \subseteq Nat /\ conn.ib_size \in Nat /\ conn.state # "NONE"
    BY Zenon, OpenFacts
  <2>2. {th.win, th.len, th.pos, th.apos} \subseteq Nat
    BY Zenon, <2>1, InputFacts
  <2> QED
    BY Zenon, <2>1, <2>2
<1>2. ASSUME NEW d, d.state \notin {"REFUSED", "CONNECTING"}, d.ib_size \in Nat,
             connection_teardown(d, got, FALSE)
      PROVE  HostShape
  <2>1. got <= got /\ FALSE \in BOOLEAN
    BY <1>1
  <2> QED
    BY Zenon, <1>1, <1>2, <2>1, OpenFails
<1>3. ASSUME NEW d, d = update_connection(Received(c, th.len)), send_tcp_ack(d)
      PROVE  HostShape
  <2>1. d \in Connection /\ d.state = "CONNECTED" /\ d.ib_size = c.ib_size + th.len
    <3>1. PICK r : r = Received(c, th.len)
      BY Zenon
    <3>2. r \in Connection /\ r.state = "CONNECTED" /\ r.ib_size = c.ib_size + th.len
      BY Zenon, <1>1, <3>1, ReceivedFields
    <3> QED
      BY Zenon, <1>3, <3>1, <3>2, UpdateConnection
  <2>2. conn.ib_size <= d.ib_size
    BY <1>1, <2>1
  <2> QED
    BY Zenon, <1>3, <2>1, <2>2, SendAckShape
<1>4. /\ [c EXCEPT !.state = "DYING"].state = "DYING"
      /\ [c EXCEPT !.state = "DYING"].ib_size = c.ib_size
  BY Zenon DEF Connection
<1>5. CASE connection_device_input(c, th.len)
  BY Zenon, <1>1, <1>2, <1>3, <1>5 DEF connection_device_input
<1>6. c.state \notin {"REFUSED", "CONNECTING"} /\ "DYING" \notin {"REFUSED", "CONNECTING"}
  BY Zenon
<1> QED
  BY Zenon, <1>1, <1>2, <1>4, <1>5, <1>6 DEF InputConnected

\* device_tcp_input for a connection that is gone.
LEMMA InputUnknownShape ==
  ASSUME IndInv, SidesInv, conn.state = "NONE", NEW th, InputUnknown(th), sent' = sent
  PROVE  HostShape
<1> DEFINE rst == [flags |-> "RST", seq |-> 0, ack |-> th.seq,
                   win |-> 0, len |-> 0, pos |-> sent, apos |-> got]
<1>1. /\ toDev' = toDev \/ toDev' = Append(toDev, rst)
      /\ UNCHANGED <<conn, cstate, got>>
  BY Zenon DEF InputUnknown
<1>2. rst.flags # "ACK" /\ toDev \in Seq(Segment)
  BY Zenon DEF IndInv, TypeOK
<1> HIDE DEF rst
<1>3. NoNewAck
  BY Zenon, <1>1, <1>2, AppendFlags DEF NoNewAck
<1> QED
  BY Zenon, <1>1, <1>3 DEF HostShape, AtRest, SidesInv

\* The whole handler.
LEMMA TcpInputShape ==
  ASSUME IndInv, SidesInv, device_tcp_input
  PROVE  HostShape
<1>1. PICK th : th = Head(toHost)
  BY Zenon
<1>2. /\ toHost # <<>> /\ sent' = sent /\ conn \in Connection
      /\ \/ conn.state = "CONNECTING" /\ InputConnecting(Learned(conn, th), th)
         \/ conn.state = "CONNECTED" /\ InputConnected(Learned(conn, th), th)
         \/ conn.state = "NONE" /\ InputUnknown(th)
  BY Zenon, <1>1 DEF device_tcp_input, IndInv, TypeOK
<1>3. th \in Segment
  BY Zenon, <1>1, <1>2, TailElements DEF IndInv, TypeOK
<1>4. /\ Learned(conn, th) \in Connection
      /\ Learned(conn, th).state = conn.state
      /\ Learned(conn, th).ib_size = conn.ib_size
      /\ Learned(conn, th).tx_seq = conn.tx_seq
      /\ Learned(conn, th).tx_ack = conn.tx_ack
  BY Zenon, <1>2, <1>3, LearnedFields
<1> QED
  BY Zenon, <1>1, <1>2, <1>4, InputConnectingShape, InputConnectedShape, InputUnknownShape

\* A connect, or the CONNREFUSED of one whose SYN could not be sent.
LEMMA StartConnectShape ==
  ASSUME IndInv, SidesInv, device_start_connect
  PROVE  HostShape /\ dev' = dev
<1> DEFINE syn == TcpSegment(Zeroed, got, "SYN", 0)
<1>1. /\ cstate = "COMMAND" /\ conn.state = "NONE" /\ UNCHANGED <<dev, sent, got>>
      /\ \/ /\ toDev' = Append(toDev, syn)
            /\ conn' = [Zeroed EXCEPT !.state = "CONNECTING"] /\ cstate' = "CONNECTING1"
         \/ UNCHANGED <<toDev, conn, cstate>>
  BY Zenon DEF device_start_connect
<1>2. syn.flags # "ACK" /\ toDev \in Seq(Segment)
  BY Zenon DEF TcpSegment, IndInv, TypeOK
<1> HIDE DEF syn
<1>3. NoNewAck
  BY Zenon, <1>1, <1>2, AppendFlags DEF NoNewAck
<1>4. [Zeroed EXCEPT !.state = "CONNECTING"].state = "CONNECTING"
  BY Zenon DEF Zeroed
<1> QED
  BY Zenon, <1>1, <1>3, <1>4 DEF HostShape, AtRest

\* Data of the client is sent after data for it was written.
LEMMA ClientProcessShape ==
  ASSUME IndInv, SidesInv, device_client_process
  PROVE  HostShape /\ dev' = dev
<1>1. conn.state = "CONNECTED" /\ cstate = "CONNECTED" /\ dev' = dev
  BY Zenon DEF device_client_process
<1>2. /\ {sent, got, acked} \subseteq Nat /\ conn \in Connection /\ conn.ib_size \in Nat
  BY Zenon, <1>1, OpenFacts
<1>3. ASSUME NEW d, d.state = "CONNECTED", d.ib_size \in Nat, NEW g \in Nat, got <= g,
             connection_teardown(d, g, FALSE), sent' = sent
      PROVE  HostShape
  <2>1. FALSE \in BOOLEAN /\ d.state \notin {"REFUSED", "CONNECTING"} /\ got \in Nat
    BY Zenon, <1>2, <1>3
  <2> QED
    BY Zenon, <1>1, <1>3, <2>1, OpenFails
<1>4. ASSUME NEW w \in Nat, w <= conn.ib_size
      PROVE  /\ Written(conn, w) \in Connection /\ Written(conn, w).state = "CONNECTED"
             /\ Written(conn, w).ib_size \in Nat
             /\ got + w \in Nat /\ got <= got + w
             /\ got + conn.ib_size <= (got + w) + Written(conn, w).ib_size
  <2>1. /\ Written(conn, w) \in Connection /\ Written(conn, w).state = "CONNECTED"
        /\ Written(conn, w).ib_size = conn.ib_size - w
    BY Zenon, <1>1, <1>2, <1>4, WrittenFields
  <2>2. /\ conn.ib_size - w \in Nat /\ got + w \in Nat /\ got <= got + w
        /\ got + conn.ib_size <= (got + w) + (conn.ib_size - w)
    BY <1>2, <1>4
  <2> QED
    BY <2>1, <2>2, Zenon
<1>5. ASSUME NEW w \in Nat, w <= conn.ib_size, conn' = update_connection(Written(conn, w)),
             got' = got + w, UNCHANGED <<toDev, cstate, sent>>
      PROVE  HostShape
  <2>1. conn'.state = "CONNECTED" /\ conn'.ib_size = Written(conn, w).ib_size
    BY Zenon, <1>4, <1>5, UpdateConnection
  <2>2. sent <= sent'
    BY <1>2, <1>5
  <2>3. got <= got' /\ got + conn.ib_size <= got' + conn'.ib_size
    BY <1>4, <1>5, <2>1, Zenon
  <2> QED
    BY Zenon, <1>1, <1>5, <2>1, <2>2, <2>3 DEF HostShape, Moved
<1>6. ASSUME NEW w \in Nat, w <= conn.ib_size, NEW n \in 0..Smallest(conn.sendable, UpBytes - sent),
             ForwardToDevice(Written(conn, w), got + w, n)
      PROVE  HostShape
  <2>1. CASE connection_teardown(Written(conn, w), got + w, FALSE) /\ sent' = sent
    BY Zenon, <1>3, <1>4, <1>6, <2>1
  <2>2. CASE /\ conn' = update_connection(Sent(SendTcpDone(Written(conn, w)), n))
             /\ sent' = sent + n /\ cstate' = cstate /\ got' = got + w
    <3>1. n \in Nat
      <4>1. conn.sendable \in Nat BY Zenon, <1>2 DEF Connection
      <4> QED BY <1>2, <4>1, ConstantTypes DEF Smallest
    <3>2. PICK d : d = SendTcpDone(Written(conn, w))
      BY Zenon
    <3>3. d \in Connection /\ d.state = "CONNECTED" /\ d.ib_size = Written(conn, w).ib_size
      BY Zenon, <1>4, <1>6, <3>2, SendTcpDoneFields
    <3>4. PICK e : e = Sent(d, n)
      BY Zenon
    <3>5. e \in Connection /\ e.state = "CONNECTED" /\ e.ib_size = Written(conn, w).ib_size
      BY Zenon, <3>1, <3>3, <3>4, SentFields
    <3>6. conn'.state = "CONNECTED" /\ conn'.ib_size = Written(conn, w).ib_size
      BY Zenon, <2>2, <3>2, <3>4, <3>5, UpdateConnection
    <3>7. sent <= sent'
      BY <1>2, <2>2, <3>1
    <3>8. got <= got' /\ got + conn.ib_size <= got' + conn'.ib_size
      BY <1>4, <1>6, <2>2, <3>6, Zenon
    <3> QED
      BY Zenon, <1>1, <2>2, <3>6, <3>7, <3>8 DEF HostShape, Moved
  <2> QED
    BY Zenon, <1>6, <2>1, <2>2 DEF ForwardToDevice
<1>7. ASSUME NEW ev, NEW w \in IF "POLLOUT" \in ev THEN 1..conn.ib_size ELSE {0}
      PROVE  w \in Nat /\ w <= conn.ib_size
  BY <1>2, <1>7
<1>8. got \in Nat /\ got <= got
  BY <1>2
<1>9. ASSUME connection_teardown(conn, got, FALSE), sent' = sent
      PROVE  HostShape
  BY Zenon, <1>1, <1>2, <1>3, <1>8, <1>9
<1>10. HostShape
  BY ZenonT(40), <1>5, <1>6, <1>7, <1>9 DEF device_client_process
<1> QED
  BY Zenon, <1>1, <1>10

\* The acknowledgement of an expired timer.
LEMMA TimeoutsShape ==
  ASSUME IndInv, SidesInv, device_check_timeouts
  PROVE  HostShape /\ dev' = dev
<1>1. conn.state = "CONNECTED" /\ send_tcp_ack(conn) /\ sent' = sent /\ dev' = dev
  BY Zenon DEF device_check_timeouts
<1>2. conn \in Connection /\ conn.ib_size \in Nat
  BY Zenon, <1>1, OpenFacts
<1>3. conn.ib_size <= conn.ib_size
  BY Zenon, <1>2, LeqReflexive
<1> QED
  BY Zenon, <1>1, <1>2, <1>3, SendAckShape

\* A connection torn down from outside, in either of its states.
LEMMA PlainTeardownShape ==
  ASSUME IndInv, SidesInv, conn.state # "NONE", NEW b \in BOOLEAN,
         connection_teardown(conn, got, b), sent' = sent
  PROVE  HostShape
<1>1. /\ conn \in Connection /\ conn.ib_size \in Nat /\ got \in Nat /\ toDev \in Seq(Segment)
      /\ conn.state \in {"CONNECTING", "CONNECTED"}
  BY Zenon DEF IndInv, TypeOK, Connection, ConnStates
<1>2. CASE conn.state = "CONNECTED"
  <2>1. conn.state \notin {"REFUSED", "CONNECTING"} /\ got <= got
    BY Zenon, <1>1, <1>2, LeqReflexive
  <2> QED
    BY Zenon, <1>1, <1>2, <2>1, OpenFails
<1>3. CASE conn.state = "CONNECTING"
  <2>1. cstate # "CLOSED"
    BY Zenon, <1>3 DEF SidesInv
  <2> QED
    BY Zenon, <1>1, <1>3, <2>1, ConnectFails
<1> QED
  BY Zenon, <1>1, <1>2, <1>3

\* RESULT_OK is on its way to the client.
LEMMA ProcessSendShape ==
  ASSUME IndInv, SidesInv, process_send
  PROVE  HostShape /\ dev' = dev
<1>1. /\ cstate = "CONNECTING2" /\ cstate' = "CONNECTED"
      /\ UNCHANGED <<conn, dev, sent, got>>
  BY Zenon DEF process_send
<1>2. conn.state = "CONNECTED"
  BY Zenon, <1>1 DEF SidesInv, IndInv, TypeOK, Connection, ConnStates
<1>3. {sent, got, acked} \subseteq Nat /\ conn.ib_size \in Nat
  BY Zenon, <1>2, OpenFacts
<1>4. sent <= sent' /\ got <= got' /\ got + conn.ib_size <= got' + conn'.ib_size
  BY <1>1, <1>3
<1> QED
  BY Zenon, <1>1, <1>2, <1>4 DEF HostShape, Moved

\* The cable is pulled: the host's side is torn down without an RST.
LEMMA RemoveShape ==
  ASSUME IndInv, SidesInv, device_remove
  PROVE  /\ HostShape
         /\ dev'.state = "GONE" /\ dev'.rcv = dev.rcv /\ dev'.buf = dev.buf /\ dev'.nxt = dev.nxt
<1>1. /\ dev' = [dev EXCEPT !.state = "GONE"] /\ toDev' = <<>> /\ sent' = sent
      /\ \/ conn.state = "NONE" /\ UNCHANGED <<conn, cstate, got>>
         \/ conn.state # "NONE" /\ TeardownClient(conn, got, FALSE)
  BY Zenon DEF device_remove
<1>2. /\ dev \in Device /\ conn \in Connection /\ conn.ib_size \in Nat /\ got \in Nat
      /\ conn.state \in {"NONE", "CONNECTING", "CONNECTED"}
  BY Zenon DEF IndInv, TypeOK, Connection, ConnStates
<1>3. dev'.state = "GONE" /\ dev'.rcv = dev.rcv /\ dev'.buf = dev.buf /\ dev'.nxt = dev.nxt
  BY Zenon, <1>1, <1>2 DEF Device
<1>4. NoNewAck
  <2>1. DOMAIN toDev' = {}
    BY <1>1
  <2> QED
    BY Zenon, <2>1 DEF NoNewAck
<1>5. CASE conn.state = "NONE" /\ UNCHANGED <<conn, cstate, got>>
  BY Zenon, <1>1, <1>3, <1>4, <1>5 DEF HostShape, AtRest, SidesInv
<1>6. CASE conn.state = "CONNECTED" /\ TeardownClient(conn, got, FALSE)
  <2>1. conn.state \notin {"REFUSED", "CONNECTING"} /\ got <= got /\ FALSE \in BOOLEAN
    BY Zenon, <1>2, <1>6, LeqReflexive
  <2> QED
    BY Zenon, <1>1, <1>2, <1>3, <1>6, <2>1, TeardownIsTorn DEF HostShape
<1>7. CASE conn.state = "CONNECTING" /\ TeardownClient(conn, got, FALSE)
  <2>1. cstate # "CLOSED" /\ FALSE \in BOOLEAN
    BY Zenon, <1>7 DEF SidesInv
  <2> QED
    BY Zenon, <1>1, <1>3, <1>4, <1>7, <2>1, TeardownIsAtRest DEF HostShape
<1> QED
  BY Zenon, <1>1, <1>2, <1>5, <1>6, <1>7

\* The three things that a step of the device can do to the streams, while the
\* host's side stands still.
DevRests ==
  /\ dev'.state = dev.state \/ (dev.state = "LISTEN" /\ dev'.state = "SYNRCVD")
  /\ dev'.rcv = dev.rcv /\ dev'.buf = dev.buf /\ dev'.nxt = dev.nxt

DevMoved ==
  /\ HostSide # "idle"
  /\ dev.state \in {"SYNRCVD", "OPEN"} /\ dev'.state = "OPEN"
  /\ dev.rcv <= dev'.rcv /\ dev.rcv - dev.buf <= dev'.rcv - dev'.buf /\ dev.nxt <= dev'.nxt

DevEnded ==
  /\ dev'.state = "CLOSED"
  /\ dev'.rcv = dev.rcv /\ dev'.buf = dev.buf /\ dev'.nxt = dev.nxt

DeviceShape ==
  /\ UNCHANGED <<conn, cstate, sent, got>>
  /\ NoNewAck
  /\ DevRests \/ DevMoved \/ DevEnded

\* What is behind the first segment was there before.
LEMMA TailNoAck ==
  ASSUME IndInv, toDev # <<>>, toDev' = Tail(toDev)
  PROVE  NoNewAck
<1>1. toDev \in Seq(Segment)
  BY Zenon DEF IndInv, TypeOK
<1>2. /\ Len(toDev) \in Nat
      /\ DOMAIN toDev' = 1..(Len(toDev) - 1) /\ DOMAIN toDev = 1..Len(toDev)
      /\ \A i \in DOMAIN toDev' : toDev'[i] = toDev[i + 1]
  BY Zenon, <1>1, TailElements
<1>3. ASSUME NEW i \in DOMAIN toDev'
      PROVE  i + 1 \in DOMAIN toDev /\ toDev'[i] = toDev[i + 1]
  BY <1>2
<1> QED
  BY Zenon, <1>3 DEF NoNewAck

\* The device answers a SYN.
LEMMA DevAcceptShape ==
  ASSUME IndInv, SidesInv, DevAccept
  PROVE  DeviceShape
<1>1. /\ toDev # <<>> /\ toDev' = Tail(toDev) /\ UNCHANGED <<conn, cstate, sent, got>>
      /\ dev.state = "LISTEN"
      /\ \/ dev' = Advertised([dev EXCEPT !.state = "SYNRCVD", !.win = Head(toDev).win * WinUnit])
         \/ dev' = [dev EXCEPT !.state = "CLOSED"]
  BY Zenon DEF DevAccept
<1>2. NoNewAck
  BY Zenon, <1>1, TailNoAck
<1>3. dev \in Device
  BY Zenon DEF IndInv, TypeOK
<1>4. DevRests \/ DevEnded
  BY Zenon, <1>1, <1>3 DEF DevRests, DevEnded, Advertised, Device
<1> QED
  BY Zenon, <1>1, <1>2, <1>4 DEF DeviceShape

\* The device takes a segment of the host.
LEMMA DevReceiveShape ==
  ASSUME IndInv, SidesInv, DevReceive
  PROVE  DeviceShape
<1>1. PICK th : th = Head(toDev)
  BY Zenon
<1>2. /\ toDev # <<>> /\ toDev' = Tail(toDev) /\ UNCHANGED <<conn, cstate, sent, got>>
      /\ \/ /\ dev.state \in {"SYNRCVD", "OPEN"} /\ th.flags = "ACK"
            /\ dev' = [dev EXCEPT !.state = "OPEN",
                                  !.rcv = @ + th.len,
                                  !.buf = @ + th.len,
                                  !.una = @ + ((th.ack - (1 + @)) % SeqMod),
                                  !.win = th.win * WinUnit]
         \/ dev' = [dev EXCEPT !.state = "CLOSED"]
         \/ dev' = dev
  BY Zenon, <1>1 DEF DevReceive
<1>3. NoNewAck
  BY Zenon, <1>2, TailNoAck
<1>4. /\ dev \in Device /\ dev.rcv \in Nat /\ dev.buf \in Nat /\ dev.nxt \in Nat
  BY Zenon DEF IndInv, TypeOK, Device
<1>5. CASE dev' = [dev EXCEPT !.state = "CLOSED"]
  BY Zenon, <1>2, <1>3, <1>4, <1>5 DEF DeviceShape, DevEnded, Device
<1>6. CASE dev' = dev
  BY Zenon, <1>2, <1>3, <1>6 DEF DeviceShape, DevRests
<1>7. CASE /\ dev.state \in {"SYNRCVD", "OPEN"} /\ th.flags = "ACK"
           /\ dev' = [dev EXCEPT !.state = "OPEN",
                                 !.rcv = @ + th.len,
                                 !.buf = @ + th.len,
                                 !.una = @ + ((th.ack - (1 + @)) % SeqMod),
                                 !.win = th.win * WinUnit]
  <2>1. /\ dev'.state = "OPEN" /\ dev'.rcv = dev.rcv + th.len /\ dev'.buf = dev.buf + th.len
        /\ dev'.nxt = dev.nxt
    BY Zenon, <1>4, <1>7 DEF Device
  <2>2. th = toDev[1] /\ 1 \in DOMAIN toDev /\ {th.len, th.apos, th.win} \subseteq Nat
    BY Zenon, <1>1, <1>2, HeadFacts
  <2>3. HostSide # "idle"
    BY Zenon, <1>7, <2>2 DEF SidesInv
  <2>4. /\ dev.rcv <= dev'.rcv /\ dev.rcv - dev.buf <= dev'.rcv - dev'.buf
        /\ dev.nxt <= dev'.nxt
    BY <1>4, <2>1, <2>2
  <2> QED
    BY Zenon, <1>2, <1>3, <1>7, <2>1, <2>3, <2>4 DEF DeviceShape, DevMoved
<1> QED
  BY Zenon, <1>2, <1>5, <1>6, <1>7

\* The steps of an open device.
LEMMA OpenDeviceShape ==
  ASSUME IndInv, SidesInv, DevSend \/ DevRead \/ DevAck \/ DevClose
  PROVE  DeviceShape
<1>1. dev.state = "OPEN" /\ UNCHANGED <<conn, cstate, toDev, sent, got>>
  BY Zenon DEF DevSend, DevRead, DevAck, DevClose
<1>2. HostSide # "idle" /\ NoNewAck
  BY Zenon, <1>1 DEF SidesInv, NoNewAck
<1>3. /\ dev \in Device /\ dev.rcv \in Nat /\ dev.buf \in Nat /\ dev.nxt \in Nat
  BY Zenon DEF IndInv, TypeOK, Device
<1>4. ASSUME NEW n \in 1..DevSeg, dev' = Advertised([dev EXCEPT !.nxt = @ + n])
      PROVE  DevMoved
  <2>1. /\ dev'.state = "OPEN" /\ dev'.rcv = dev.rcv /\ dev'.buf = dev.buf
        /\ dev'.nxt = dev.nxt + n
    BY Zenon, <1>1, <1>3, <1>4 DEF Advertised, Device
  <2>2. /\ dev.rcv <= dev'.rcv /\ dev.rcv - dev.buf <= dev'.rcv - dev'.buf
        /\ dev.nxt <= dev'.nxt
    BY <1>3, <2>1, ConstantTypes
  <2> QED
    BY Zenon, <1>1, <1>2, <2>1, <2>2 DEF DevMoved
<1>5. ASSUME NEW n \in 1..dev.buf, dev' = [dev EXCEPT !.buf = @ - n]
      PROVE  DevMoved
  <2>1. /\ dev'.state = "OPEN" /\ dev'.rcv = dev.rcv /\ dev'.buf = dev.buf - n
        /\ dev'.nxt = dev.nxt
    BY Zenon, <1>1, <1>3, <1>5 DEF Device
  <2>2. /\ dev.rcv <= dev'.rcv /\ dev.rcv - dev.buf <= dev'.rcv - dev'.buf
        /\ dev.nxt <= dev'.nxt
    BY <1>3, <2>1
  <2> QED
    BY Zenon, <1>1, <1>2, <2>1, <2>2 DEF DevMoved
<1>6. ASSUME dev' = Advertised(dev)
      PROVE  DevRests
  BY Zenon, <1>3, <1>6 DEF Advertised, Device, DevRests
<1>7. ASSUME dev' = [dev EXCEPT !.state = "CLOSED"]
      PROVE  DevEnded
  BY Zenon, <1>3, <1>7 DEF Device, DevEnded
<1>8. DevRests \/ DevMoved \/ DevEnded
  BY Zenon, <1>4, <1>5, <1>6, <1>7 DEF DevSend, DevRead, DevAck, DevClose
<1> QED
  BY Zenon, <1>1, <1>2, <1>8 DEF DeviceShape

\* Nothing moves at all.
LEMMA StutterShape ==
  ASSUME UNCHANGED vars
  PROVE  DeviceShape
BY Zenon DEF vars, DeviceShape, DevRests, NoNewAck

\* Every step has one of these shapes.
LEMMA StepShape ==
  ASSUME IndInv, SidesInv, [Next]_vars
  PROVE  \/ HostShape /\ dev' = dev
         \/ /\ HostShape /\ dev'.state = "GONE"
            /\ dev'.rcv = dev.rcv /\ dev'.buf = dev.buf /\ dev'.nxt = dev.nxt
         \/ DeviceShape
<1>1. CASE device_start_connect   BY Zenon, <1>1, StartConnectShape
<1>2. CASE device_tcp_input       BY Zenon, <1>2, TcpInputShape DEF device_tcp_input
<1>3. CASE device_client_process  BY Zenon, <1>3, ClientProcessShape
<1>4. CASE device_check_timeouts  BY Zenon, <1>4, TimeoutsShape
<1>5. CASE process_send           BY Zenon, <1>5, ProcessSendShape
<1>6. CASE device_abort_connect
  BY Zenon, <1>6, PlainTeardownShape DEF device_abort_connect
<1>7. CASE device_remove          BY Zenon, <1>7, RemoveShape
<1>8. CASE device_kill_connections
  BY Zenon, <1>8, PlainTeardownShape DEF device_kill_connections
<1>9. CASE DevAccept              BY Zenon, <1>9, DevAcceptShape
<1>10. CASE DevReceive            BY Zenon, <1>10, DevReceiveShape
<1>11. CASE DevSend \/ DevRead \/ DevAck \/ DevClose
  BY Zenon, <1>11, OpenDeviceShape
<1>12. CASE UNCHANGED vars        BY Zenon, <1>12, StutterShape
<1> QED
  BY Zenon, <1>1, <1>2, <1>3, <1>4, <1>5, <1>6, <1>7, <1>8, <1>9, <1>10, <1>11, <1>12 DEF Next

\* The host's side, state by state.
LEMMA HostSides ==
  /\ conn.state = "CONNECTED" => HostSide = "open"
  /\ conn.state # "CONNECTED" => HostSide = IF cstate = "CLOSED" THEN "ended" ELSE "idle"
BY Zenon DEF HostSide

LEMMA HostSidesNext ==
  /\ conn'.state = "CONNECTED" => HostSide' = "open"
  /\ conn'.state # "CONNECTED" => HostSide' = IF cstate' = "CLOSED" THEN "ended" ELSE "idle"
BY Zenon DEF HostSide

\* SidesInv holds initially and every step keeps it.
LEMMA SidesKept ==
  ASSUME IndInv, SidesInv, [Next]_vars
  PROVE  SidesInv'
<1>1. ASSUME HostShape, dev' = dev \/ dev'.state = "GONE"
      PROVE  SidesInv'
  <2>1. CASE AtRest
    <3>1. HostSide' = "idle" => HostSide = "idle"
      BY Zenon, <2>1, HostSides, HostSidesNext DEF AtRest
    <3>2. HostSide' = "idle" =>
            dev'.state # "OPEN" /\ \A i \in DOMAIN toDev' : toDev'[i].flags # "ACK"
      BY Zenon, <1>1, <2>1, <3>1 DEF AtRest, NoNewAck, SidesInv
    <3> QED
      BY Zenon, <2>1, <3>2 DEF AtRest, SidesInv
  <2>2. CASE Opened
    BY Zenon, <2>2, HostSidesNext DEF Opened, SidesInv
  <2>3. CASE Moved
    BY Zenon, <2>3, HostSidesNext DEF Moved, SidesInv
  <2>4. CASE Torn
    BY Zenon, <2>4, HostSidesNext DEF Torn, SidesInv
  <2> QED
    BY Zenon, <1>1, <2>1, <2>2, <2>3, <2>4 DEF HostShape
<1>2. CASE DeviceShape
  <2>1. conn' = conn /\ cstate' = cstate
    BY Zenon, <1>2 DEF DeviceShape
  <2>2. HostSide' = HostSide
    BY Zenon, <2>1 DEF HostSide
  <2>3. HostSide = "idle" =>
            dev'.state # "OPEN" /\ \A i \in DOMAIN toDev' : toDev'[i].flags # "ACK"
    BY Zenon, <1>2 DEF DeviceShape, DevRests, DevMoved, DevEnded, NoNewAck, SidesInv
  <2> QED
    BY Zenon, <2>1, <2>2, <2>3 DEF SidesInv
<1> QED
  BY Zenon, <1>1, <1>2, StepShape

LEMMA SidesInitially == Init => SidesInv
<1> SUFFICES ASSUME Init PROVE SidesInv
  BY Zenon
<1>1. conn.state = "NONE" /\ cstate = "COMMAND" /\ dev.state = "LISTEN" /\ toDev = <<>>
  BY Zenon DEF Init, Zeroed
<1>2. DOMAIN toDev = {}
  BY <1>1
<1> QED
  BY Zenon, <1>1, <1>2 DEF SidesInv

\* The states of a client and of its connection always agree, and the device does
\* not open a connection of which the client has not been told.
THEOREM SidesAgree == Spec => []SidesInv
<1>1. IndInv /\ SidesInv /\ [Next]_vars => SidesInv'
  BY Zenon, SidesKept
<1> QED
  BY <1>1, SidesInitially, Invariance, PTL DEF Spec

\* A state of IndInv, as the streams see it.
StreamBounds ==
  /\ {sent, got, dev.rcv, dev.buf, dev.nxt} \subseteq Nat
  /\ dev.buf <= DevBuf /\ dev.rcv <= sent /\ sent <= (dev.rcv - dev.buf) + DevBuf
  /\ got <= dev.nxt /\ dev.nxt <= got + RecvWin
  /\ conn.state = "CONNECTED" =>
       /\ conn.ib_size \in Nat /\ Arrived = got + conn.ib_size
       /\ got + conn.ib_size <= dev.nxt /\ dev.state # "GONE"
  /\ conn.state # "CONNECTED" => Arrived = got

LEMMA StreamFacts == IndInv => StreamBounds
<1> SUFFICES ASSUME IndInv PROVE StreamBounds
  BY Zenon
<1>1. {sent, got, dev.rcv, dev.buf, dev.nxt, dev.una} \subseteq Nat /\ conn.ib_size \in Nat
  BY Zenon DEF IndInv, TypeOK, Device, Connection
<1>2. /\ dev.buf <= DevBuf /\ dev.rcv <= sent /\ sent <= dev.rcv + DevBuf - dev.buf
      /\ dev.una <= got /\ got <= dev.nxt /\ dev.nxt <= dev.una + RecvWin
  BY Zenon DEF IndInv, UpInv, DownInv, DevEdge
<1>3. sent <= (dev.rcv - dev.buf) + DevBuf /\ dev.nxt <= got + RecvWin
  BY <1>1, <1>2, ConstantTypes
<1>4. conn.state = "CONNECTED" => got + conn.ib_size <= dev.nxt /\ dev.state # "GONE"
  <2> SUFFICES ASSUME conn.state = "CONNECTED"
               PROVE  got + conn.ib_size <= dev.nxt /\ dev.state # "GONE"
    BY Zenon
  <2> QED
    BY Zenon, OpenFacts
<1> QED
  BY Zenon, <1>1, <1>2, <1>3, <1>4 DEF Arrived, StreamBounds

\* What a step of the host is to the streams, apart from the device's side.
LEMMA HostMaps ==
  ASSUME StreamBounds, StreamBounds', HostShape,
         dev'.rcv = dev.rcv, dev'.buf = dev.buf, dev'.nxt = dev.nxt
  PROVE  \/ UNCHANGED Streams!hostVars
         \/ Streams!HostEnds
         \/ /\ dev'.state # "GONE"
            /\ (UNCHANGED Streams!deviceVars => Streams!HostOpens \/ Streams!HostMoves)
<1> PICK h, h2, a, a2 : h = HostSide /\ h2 = HostSide' /\ a = Arrived /\ a2 = Arrived'
  BY Zenon
<1>1. /\ {sent, got, dev.rcv, dev.buf, dev.nxt, sent', got'} \subseteq Nat
      /\ got <= dev.nxt /\ got' <= dev.nxt
      /\ sent' <= (dev.rcv - dev.buf) + DevBuf
      /\ conn.state = "CONNECTED" =>
           conn.ib_size \in Nat /\ a = got + conn.ib_size /\ h = "open"
      /\ conn.state # "CONNECTED" =>
           a = got /\ h = IF cstate = "CLOSED" THEN "ended" ELSE "idle"
  BY Zenon, HostSides DEF StreamBounds
<1>2. /\ conn'.state = "CONNECTED" =>
           /\ conn'.ib_size \in Nat /\ a2 = got' + conn'.ib_size /\ h2 = "open"
           /\ got' + conn'.ib_size <= dev.nxt /\ dev'.state # "GONE"
      /\ conn'.state # "CONNECTED" =>
           a2 = got' /\ h2 = IF cstate' = "CLOSED" THEN "ended" ELSE "idle"
  BY Zenon, HostSidesNext DEF StreamBounds
<1>3. CASE AtRest
  <2>1. a = got /\ a2 = got /\ got' = got /\ sent' = sent /\ got \in got..dev.nxt
    BY <1>1, <1>2, <1>3 DEF AtRest
  <2>2. h2 = h \/ (h = "idle" /\ h2 = "ended")
    BY Zenon, <1>1, <1>2, <1>3 DEF AtRest
  <2> QED
    BY Zenon, <2>1, <2>2 DEF Streams!HostEnds, Streams!hostVars
<1>4. CASE Opened
  <2>1. a = got /\ a2 = got' + 0 /\ got' = got /\ sent' = sent /\ h = "idle" /\ h2 = "open"
    BY Zenon, <1>1, <1>2, <1>4 DEF Opened
  <2>2. a2 = a
    BY <1>1, <2>1
  <2> QED
    BY Zenon, <1>2, <1>4, <2>1, <2>2 DEF Streams!HostOpens, Opened
<1>5. CASE Moved
  <2>1. /\ sent <= sent' /\ got <= got' /\ got + conn.ib_size <= got' + conn'.ib_size
        /\ conn.state = "CONNECTED" /\ conn'.state = "CONNECTED"
    BY Zenon, <1>5 DEF Moved
  <2>2. /\ sent' \in sent..((dev.rcv - dev.buf) + DevBuf)
        /\ a2 \in a..dev.nxt /\ got' \in got..a2
    BY <1>1, <1>2, <2>1, ConstantTypes
  <2> QED
    BY Zenon, <1>1, <1>2, <2>1, <2>2 DEF Streams!HostMoves
<1>6. CASE Torn
  <2>1. /\ h = "open" /\ h2 = "ended" /\ a2 = got' /\ sent' = sent
        /\ got <= got' /\ got' <= dev.nxt
    BY Zenon, <1>1, <1>2, <1>6 DEF Torn
  <2>2. got' \in got..dev.nxt
    BY <1>1, <2>1
  <2> QED
    BY Zenon, <2>1, <2>2 DEF Streams!HostEnds
<1> QED
  BY Zenon, <1>3, <1>4, <1>5, <1>6 DEF HostShape

\* What a step of the device is to the streams.
LEMMA DeviceMaps ==
  ASSUME StreamBounds, StreamBounds', dev \in Device, DeviceShape
  PROVE  [Streams!Next]_(Streams!vars)
<1> PICK d, d2 : d = DeviceSide /\ d2 = DeviceSide'
  BY Zenon
<1>1. conn' = conn /\ cstate' = cstate /\ sent' = sent /\ got' = got
  BY Zenon DEF DeviceShape
<1>2. HostSide' = HostSide /\ Arrived' = Arrived
  BY Zenon, <1>1 DEF HostSide, Arrived
<1>3. UNCHANGED Streams!hostVars
  BY Zenon, <1>1, <1>2 DEF Streams!hostVars
<1>4. CASE DevRests
  <2>1. DeviceSide' = DeviceSide
    BY Zenon, <1>4 DEF DevRests, DeviceSide
  <2> QED
    BY Zenon, <1>3, <1>4, <2>1 DEF DevRests, Streams!vars, Streams!deviceVars
<1>5. CASE DevMoved
  <2>1. d \in {"idle", "open"} /\ d2 = "open" /\ HostSide # "idle"
    BY Zenon, <1>5 DEF DevMoved, DeviceSide
  <2>2. /\ {sent, got, dev.rcv, dev.buf, dev.nxt, dev'.rcv, dev'.buf, dev'.nxt} \subseteq Nat
        /\ dev'.rcv <= sent /\ dev'.nxt <= got + RecvWin
    BY Zenon, <1>1 DEF StreamBounds
  <2>3. dev.rcv <= dev'.rcv /\ dev.rcv - dev.buf <= dev'.rcv - dev'.buf /\ dev.nxt <= dev'.nxt
    BY Zenon, <1>5 DEF DevMoved
  <2>4. /\ dev'.rcv \in dev.rcv..sent
        /\ dev'.rcv - dev'.buf \in (dev.rcv - dev.buf)..dev'.rcv
        /\ dev'.nxt \in dev.nxt..(got + RecvWin)
    BY <2>2, <2>3, ConstantTypes
  <2> QED
    BY Zenon, <1>3, <2>1, <2>4 DEF Streams!DeviceMoves, Streams!Next
<1>6. CASE DevEnded
  <2>1. d2 = "ended"
    BY Zenon, <1>6 DEF DevEnded, DeviceSide
  <2> QED
    BY Zenon, <1>3, <1>6, <2>1 DEF DevEnded, Streams!DeviceEnds, Streams!Next
<1> QED
  BY Zenon, <1>4, <1>5, <1>6 DEF DeviceShape

\* Every step of the connection is a step of the streams, or none.
LEMMA StepMaps ==
  ASSUME IndInv, SidesInv, IndInv', StreamBounds, StreamBounds', [Next]_vars
  PROVE  [Streams!Next]_(Streams!vars)
<1>1. CASE HostShape /\ dev' = dev
  <2>1. DeviceSide' = DeviceSide
    BY Zenon, <1>1 DEF DeviceSide
  <2>2. UNCHANGED Streams!deviceVars
    BY Zenon, <1>1, <2>1 DEF Streams!deviceVars
  <2>3. \/ UNCHANGED Streams!hostVars
        \/ Streams!HostEnds
        \/ Streams!HostOpens \/ Streams!HostMoves
    BY Zenon, <1>1, <2>2, HostMaps
  <2> QED
    BY Zenon, <2>2, <2>3 DEF Streams!Next, Streams!vars
<1>2. CASE /\ HostShape /\ dev'.state = "GONE"
           /\ dev'.rcv = dev.rcv /\ dev'.buf = dev.buf /\ dev'.nxt = dev.nxt
  <2>1. DeviceSide' = "ended"
    BY Zenon, <1>2 DEF DeviceSide
  <2>2. Streams!DeviceEnds
    BY Zenon, <1>2, <2>1 DEF Streams!DeviceEnds
  <2>3. UNCHANGED Streams!hostVars \/ Streams!HostEnds
    BY Zenon, <1>2, HostMaps
  <2> QED
    BY Zenon, <2>2, <2>3 DEF Streams!Next
<1>3. CASE DeviceShape
  BY Zenon, <1>3, DeviceMaps DEF IndInv, TypeOK
<1> QED
  BY Zenon, <1>1, <1>2, <1>3, StepShape

\* A multiplexed connection implements the pair of byte streams that StreamPair
\* describes, for every width of the counters and every size of the buffers: no
\* handler of device.c delivers, repeats or takes back a byte, sends more than the
\* other side has room for, or moves anything after a teardown.
THEOREM Refinement == Spec => StreamsImplemented
<1>1. Init => Streams!Init
  <2> SUFFICES ASSUME Init PROVE Streams!Init
    BY Zenon
  <2>1. /\ conn.state = "NONE" /\ cstate = "COMMAND" /\ dev.state = "LISTEN"
        /\ dev.rcv = 0 /\ dev.buf = 0 /\ dev.nxt = 0 /\ sent = 0 /\ got = 0
    BY Zenon DEF Init, Zeroed
  <2>2. HostSide = "idle" /\ DeviceSide = "idle" /\ Arrived = 0 /\ dev.rcv - dev.buf = 0
    BY <2>1 DEF HostSide, DeviceSide, Arrived
  <2> QED
    BY Zenon, <2>1, <2>2 DEF Streams!Init
<1>2. /\ IndInv /\ SidesInv /\ IndInv' /\ StreamBounds /\ StreamBounds' /\ [Next]_vars
      => [Streams!Next]_(Streams!vars)
  BY Zenon, StepMaps
<1> QED
  BY <1>1, <1>2, StreamFacts, Invariance, SidesAgree, PTL
     DEF Spec, StreamsImplemented, Streams!Spec

=============================================================================
