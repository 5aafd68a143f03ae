-------------------------- MODULE MuxPacketsProofs --------------------------
(***************************************************************************)
(* The packets of a device, for transfers and a buffer of any size, any    *)
(* set of packets and any number of ports: the inductive invariant of      *)
(* MuxPackets, and that it implements PacketPipe.                          *)
(***************************************************************************)
EXTENDS MuxPackets, FiniteSetTheorems, WellFoundedInduction, TLAPS

-----------------------------------------------------------------------------
(* Arithmetic of port numbers and transfer sizes.                            *)

\* Every integer is a multiple of M plus its remainder.
LEMMA DivMod ==
  ASSUME NEW M \in Nat \ {0}, NEW a \in Int
  PROVE  \E q \in Int, r \in 0..(M - 1) : a = M * q + r /\ a % M = r
BY SMT

\* A nonzero multiple of M is at least M away from zero.
LEMMA MultipleFar ==
  ASSUME NEW M \in Nat \ {0}, NEW d \in Int
  PROVE  /\ d >= 1 => M * d >= M
         /\ d <= -1 => M * d <= -M
BY SMT

\* Multiplication by M distributes.
LEMMA Distribute ==
  ASSUME NEW M \in Int, NEW p \in Int, NEW q \in Int
  PROVE  M * p - M * q = M * (p - q) /\ M * p + M * q = M * (p + q)
BY SMT

\* The remainder is unique.
LEMMA RemainderUnique ==
  ASSUME NEW M \in Nat \ {0}, NEW q \in Int, NEW r \in 0..(M - 1)
  PROVE  (M * q + r) % M = r
<1>1. PICK p \in Int, s \in 0..(M - 1) : M * q + r = M * p + s /\ (M * q + r) % M = s
  <2>1. M * q \in Int BY SMT
  <2>2. M * q + r \in Int BY <2>1
  <2> QED BY Zenon, <2>2, DivMod
<1>2. M * (q - p) = s - r
  BY <1>1, Distribute, SMT
<1>3. q - p = 0
  <2>1. CASE q - p >= 1 BY <2>1, <1>2, MultipleFar, SMT
  <2>2. CASE q - p <= -1 BY <2>2, <1>2, MultipleFar, SMT
  <2> QED BY <2>1, <2>2
<1> QED BY <1>1, <1>2, <1>3, SMT

\* A remainder is a counter value.
LEMMA ModRange ==
  ASSUME NEW M \in Nat \ {0}, NEW a \in Int
  PROVE  a % M \in 0..(M - 1)
BY SMT

\* Advancing a counter by n is advancing what it stands for by n.
LEMMA ModAdd ==
  ASSUME NEW M \in Nat \ {0}, NEW a \in Int, NEW n \in Int
  PROVE  ((a % M) + n) % M = (a + n) % M
<1>1. PICK q \in Int, r \in 0..(M - 1) : a = M * q + r /\ a % M = r
  BY Zenon, DivMod
<1>2. PICK p \in Int, s \in 0..(M - 1) : r + n = M * p + s /\ (r + n) % M = s
  <2>1. r + n \in Int OBVIOUS
  <2> QED BY Zenon, DivMod, <2>1
<1>3. a + n = M * (q + p) + s
  BY <1>1, <1>2, Distribute, SMT
<1>4. q + p \in Int OBVIOUS
<1>5. (a + n) % M = s
  BY Zenon, <1>3, <1>4, RemainderUnique
<1> QED BY Zenon, <1>1, <1>2, <1>5

-----------------------------------------------------------------------------
(* find_sport.                                                               *)

\* A nonempty set of naturals has a least element.
LEMMA LeastElement ==
  ASSUME NEW T, T \subseteq Nat, T # {}
  PROVE  \E k \in T : \A j \in T : k <= j
<1>1. PICK k \in T : \A j \in T : <<j, k>> \notin OpToRel(<, Nat)
  BY NatLessThanWellFounded, WFMin, Zenon
<1>2. \A j \in T : ~(j < k)
  BY Zenon, <1>1 DEF OpToRel
<1> QED BY <1>2

\* While the ports are not all in use, find_sport returns one that is not.
LEMMA FreePortIsFree ==
  ASSUME TypeOK, ~Full
  PROVE  FreePort \in 0..(PortMod - 1) /\ FreePort \notin InUse
<1> DEFINE Port(k) == (next_sport + k) % PortMod
<1>0. PortMod \in Nat \ {0} /\ PortMod >= 2 /\ next_sport \in 0..(PortMod - 1)
  BY PacketsAssumption DEF TypeOK
<1>1. InUse \subseteq 1..(PortMod - 1)
  BY <1>0 DEF TypeOK, InUse
<1>2. PICK p \in 1..(PortMod - 1) : p \notin InUse
  <2>1. Cardinality(1..(PortMod - 1)) = PortMod - 1
    BY FS_Interval, <1>0
  <2>2. IsFiniteSet(InUse) /\ Cardinality(InUse) \in Nat
    <3>1. IsFiniteSet(1..(PortMod - 1)) BY FS_Interval, <1>0
    <3>2. IsFiniteSet(InUse) BY <3>1, <1>1, FS_Subset, Zenon
    <3> QED BY <3>2, FS_CardinalityType, Zenon
  <2>3. InUse # 1..(PortMod - 1)
    BY <2>1, <2>2, <1>0 DEF Full
  <2> QED BY Zenon, <1>1, <2>3
<1>3. PICK free \in 0..(PortMod - 1) : Port(free) \notin InUse
  <2> DEFINE k == (p - next_sport) % PortMod
  <2>1. p - next_sport \in Int /\ p \in Int BY <1>0
  <2>2. k \in 0..(PortMod - 1) BY Zenon, <2>1, <1>0, ModRange
  <2>3. (k + next_sport) % PortMod = ((p - next_sport) + next_sport) % PortMod
    <3>1. next_sport \in Int BY <1>0
    <3> QED BY <2>1, <3>1, <1>0, ModAdd, Zenon
  <2>4. k + next_sport = next_sport + k /\ (p - next_sport) + next_sport = p
    BY <2>2, <1>0
  <2>5. p % PortMod = p
    <3>1. PortMod * 0 + p = p /\ p \in 0..(PortMod - 1) BY <1>0
    <3> QED BY <3>1, <1>0, RemainderUnique
  <2> QED BY Zenon, <2>2, <2>3, <2>4, <2>5, <1>2
<1> DEFINE T == {j \in 0..(PortMod - 1) : Port(j) \notin InUse}
<1>4. PICK m \in T : \A j \in T : m <= j
  <2>1. T \subseteq Nat BY <1>0
  <2>2. T # {}
    <3> HIDE DEF Port
    <3> QED BY <1>3, Zenon
  <2> HIDE DEF T
  <2> QED BY <2>1, <2>2, LeastElement, Zenon
<1>5. /\ m \in 0..(PortMod - 1) /\ Port(m) \notin InUse
      /\ \A j \in 0..(m - 1) : Port(j) \in InUse
  <2> HIDE DEF Port
  <2>1. m \in 0..(PortMod - 1) /\ Port(m) \notin InUse BY <1>4, Zenon
  <2>2. ASSUME NEW j \in 0..(m - 1) PROVE Port(j) \in InUse
    <3>1. j \in 0..(PortMod - 1) /\ ~(m <= j) BY <2>1, <1>0
    <3> QED BY <3>1, <1>4, Zenon
  <2> QED BY <2>1, <2>2, Zenon
<1> DEFINE First(k) == /\ Port(k) \notin InUse
                       /\ \A j \in 0..(k - 1) : Port(j) \in InUse
<1>6. FreePort = Port(CHOOSE k \in 0..(PortMod - 1) : First(k))
  BY Zenon DEF FreePort
<1>7. PICK c : c = (CHOOSE k \in 0..(PortMod - 1) : First(k)) BY Zenon
<1>8. c \in 0..(PortMod - 1) /\ First(c)
  <2> HIDE DEF Port
  <2>1. \E k \in 0..(PortMod - 1) : First(k) BY <1>5, Zenon
  <2> HIDE DEF First
  <2> QED BY <2>1, <1>7, Zenon
<1>9. next_sport + c \in Int BY <1>8, <1>0
<1> QED BY Zenon, <1>6, <1>7, <1>8, <1>9, <1>0, ModRange

\* find_sport returns no port, or one that no connection has.
LEMMA FindSport ==
  ASSUME TypeOK
  PROVE  /\ find_sport \in 0..(PortMod - 1)
         /\ find_sport # 0 => find_sport \notin InUse
         /\ PortAfter \in 0..(PortMod - 1)
<1>1. PortMod \in Nat \ {0} /\ next_sport \in 0..(PortMod - 1)
  BY PacketsAssumption DEF TypeOK
<1>2. /\ find_sport \in 0..(PortMod - 1)
      /\ find_sport # 0 => find_sport \notin InUse
  <2>1. CASE Full
    <3>1. find_sport = 0 BY <2>1, Zenon DEF find_sport
    <3> QED BY <3>1, <1>1
  <2>2. CASE ~Full
    <3>1. find_sport = FreePort BY <2>2, Zenon DEF find_sport
    <3> QED BY <3>1, <2>2, FreePortIsFree, Zenon
  <2> QED BY Zenon, <2>1, <2>2
<1>3. PortAfter \in 0..(PortMod - 1)
  <2>1. find_sport + 1 \in Int BY <1>1, <1>2
  <2>2. (find_sport + 1) % PortMod \in 0..(PortMod - 1) BY Zenon, <2>1, <1>1, ModRange
  <2> QED BY <2>2, <1>1, Zenon DEF PortAfter
<1> QED BY Zenon, <1>2, <1>3

-----------------------------------------------------------------------------

\* What handling a packet, or what was taken for one, may do to the device.
InputEffect ==
  /\ state' \in {"INIT", "ACTIVE", "GONE"}
  /\ state = "GONE" => state' = "GONE"
  /\ next_sport' = next_sport
  /\ sport' \in [Clients -> 0..(PortMod - 1)]
  /\ \A c \in Clients : sport'[c] \in {sport[c], 0}
  /\ crashed' \in BOOLEAN

\* Input has no other effect.
LEMMA InputBounded ==
  ASSUME TypeOK, ~crashed, NEW proto, NEW p, Input(proto, p)
  PROVE  InputEffect
<1>0. /\ state \in {"INIT", "ACTIVE", "GONE"} /\ crashed = FALSE
      /\ sport \in [Clients -> 0..(PortMod - 1)] /\ 0 \in 0..(PortMod - 1)
  BY PacketsAssumption DEF TypeOK
<1>1. CASE device_control_input(proto)
  BY Zenon, <1>0, <1>1 DEF InputEffect, portVars, device_control_input
<1>2. ASSUME NEW known \in BOOLEAN, device_version_input(known) PROVE InputEffect
  BY Zenon, <1>0, <1>2 DEF InputEffect, portVars, device_version_input
<1>3. CASE device_tcp_input(proto, p)
  BY Zenon, <1>0, <1>3 DEF InputEffect, device_tcp_input
<1> QED BY Zenon, <1>1, <1>2, <1>3 DEF Input

\* Handling a packet ends the daemon only if the packet is of a kind that may.
LEMMA InputDeadly ==
  ASSUME TypeOK, ~crashed, NEW proto, NEW p, Input(proto, p), crashed' # crashed
  PROVE  Deadly(proto)
<1>0. crashed = FALSE BY Zenon DEF TypeOK
<1>1. CASE device_control_input(proto)
  BY Zenon, <1>0, <1>1 DEF device_control_input, Deadly
<1>2. CASE proto \in {"TCP", "RST"} /\ device_tcp_input(proto, p)
  BY Zenon, <1>0, <1>2 DEF device_tcp_input, Deadly
<1> QED BY Zenon, <1>1, <1>2 DEF Input, device_version_input

\* The end of device_data_input: a whole packet is handled, nothing else is.
LEMMA DispatchBounded ==
  ASSUME TypeOK, ~crashed, NEW q, NEW len, NEW hdr, Dispatch(q, len, hdr)
  PROVE  /\ InputEffect
         /\ delivered' = IF hdr = len /\ Whole(q, q[1].id)
                           THEN Append(delivered, q[1].id) ELSE delivered
<1>1. CASE hdr # len /\ UNCHANGED <<state, portVars, delivered, crashed>>
  <2>1. InputEffect
    BY Zenon, <1>1, PacketsAssumption DEF InputEffect, TypeOK, portVars
  <2> QED BY Zenon, <2>1, <1>1
<1>2. CASE /\ hdr = len /\ Whole(q, q[1].id)
           /\ delivered' = Append(delivered, q[1].id)
           /\ Input(packets[q[1].id].proto, packets[q[1].id].sport)
  BY <1>2, InputBounded, Zenon
<1>3. CASE /\ hdr = len /\ ~Whole(q, q[1].id)
           /\ delivered' = delivered
           /\ \E proto \in Protocols, p \in 0..(PortMod - 1) : Input(proto, p)
  BY <1>3, InputBounded, Zenon
<1> QED BY <1>1, <1>2, <1>3, Zenon DEF Dispatch

\* The same when nothing is handled.
LEMMA QuietBounded ==
  ASSUME TypeOK, Quiet
  PROVE  InputEffect /\ delivered' = delivered
BY Zenon, PacketsAssumption DEF InputEffect, TypeOK, portVars, Quiet

\* The transfer that arrives is the next piece of its packet.
LEMMA ArrivingPiece ==
  ASSUME TypeOK, PacketsInv, done < Len(packets), NEW t, t = Arriving,
         NEW size, size = packets[done + 1].size
  PROVE  /\ t \in Transfer /\ size \in Nat \ {0}
         /\ t.id = done + 1 /\ t.off = offset
         /\ Last(t) <=> offset + t.len = size
         /\ ~Last(t) => t.len = Mru /\ offset + Mru < size
         /\ (offset + Mru) % Mru = 0
         /\ Last(t) /\ t.len = Mru => size % Mru = 0
<1>0. Mru \in Nat \ {0} BY Zenon, PacketsAssumption
<1>1. done \in Nat /\ offset \in Nat /\ done + 1 \in 1..Len(packets)
  BY DEF TypeOK
<1>2. packets[done + 1] \in Packet
  BY <1>1 DEF TypeOK
<1>3. size \in Nat \ {0}
  BY Zenon, <1>2 DEF Packet
<1>4. offset < size /\ offset % Mru = 0
  BY Zenon DEF PacketsInv
<1>5. t = [id |-> done + 1, off |-> offset,
           len |-> IF size - offset <= Mru THEN size - offset ELSE Mru]
  BY Zenon DEF Arriving
<1>6. /\ t.id = done + 1 /\ t.off = offset
      /\ t.len = IF size - offset <= Mru THEN size - offset ELSE Mru
      /\ t = [id |-> t.id, off |-> t.off, len |-> t.len]
  BY <1>5
<1>7. t.id \in Nat \ {0} /\ t.off \in Nat /\ t.len \in 1..Mru
  BY <1>0, <1>1, <1>3, <1>4, <1>6
<1>8. t \in Transfer
  BY <1>6, <1>7, Zenon DEF Transfer
<1>9. (offset + Mru) % Mru = 0
  <2>1. Mru \in Int /\ offset \in Int BY <1>0, <1>1
  <2>2. ((offset % Mru) + Mru) % Mru = (offset + Mru) % Mru
    BY <2>1, <1>0, ModAdd, Zenon
  <2>3. Mru * 1 + 0 = Mru /\ 0 \in 0..(Mru - 1) /\ 1 \in Int BY <1>0
  <2>4. (Mru * 1 + 0) % Mru = 0 BY <2>3, <1>0, RemainderUnique, Zenon
  <2>5. (offset % Mru) + Mru = Mru BY <1>0, <1>4
  <2> QED BY <2>2, <2>3, <2>4, <2>5, Zenon
<1>10. Last(t) <=> offset + t.len = size
  BY <1>6, Zenon DEF Last
<1>11. ~Last(t) => t.len = Mru /\ offset + Mru < size
  BY <1>0, <1>1, <1>3, <1>4, <1>6, <1>10
<1> QED BY <1>3, <1>6, <1>8, <1>9, <1>10, <1>11, Zenon

-----------------------------------------------------------------------------
(* The outcomes of device_data_input for the transfer t.                     *)

Dropped(t) == pktlen > 0 /\ t.len + pktlen > DevMru /\ Reset /\ delivered' = delivered

Gathered(t) ==
  /\ pktlen > 0 /\ t.len + pktlen <= DevMru
  /\ t.len < Mru \/ pkthdr = t.len + pktlen
  /\ Reset
  /\ delivered' = IF pkthdr = t.len + pktlen /\ Whole(Append(pktbuf, t), pktbuf[1].id)
                    THEN Append(delivered, pktbuf[1].id) ELSE delivered

Appended(t) ==
  /\ pktlen > 0 /\ t.len + pktlen <= DevMru
  /\ t.len = Mru /\ pkthdr # t.len + pktlen
  /\ pktbuf' = Append(pktbuf, t) /\ pktlen' = t.len + pktlen /\ pkthdr' = pkthdr
  /\ delivered' = delivered

Stored(t, hdr) ==
  /\ pktlen = 0 /\ t.len = Mru /\ Mru < hdr
  /\ pktbuf' = <<t>> /\ pktlen' = t.len /\ pkthdr' = hdr
  /\ delivered' = delivered

Alone(t, hdr) ==
  /\ pktlen = 0 /\ ~(t.len = Mru /\ Mru < hdr)
  /\ UNCHANGED bufVars
  /\ delivered' = IF hdr = t.len /\ Whole(<<t>>, t.id)
                    THEN Append(delivered, t.id) ELSE delivered

\* There are no others.
LEMMA DataInput ==
  ASSUME TypeOK, PacketsInv, ~crashed, device_data_input, NEW t, t = Arriving
  PROVE  /\ InputEffect
         /\ \/ state = "GONE" /\ UNCHANGED bufVars /\ delivered' = delivered
            \/ /\ state # "GONE"
               /\ \/ Dropped(t) \/ Gathered(t) \/ Appended(t)
                  \/ \E hdr \in Header(t) : Stored(t, hdr) \/ Alone(t, hdr)
<1>0. done < Len(packets) BY Zenon DEF device_data_input
<1>t. t \in Transfer BY <1>0, ArrivingPiece, Zenon
<1>1. CASE state = "GONE" /\ UNCHANGED bufVars /\ Quiet
  BY <1>1, QuietBounded, Zenon
<1>2. CASE state # "GONE" /\ pktlen > 0 /\ Continue(t)
  <2>1. CASE t.len + pktlen > DevMru /\ Reset /\ Quiet
    BY <1>2, <2>1, QuietBounded, Zenon DEF Dropped
  <2>2. CASE /\ t.len + pktlen <= DevMru
             /\ t.len < Mru \/ pkthdr = t.len + pktlen
             /\ Reset
             /\ Dispatch(Append(pktbuf, t), t.len + pktlen, pkthdr)
    <3>1. pktbuf # <<>> /\ pktbuf \in Seq(Transfer)
      BY <1>2, PacketsAssumption DEF PacketsInv, TypeOK
    <3>2. Append(pktbuf, t)[1] = pktbuf[1]
      BY <3>1, <1>t
    <3>3. /\ InputEffect
          /\ delivered' = IF pkthdr = t.len + pktlen
                             /\ Whole(Append(pktbuf, t), Append(pktbuf, t)[1].id)
                            THEN Append(delivered, Append(pktbuf, t)[1].id) ELSE delivered
      <4>1. PICK q : q = Append(pktbuf, t) BY Zenon
      <4>2. PICK n : n = t.len + pktlen BY Zenon
      <4>3. Dispatch(q, n, pkthdr) BY <2>2, <4>1, <4>2, Zenon
      <4>4. /\ InputEffect
            /\ delivered' = IF pkthdr = n /\ Whole(q, q[1].id)
                              THEN Append(delivered, q[1].id) ELSE delivered
        BY <4>3, DispatchBounded, Zenon
      <4> QED BY <4>1, <4>2, <4>4, Zenon
    <3>4. Gathered(t)
      BY <3>3, <3>2, <2>2, <1>2, Zenon DEF Gathered
    <3> QED BY <3>3, <3>4, <1>2, Zenon
  <2>3. CASE /\ t.len + pktlen <= DevMru
             /\ ~(t.len < Mru \/ pkthdr = t.len + pktlen)
             /\ pktbuf' = Append(pktbuf, t) /\ pktlen' = t.len + pktlen
             /\ pkthdr' = pkthdr
             /\ Quiet
    <3>1. t.len = Mru BY <2>3, <1>t, PacketsAssumption DEF Transfer
    <3> QED BY <1>2, <2>3, <3>1, QuietBounded, Zenon DEF Appended
  <2> QED BY <1>2, <2>1, <2>2, <2>3, Zenon DEF Continue
<1>3. ASSUME state # "GONE", pktlen = 0, NEW hdr \in Header(t), Begin(t, hdr)
      PROVE  InputEffect /\ (Stored(t, hdr) \/ Alone(t, hdr))
  <2>1. CASE /\ t.len = Mru /\ t.len < hdr
             /\ pktbuf' = <<t>> /\ pktlen' = t.len /\ pkthdr' = hdr
             /\ Quiet
    BY <1>3, <2>1, QuietBounded, Zenon DEF Stored
  <2>2. CASE /\ ~(t.len = Mru /\ t.len < hdr)
             /\ UNCHANGED bufVars
             /\ Dispatch(<<t>>, t.len, hdr)
    <3>1. <<t>>[1] = t BY Zenon
    <3>2. /\ InputEffect
          /\ delivered' = IF hdr = t.len /\ Whole(<<t>>, <<t>>[1].id)
                            THEN Append(delivered, <<t>>[1].id) ELSE delivered
      BY <2>2, DispatchBounded, Zenon
    <3> QED BY <1>3, <2>2, <3>1, <3>2, Zenon DEF Alone
  <2> QED BY <1>3, <2>1, <2>2, Zenon DEF Begin
<1> QED BY <1>1, <1>2, <1>3, Zenon DEF device_data_input

\* What the rest of the step does.
LEMMA DataProgress ==
  ASSUME device_data_input, NEW t, t = Arriving
  PROVE  /\ done < Len(packets) /\ packets' = packets
         /\ done' = IF Last(t) THEN done + 1 ELSE done
         /\ offset' = IF Last(t) THEN 0 ELSE offset + t.len
         /\ clean' = IF Last(t) THEN pktlen' = 0 ELSE clean
BY Zenon DEF device_data_input

\* A packet that was joined is whole when its last piece arrives.
LEMMA JoinedIsWhole ==
  ASSUME TypeOK, PacketsInv, state # "GONE", HeadOf(done + 1), done < Len(packets),
         NEW t, t = Arriving, Last(t)
  PROVE  /\ pkthdr = t.len + pktlen /\ pktlen = offset /\ pktlen > 0
         /\ pktbuf[1].id = done + 1
         /\ Whole(Append(pktbuf, t), done + 1)
<1> DEFINE q == Append(pktbuf, t)
<1>0. /\ pktbuf \in Seq(Transfer) /\ t \in Transfer /\ pktbuf # <<>>
      /\ t.id = done + 1 /\ t.off = offset /\ pktlen \in Nat
      /\ offset + t.len = packets[done + 1].size
  <2>1. /\ t \in Transfer /\ t.id = done + 1 /\ t.off = offset
        /\ offset + t.len = packets[done + 1].size
    BY ArrivingPiece, Zenon
  <2> QED BY <2>1, PacketsAssumption DEF TypeOK, HeadOf
<1>1. Joined(done + 1) /\ pktbuf[1].id = done + 1 /\ pktbuf[1].off = 0
  BY Zenon DEF PacketsInv, HeadOf
<1>2. /\ q \in Seq(Transfer) /\ Len(q) = Len(pktbuf) + 1 /\ q[Len(q)] = t
      /\ \A i \in 1..Len(pktbuf) : q[i] = pktbuf[i]
      /\ Len(pktbuf) \in Nat /\ Len(pktbuf) >= 1
  BY <1>0
<1>3. pktlen # 0 BY Zenon, <1>0 DEF PacketsInv
<1>4. pktlen = offset /\ pkthdr = packets[done + 1].size
  BY <1>1, Zenon DEF Joined
<1>5. t.len \in Nat BY <1>0, PacketsAssumption DEF Transfer
<1>6. q[1].off = 0 /\ Last(q[Len(q)])
  BY <1>1, <1>2
<1>7. \A i \in DOMAIN q : q[i].id = done + 1
  <2> HIDE DEF q
  <2>1. DOMAIN q = 1..(Len(pktbuf) + 1) BY <1>2
  <2>2. \A i \in 1..Len(pktbuf) : pktbuf[i].id = done + 1
    BY <1>1, <1>0 DEF Joined
  <2> QED BY <2>1, <2>2, <1>0, <1>2
<1>8. ASSUME NEW i \in 1..(Len(q) - 1) PROVE q[i + 1].off = q[i].off + q[i].len
  <2> HIDE DEF q
  <2>1. i \in 1..Len(pktbuf) BY <1>2
  <2>2. CASE i = Len(pktbuf)
    BY <2>2, <1>0, <1>1, <1>2 DEF Joined
  <2>3. CASE i # Len(pktbuf)
    <3>1. i \in 1..(Len(pktbuf) - 1) /\ i + 1 \in 1..Len(pktbuf) BY <2>1, <2>3, <1>2
    <3> QED BY Zenon, <3>1, <2>1, <1>1, <1>2 DEF Joined
  <2> QED BY Zenon, <2>2, <2>3
<1>9. Whole(q, done + 1)
  <2> HIDE DEF q
  <2> QED BY <1>6, <1>7, <1>8, Zenon DEF Whole
<1> QED BY <1>0, <1>1, <1>3, <1>4, <1>5, <1>9

\* Conversely, what is taken for a whole packet is the one that was joined.
LEMMA WholeIsJoined ==
  ASSUME TypeOK, PacketsInv, state # "GONE", done < Len(packets), pktlen > 0,
         NEW t, t = Arriving, Whole(Append(pktbuf, t), pktbuf[1].id)
  PROVE  Last(t) /\ HeadOf(done + 1)
<1> DEFINE q == Append(pktbuf, t)
<1>0. t \in Transfer /\ t.id = done + 1
  BY ArrivingPiece, Zenon
<1>1. pktbuf \in Seq(Transfer) /\ pktbuf # <<>>
  BY PacketsAssumption DEF TypeOK, PacketsInv
<1>2. /\ Len(q) \in DOMAIN q /\ 1 \in DOMAIN q /\ q[Len(q)] = t /\ q[1] = pktbuf[1]
  BY <1>0, <1>1
<1>3. q[1].off = 0 /\ Last(q[Len(q)]) /\ \A i \in DOMAIN q : q[i].id = pktbuf[1].id
  BY Zenon DEF Whole
<1> QED BY <1>0, <1>1, <1>2, <1>3, Zenon DEF HeadOf

-----------------------------------------------------------------------------
(* The invariants.                                                           *)

\* The parts of TypeOK about the device and about the packets.
DeviceType ==
  /\ state \in {"INIT", "ACTIVE", "GONE"}
  /\ next_sport \in 0..(PortMod - 1)
  /\ sport \in [Clients -> 0..(PortMod - 1)]
  /\ crashed \in BOOLEAN

BufferType ==
  /\ pktbuf \in Seq(Transfer)
  /\ pktlen \in 0..DevMru
  /\ pkthdr \in Nat

PipeType ==
  /\ packets \in Seq(Packet)
  /\ done \in 0..Len(packets)
  /\ offset \in Nat
  /\ delivered \in Seq(1..done)
  /\ clean \in BOOLEAN

\* They are all of it.
LEMMA TypeParts == TypeOK <=> DeviceType /\ BufferType /\ PipeType
BY Zenon DEF TypeOK, DeviceType, BufferType, PipeType

\* Of a transfer that arrives, the types.
LEMMA DataType ==
  ASSUME TypeOK, PacketsInv, ~crashed, device_data_input
  PROVE  TypeOK'
<1>1. PICK t : t = Arriving BY Zenon
<1>2. PICK size : size = packets[done + 1].size BY Zenon
<1>3. /\ done < Len(packets) /\ packets' = packets
      /\ done' = IF Last(t) THEN done + 1 ELSE done
      /\ offset' = IF Last(t) THEN 0 ELSE offset + t.len
      /\ clean' = IF Last(t) THEN pktlen' = 0 ELSE clean
  BY <1>1, DataProgress, Zenon
<1>4. /\ t \in Transfer /\ size \in Nat \ {0} /\ t.id = done + 1
  BY <1>1, <1>2, <1>3, ArrivingPiece, Zenon
<1>5. t.len \in 1..Mru BY Zenon, <1>4 DEF Transfer
<1>6. /\ Mru \in Nat \ {0} /\ DevMru \in Nat \ {0} /\ Mru <= DevMru /\ MaxWord \in Nat
  BY Zenon, PacketsAssumption
<1>7. /\ InputEffect
      /\ \/ state = "GONE" /\ UNCHANGED bufVars /\ delivered' = delivered
         \/ /\ state # "GONE"
            /\ \/ Dropped(t) \/ Gathered(t) \/ Appended(t)
               \/ \E hdr \in Header(t) : Stored(t, hdr) \/ Alone(t, hdr)
  BY <1>1, DataInput, Zenon
<1>b. BufferType BY Zenon, TypeParts
<1>8. BufferType'
  <2>1. CASE UNCHANGED bufVars BY Zenon, <2>1, <1>b DEF BufferType, bufVars
  <2>2. CASE Reset BY <2>2, <1>6 DEF BufferType, Reset
  <2>3. CASE Appended(t)
    BY <2>3, <1>b, <1>4, <1>5, <1>6 DEF BufferType, Appended
  <2>4. ASSUME NEW hdr \in Header(t), Stored(t, hdr) PROVE BufferType'
    <3>1. hdr \in Nat BY <1>2, <1>4, <1>6, <2>4 DEF Header
    <3> QED BY <2>4, <3>1, <1>4, <1>5, <1>6 DEF BufferType, Stored
  <2> QED BY <1>7, <2>1, <2>2, <2>3, <2>4, Zenon DEF Dropped, Gathered, Alone
<1>9. DeviceType'
  BY Zenon, <1>7 DEF InputEffect, DeviceType, TypeOK
<1>10. \/ delivered' = delivered
       \/ Last(t) /\ delivered' = Append(delivered, done + 1)
  <2>1. CASE Gathered(t)
    BY <2>1, <1>1, <1>3, <1>7, WholeIsJoined, Zenon DEF Gathered, HeadOf
  <2>2. ASSUME NEW hdr, Alone(t, hdr), Whole(<<t>>, t.id) PROVE Last(t)
    <3>1. Len(<<t>>) = 1 /\ <<t>>[1] = t BY Zenon
    <3> QED BY <2>2, <3>1, Zenon DEF Whole
  <2> QED BY <2>1, <2>2, <1>4, <1>7, Zenon DEF Dropped, Appended, Stored, Alone
<1>11. PipeType'
  <2>1. PipeType BY Zenon, TypeParts
  <2>2. offset' \in Nat
    BY <1>3, <1>5, <1>6, <2>1 DEF PipeType
  <2>3. /\ done' \in 0..Len(packets) /\ done \in Nat /\ done' \in Nat
        /\ Last(t) => done + 1 \in 1..done' /\ 1..done \subseteq 1..done'
        /\ 1..done \subseteq 1..done'
    BY <1>3, <2>1 DEF PipeType
  <2>4. clean' \in BOOLEAN
    <3>1. (pktlen' = 0) \in BOOLEAN BY Zenon
    <3> QED BY <1>3, <3>1, <2>1, Zenon DEF PipeType
  <2>5. delivered \in Seq(1..done')
    BY <2>1, <2>3 DEF PipeType
  <2>6. delivered' \in Seq(1..done')
    BY SMTT(40), <2>5, <2>3, <1>10
  <2> QED BY Zenon, <1>3, <2>1, <2>2, <2>3, <2>4, <2>6 DEF PipeType
<1> HIDE DEF DeviceType, BufferType, PipeType
<1> QED
  <2>1. (DeviceType /\ BufferType /\ PipeType)' BY Zenon, <1>8, <1>9, <1>11
  <2> QED BY <2>1, TypeParts, PTL

\* A piece that is not the last one leaves the beginning of its packet in pktbuf
\* whole, or leaves no beginning there.
LEMMA DataInvMiddle ==
  ASSUME TypeOK, PacketsInv, ~crashed, device_data_input, state # "GONE",
         NEW t, t = Arriving, ~Last(t)
  PROVE  /\ HeadOf(done + 1)' => clean /\ Joined(done + 1)'
         /\ clean /\ packets[done + 1].size <= DevMru => HeadOf(done + 1)'
<1>1. PICK size : size = packets[done + 1].size BY Zenon
<1>2. /\ done < Len(packets) /\ packets' = packets /\ done' = done
      /\ offset' = offset + t.len /\ clean' = clean
  BY DataProgress, Zenon
<1>3. /\ t \in Transfer /\ size \in Nat \ {0} /\ t.id = done + 1 /\ t.off = offset
      /\ t.len = Mru /\ offset + Mru < size
  BY <1>1, <1>2, ArrivingPiece, Zenon
<1>4. /\ Mru \in Nat \ {0} /\ DevMru \in Nat \ {0} /\ done \in Nat /\ offset \in Nat
      /\ pktlen \in Nat /\ pkthdr \in Nat /\ pktbuf \in Seq(Transfer)
  BY PacketsAssumption DEF TypeOK
<1>5. /\ pktlen = 0 <=> pktbuf = <<>>
      /\ offset = 0 => (clean <=> pktlen = 0)
      /\ HeadOf(done + 1) => clean /\ Joined(done + 1)
      /\ clean /\ offset > 0 /\ size <= DevMru => HeadOf(done + 1)
  BY Zenon, <1>1 DEF PacketsInv
<1>6. \/ Dropped(t) \/ Gathered(t) \/ Appended(t)
      \/ \E hdr \in Header(t) : Stored(t, hdr) \/ Alone(t, hdr)
  BY DataInput, Zenon
<1>7. CASE Appended(t)
  <2>1. /\ pktbuf' = Append(pktbuf, t) /\ pktlen' = t.len + pktlen /\ pkthdr' = pkthdr
        /\ pktlen > 0
    BY Zenon, <1>7 DEF Appended
  <2>2. /\ Len(pktbuf) \in Nat \ {0} /\ Len(pktbuf') = Len(pktbuf) + 1
        /\ pktbuf'[Len(pktbuf')] = t /\ pktbuf' # <<>>
        /\ DOMAIN pktbuf' = 1..(Len(pktbuf) + 1)
        /\ \A i \in 1..Len(pktbuf) : pktbuf'[i] = pktbuf[i]
        /\ pktbuf # <<>> /\ pktbuf'[1] = pktbuf[1]
    BY <2>1, <1>3, <1>4, <1>5
  <2>3. HeadOf(done + 1)' <=> HeadOf(done + 1)
    BY Zenon, <2>2, <1>2 DEF HeadOf
  <2>4. ASSUME HeadOf(done + 1) PROVE Joined(done + 1)'
    <3>1. Joined(done + 1) BY Zenon, <2>4, <1>5
    <3>2. pktlen' = offset' /\ pkthdr' = packets'[done' + 1].size
      BY SMTT(40), <3>1, <2>1, <1>1, <1>2, <1>3, <1>4 DEF Joined
    <3>3. \A i \in 1..Len(pktbuf) : pktbuf[i].id = done + 1
      BY <3>1, <1>4 DEF Joined
    <3>4. \A i \in DOMAIN pktbuf' : pktbuf'[i].id = done' + 1
      BY <3>3, <2>2, <1>2, <1>3
    <3>5. ASSUME NEW i \in 1..(Len(pktbuf') - 1)
          PROVE  pktbuf'[i + 1].off = pktbuf'[i].off + pktbuf'[i].len
      <4>1. i \in 1..Len(pktbuf) BY <2>2
      <4>2. CASE i = Len(pktbuf)
        BY <4>2, <3>1, <2>2, <1>3 DEF Joined
      <4>3. CASE i # Len(pktbuf)
        <5>1. i \in 1..(Len(pktbuf) - 1) /\ i + 1 \in 1..Len(pktbuf)
          BY <4>1, <4>3, <2>2
        <5> QED BY Zenon, <5>1, <4>1, <3>1, <2>2 DEF Joined
      <4> QED BY Zenon, <4>2, <4>3
    <3>6. pktbuf'[Len(pktbuf')].off + pktbuf'[Len(pktbuf')].len = offset'
      BY Zenon, <2>2, <1>2, <1>3
    <3> QED BY <3>2, <3>4, <3>5, <3>6, <1>2, Zenon DEF Joined
  <2>5. clean /\ size <= DevMru => HeadOf(done + 1)
    BY <2>1, <1>4, <1>5
  <2> QED BY <2>3, <2>4, <2>5, <1>1, <1>5, Zenon
<1>8. ASSUME NEW hdr \in Header(t), Stored(t, hdr)
      PROVE  /\ HeadOf(done + 1)' => clean /\ Joined(done + 1)'
             /\ clean /\ size <= DevMru => HeadOf(done + 1)'
  <2>1. pktbuf' = <<t>> /\ pktlen' = t.len /\ pkthdr' = hdr /\ pktlen = 0
    BY Zenon, <1>8 DEF Stored
  <2>2. offset = 0 => hdr = size
    BY Zenon, <1>1, <1>3, <1>8 DEF Header
  <2>3. HeadOf(done + 1)' <=> offset = 0
    BY Zenon, <2>1, <1>2, <1>3 DEF HeadOf
  <2>4. offset = 0 => Joined(done + 1)'
    BY SMTT(40), <2>1, <2>2, <1>1, <1>2, <1>3, <1>4 DEF Joined
  <2>5. clean /\ size <= DevMru => offset = 0
    BY <2>1, <1>4, <1>5 DEF HeadOf
  <2> QED BY <2>1, <2>3, <2>4, <2>5, <1>5, Zenon
<1>9. ASSUME NEW hdr \in Header(t), Alone(t, hdr)
      PROVE  /\ HeadOf(done + 1)' => clean /\ Joined(done + 1)'
             /\ clean /\ size <= DevMru => HeadOf(done + 1)'
  <2>1. pktbuf' = <<>> /\ pktlen = 0 /\ ~(Mru < hdr)
    BY Zenon, <1>9, <1>3, <1>5 DEF Alone, bufVars
  <2>2. offset = 0 => hdr = size
    BY Zenon, <1>1, <1>3, <1>9 DEF Header
  <2>3. clean /\ size <= DevMru => offset = 0
    BY <2>1, <1>4, <1>5 DEF HeadOf
  <2>4. offset # 0 BY <2>1, <2>2, <1>3, <1>4
  <2> QED BY <2>1, <2>3, <2>4, Zenon DEF HeadOf
<1>10. ASSUME Reset, Dropped(t) \/ Gathered(t)
       PROVE  /\ HeadOf(done + 1)' => clean /\ Joined(done + 1)'
              /\ clean /\ size <= DevMru => HeadOf(done + 1)'
  <2>1. pktbuf' = <<>> BY Zenon, <1>10 DEF Reset
  <2>2. pktlen > 0 /\ (t.len + pktlen > DevMru \/ pkthdr = t.len + pktlen)
    BY <1>3, <1>4, <1>10 DEF Dropped, Gathered
  <2>3. ASSUME HeadOf(done + 1) PROVE size > DevMru
    <3>1. pktlen = offset /\ pkthdr = size BY Zenon, <2>3, <1>1, <1>5 DEF Joined
    <3> QED BY <3>1, <2>2, <1>3, <1>4
  <2>4. clean /\ size <= DevMru => HeadOf(done + 1)
    BY <2>2, <1>4, <1>5
  <2>5. ~(clean /\ size <= DevMru)
    BY <2>3, <2>4, <1>3, <1>4
  <2> QED BY <2>1, <2>5, Zenon DEF HeadOf
<1> QED BY <1>1, <1>6, <1>7, <1>8, <1>9, <1>10, Zenon DEF Dropped, Gathered

\* The fields of what pktbuf holds.
LEMMA PieceFields ==
  ASSUME NEW q \in Seq(Transfer), NEW i \in 1..Len(q)
  PROVE  q[i].id \in Nat /\ q[i].off \in Nat
<1>1. q[i] \in Transfer OBVIOUS
<1> QED BY Zenon, <1>1 DEF Transfer

\* Zero is a multiple of the size of a transfer.
LEMMA ZeroMod == 0 % Mru = 0
<1>1. Mru \in Nat \ {0} BY Zenon, PacketsAssumption
<1>2. Mru * 0 + 0 = 0 /\ 0 \in 0..(Mru - 1) /\ 0 \in Int BY <1>1
<1>3. (Mru * 0 + 0) % Mru = 0 BY <1>1, <1>2, RemainderUnique, Zenon
<1> QED BY <1>2, <1>3, Zenon

\* Of a transfer that arrives, the invariant.
LEMMA DataInv ==
  ASSUME TypeOK, TypeOK', PacketsInv, ~crashed, device_data_input
  PROVE  PacketsInv'
<1>1. PICK t : t = Arriving BY Zenon
<1>2. PICK size : size = packets[done + 1].size BY Zenon
<1>3. /\ done < Len(packets) /\ packets' = packets
      /\ done' = IF Last(t) THEN done + 1 ELSE done
      /\ offset' = IF Last(t) THEN 0 ELSE offset + t.len
      /\ clean' = IF Last(t) THEN pktlen' = 0 ELSE clean
  BY <1>1, DataProgress, Zenon
<1>4. /\ t \in Transfer /\ size \in Nat \ {0} /\ t.id = done + 1 /\ t.off = offset
      /\ ~Last(t) => t.len = Mru /\ offset + Mru < size
      /\ (offset + Mru) % Mru = 0
  BY <1>1, <1>2, <1>3, ArrivingPiece, Zenon
<1>5. /\ Mru \in Nat \ {0} /\ DevMru \in Nat \ {0} /\ done \in Nat /\ offset \in Nat
      /\ pktlen \in Nat /\ pktbuf \in Seq(Transfer)
      /\ packets \in Seq(Packet) /\ t.len \in 1..Mru
  BY <1>4, PacketsAssumption DEF TypeOK, Transfer
<1>6. /\ InputEffect
      /\ \/ state = "GONE" /\ UNCHANGED bufVars /\ delivered' = delivered
         \/ /\ state # "GONE"
            /\ \/ Dropped(t) \/ Gathered(t) \/ Appended(t)
               \/ \E hdr \in Header(t) : Stored(t, hdr) \/ Alone(t, hdr)
  BY <1>1, DataInput, Zenon
<1>7. \/ UNCHANGED bufVars
      \/ pktbuf' = <<>> /\ pktlen' = 0
      \/ pktbuf' = Append(pktbuf, t) /\ pktlen' = t.len + pktlen
      \/ pktbuf' = <<t>> /\ pktlen' = t.len
  BY <1>6, Zenon DEF Dropped, Gathered, Appended, Stored, Alone, Reset
<1>8. pktlen' = 0 <=> pktbuf' = <<>>
  <2>1. pktlen = 0 <=> pktbuf = <<>> BY Zenon DEF PacketsInv
  <2>2. CASE UNCHANGED bufVars BY Zenon, <2>1, <2>2 DEF bufVars
  <2>3. CASE pktbuf' = Append(pktbuf, t) /\ pktlen' = t.len + pktlen
    BY SMTT(40), <2>3, <1>4, <1>5
  <2>4. CASE pktbuf' = <<t>> /\ pktlen' = t.len BY <2>4, <1>5
  <2> QED BY Zenon, <1>7, <2>2, <2>3, <2>4
<1>9. \A i \in DOMAIN pktbuf' :
        /\ pktbuf'[i].id \in Nat
        /\ \/ pktbuf'[i].id < done + 1
           \/ pktbuf'[i].id = done + 1 /\ pktbuf'[i].off < offset + t.len
  <2>1. \A i \in 1..Len(pktbuf) :
          /\ pktbuf[i].id \in Nat /\ pktbuf[i].off \in Nat
          /\ \/ pktbuf[i].id < done + 1
             \/ pktbuf[i].id = done + 1 /\ pktbuf[i].off < offset
    <3>1. ASSUME NEW i \in 1..Len(pktbuf)
          PROVE  pktbuf[i].id \in Nat /\ pktbuf[i].off \in Nat
      BY <3>1, <1>5, PieceFields, Zenon
    <3> QED BY <3>1, <1>5 DEF PacketsInv
  <2>2. CASE UNCHANGED bufVars BY SMTT(40), <2>1, <2>2, <1>5 DEF bufVars
  <2>3. CASE pktbuf' = Append(pktbuf, t)
    <3>1. /\ DOMAIN pktbuf' = 1..(Len(pktbuf) + 1) /\ Len(pktbuf) \in Nat
          /\ pktbuf'[Len(pktbuf) + 1] = t
          /\ \A i \in 1..Len(pktbuf) : pktbuf'[i] = pktbuf[i]
      BY <2>3, <1>4, <1>5
    <3>2. ASSUME NEW i \in 1..Len(pktbuf)
          PROVE  /\ pktbuf'[i].id \in Nat
                 /\ \/ pktbuf'[i].id < done + 1
                    \/ pktbuf'[i].id = done + 1 /\ pktbuf'[i].off < offset + t.len
      <4>1. pktbuf'[i] = pktbuf[i] BY Zenon, <3>1
      <4> QED BY <4>1, <2>1, <1>5
    <3>3. \A i \in DOMAIN pktbuf' : i \in 1..Len(pktbuf) \/ i = Len(pktbuf) + 1
      BY <3>1
    <3>4. offset < offset + t.len /\ done + 1 \in Nat BY <1>5
    <3> QED BY <3>1, <3>2, <3>3, <3>4, <1>4, Zenon
  <2>4. CASE pktbuf' = <<t>> BY <2>4, <1>4, <1>5
  <2>5. CASE pktbuf' = <<>> BY <2>5
  <2> QED BY Zenon, <1>7, <2>2, <2>3, <2>4, <2>5
<1>10. CASE Last(t)
  <2>1. done' = done + 1 /\ offset' = 0 /\ clean' = (pktlen' = 0)
    BY Zenon, <1>10, <1>3
  <2>2. ASSUME done' < Len(packets') PROVE offset' < packets'[done' + 1].size
    <3>1. done' + 1 \in 1..Len(packets) BY SMTT(40), <2>1, <2>2, <1>3, <1>5
    <3>2. packets[done' + 1] \in Packet BY <3>1, <1>5
    <3>3. packets[done' + 1].size \in Nat \ {0} BY Zenon, <3>2 DEF Packet
    <3> QED BY <3>3, <2>1, <1>3
  <2>3. \A i \in DOMAIN pktbuf' : pktbuf'[i].id < done' + 1
    BY <1>5, <1>9, <2>1
  <2>4. offset' % Mru = 0 BY Zenon, <2>1, ZeroMod
  <2>5. ~HeadOf(done + 1)'
    <3>1. pktbuf' \in Seq(Transfer) BY Zenon DEF TypeOK
    <3>2. pktbuf' # <<>> => 1 \in DOMAIN pktbuf' /\ pktbuf'[1].id \in Nat
      BY <3>1, <1>5, <1>9, <2>1
    <3> QED BY SMTT(40), <3>2, <2>1, <2>3, <1>5 DEF HeadOf
  <2>6. ~(offset' > 0) BY <2>1
  <2>7. clean' <=> pktlen' = 0 BY <2>1, Zenon
  <2> QED BY <2>1, <2>2, <2>3, <2>4, <2>5, <2>6, <2>7, <1>8, Zenon DEF PacketsInv
<1>11. CASE ~Last(t)
  <2>1. done' = done /\ offset' = offset + Mru /\ clean' = clean /\ offset + Mru < size
    BY Zenon, <1>11, <1>3, <1>4
  <2>2. /\ offset' % Mru = 0 /\ offset' > 0 /\ offset' # 0
        /\ done' # Len(packets') /\ offset' < packets'[done' + 1].size
    BY SMTT(40), <2>1, <1>2, <1>3, <1>4, <1>5
  <2>3. \A i \in DOMAIN pktbuf' :
          \/ pktbuf'[i].id < done' + 1
          \/ pktbuf'[i].id = done' + 1 /\ pktbuf'[i].off < offset'
    BY Zenon, <1>4, <1>5, <1>9, <1>11, <2>1
  <2>4. state' # "GONE" => state # "GONE" BY Zenon, <1>6 DEF InputEffect
  <2>5. ASSUME state # "GONE"
        PROVE  /\ HeadOf(done + 1)' => clean /\ Joined(done + 1)'
               /\ clean /\ packets[done + 1].size <= DevMru => HeadOf(done + 1)'
    BY <2>5, <1>1, <1>11, DataInvMiddle, Zenon
  <2>6. clean' = clean /\ packets'[done' + 1].size = packets[done + 1].size
    BY Zenon, <2>1, <1>3
  <2> QED BY <2>2, <2>3, <2>4, <2>5, <2>6, <1>8, Zenon DEF PacketsInv
<1> QED BY Zenon, <1>10, <1>11

-----------------------------------------------------------------------------

\* Init establishes the invariants.
LEMMA InitInv == Init => TypeOK /\ PacketsInv /\ PortsUnique
<1> SUFFICES ASSUME Init PROVE TypeOK /\ PacketsInv /\ PortsUnique
  BY Zenon
<1>1. TypeOK
  <2>1. DeviceType
    <3>1. 0 \in 0..(PortMod - 1) /\ 1 \in 0..(PortMod - 1) BY PacketsAssumption
    <3> QED BY Zenon, <3>1 DEF Init, DeviceType
  <2>2. BufferType BY PacketsAssumption DEF Init, BufferType
  <2>3. PipeType BY DEF Init, PipeType
  <2> QED BY Zenon, <2>1, <2>2, <2>3, TypeParts
<1>2. PacketsInv
  BY ZeroMod, <1>1 DEF Init, TypeOK, PacketsInv, HeadOf
<1>3. PortsUnique BY Zenon DEF Init, PortsUnique
<1> QED BY Zenon, <1>1, <1>2, <1>3

\* A step of the ports leaves the packets alone.
LEMMA PortStep ==
  ASSUME TypeOK, PacketsInv, PortsUnique, ~crashed, NEW c \in Clients,
         device_start_connect(c) \/ connection_teardown(c)
  PROVE  TypeOK' /\ PacketsInv' /\ PortsUnique'
<1>1. UNCHANGED <<state, pktbuf, pktlen, pkthdr, packets, done, offset, delivered, clean>>
  BY Zenon DEF device_start_connect, connection_teardown, bufVars, pipeVars
<1>2. PortMod \in Nat /\ PortMod >= 2 BY Zenon, PacketsAssumption
<1>3. /\ next_sport' \in 0..(PortMod - 1)
      /\ \/ sport' = sport
         \/ sport' = [sport EXCEPT ![c] = 0]
         \/ sport[c] = 0 /\ sport' = [sport EXCEPT ![c] = find_sport]
      /\ crashed' \in BOOLEAN
  BY Zenon, FindSport DEF device_start_connect, connection_teardown, portVars, TypeOK
<1>4. sport' \in [Clients -> 0..(PortMod - 1)]
  <2>1. PICK p : p = find_sport BY Zenon
  <2>2. p \in 0..(PortMod - 1) /\ 0 \in 0..(PortMod - 1)
    BY <2>1, <1>2, FindSport
  <2> QED BY Zenon, <2>1, <2>2, <1>3 DEF TypeOK
<1>5. TypeOK'
  BY Zenon, <1>1, <1>3, <1>4 DEF TypeOK
<1>6. PacketsInv'
  BY Zenon, <1>1 DEF PacketsInv, HeadOf, Joined
<1>7. PortsUnique'
  <2>0. sport \in [Clients -> 0..(PortMod - 1)] BY Zenon DEF TypeOK
  <2>1. CASE sport' = sport BY Zenon, <2>1 DEF PortsUnique
  <2>2. CASE sport' = [sport EXCEPT ![c] = 0] BY Zenon, <2>0, <2>2 DEF PortsUnique
  <2>3. CASE sport' = [sport EXCEPT ![c] = find_sport]
    <3>1. PICK p : p = find_sport BY Zenon
    <3>2. p # 0 => \A d \in Clients : sport[d] # p
      BY Zenon, <3>1, FindSport DEF InUse
    <3> QED BY Zenon, <2>0, <2>3, <3>1, <3>2 DEF PortsUnique
  <2> QED BY Zenon, <1>3, <2>1, <2>2, <2>3
<1> QED BY Zenon, <1>5, <1>6, <1>7

\* The other steps.
LEMMA OtherStep ==
  ASSUME TypeOK, PacketsInv, PortsUnique, DevSend \/ device_remove
  PROVE  TypeOK' /\ PacketsInv' /\ PortsUnique'
<1>0. PortMod \in Nat /\ PortMod >= 2 /\ DevMru \in Nat /\ Packets \subseteq Packet
  BY Zenon, PacketsAssumption
<1>1. CASE device_remove
  <2>1. TypeOK' BY SMTT(40), <1>0, <1>1 DEF TypeOK, device_remove, Reset, pipeVars
  <2>2. PacketsInv'
    BY <1>1 DEF PacketsInv, device_remove, Reset, pipeVars
  <2>3. PortsUnique' BY Zenon, <1>1 DEF device_remove, PortsUnique
  <2> QED BY Zenon, <2>1, <2>2, <2>3
<1>2. CASE DevSend
  <2>1. PICK p \in Packets : packets' = Append(packets, p) BY Zenon, <1>2 DEF DevSend
  <2>2. UNCHANGED <<state, pktbuf, pktlen, pkthdr, next_sport, sport, done, offset,
                    delivered, clean, crashed>>
    BY Zenon, <1>2 DEF DevSend, bufVars, portVars
  <2>3. /\ done = Len(packets) /\ packets \in Seq(Packet) /\ p \in Packet
        /\ done \in Nat /\ p.size \in Nat \ {0}
    BY <1>0, <1>2 DEF DevSend, TypeOK, Packet
  <2>4. packets' \in Seq(Packet) /\ Len(packets') = done + 1 /\ packets'[done + 1] = p
    BY <2>1, <2>3
  <2>5. TypeOK' BY SMTT(40), <2>2, <2>3, <2>4 DEF TypeOK
  <2>6. offset = 0 BY Zenon, <2>3 DEF PacketsInv
  <2>7. ~HeadOf(done + 1) /\ ~HeadOf(done + 1)'
    <3>1. pktbuf \in Seq(Transfer) BY Zenon DEF TypeOK
    <3>2. \A i \in 1..Len(pktbuf) : pktbuf[i].off \in Nat BY <3>1, PieceFields, Zenon
    <3> QED BY SMTT(40), <3>1, <3>2, <2>2, <2>3, <2>6 DEF PacketsInv, HeadOf
  <2>8. PacketsInv'
    BY SMTT(40), <2>2, <2>3, <2>4, <2>6, <2>7 DEF PacketsInv
  <2>9. PortsUnique' BY Zenon, <2>2 DEF PortsUnique
  <2> QED BY Zenon, <2>5, <2>8, <2>9
<1> QED BY Zenon, <1>1, <1>2

\* Handling a packet gives no port away.
LEMMA InputPorts ==
  ASSUME TypeOK, PortsUnique, InputEffect
  PROVE  PortsUnique'
BY Zenon DEF TypeOK, PortsUnique, InputEffect

\* Every step preserves the invariants.
LEMMA NextInv ==
  TypeOK /\ PacketsInv /\ PortsUnique /\ [Next]_vars => (TypeOK /\ PacketsInv /\ PortsUnique)'
<1> SUFFICES ASSUME TypeOK, PacketsInv, PortsUnique, [Next]_vars
             PROVE  TypeOK' /\ PacketsInv' /\ PortsUnique'
  BY Zenon
<1>1. CASE UNCHANGED vars
  <2>1. UNCHANGED <<state, pktbuf, pktlen, pkthdr, next_sport, sport, packets, done,
                    offset, delivered, clean, crashed>>
    BY Zenon, <1>1 DEF vars, bufVars, portVars, pipeVars
  <2>2. TypeOK' BY Zenon, <2>1 DEF TypeOK
  <2>3. PacketsInv' BY Zenon, <2>1 DEF PacketsInv, HeadOf, Joined
  <2>4. PortsUnique' BY Zenon, <2>1 DEF PortsUnique
  <2> QED BY Zenon, <2>2, <2>3, <2>4
<1>2. CASE ~crashed /\ device_data_input
  <2>1. TypeOK' BY <1>2, DataType, Zenon
  <2>2. PacketsInv' BY <1>2, <2>1, DataInv, Zenon
  <2>3. InputEffect
    <3>1. PICK t : t = Arriving BY Zenon
    <3> QED BY <1>2, <3>1, DataInput, Zenon
  <2> QED BY <2>1, <2>2, <2>3, InputPorts, Zenon
<1>3. CASE DevSend \/ device_remove
  BY <1>3, OtherStep, Zenon
<1>4. CASE ~crashed /\ \E c \in Clients : device_start_connect(c) \/ connection_teardown(c)
  BY <1>4, PortStep, Zenon
<1> QED BY <1>1, <1>2, <1>3, <1>4, Zenon DEF Next

\* The type invariant, in particular that pktbuf is never filled past its
\* capacity; the invariant of the buffer; and that device_start_connect gives no
\* two connections the same port.
THEOREM PacketsSafe == Spec => [](BufferInv /\ PortsUnique)
BY InitInv, NextInv, PTL DEF Spec, BufferInv

\* No two connections of a device share a source port, so device_tcp_input finds the
\* one that a segment is for, however often find_sport has wrapped around.
THEOREM PortsAreUnique == Spec => []PortsUnique
BY PacketsSafe, PTL

-----------------------------------------------------------------------------
(* The refinement.                                                           *)

\* The sizes of the packets are a sequence as long as that of the packets.
LEMMA SizesSeq ==
  ASSUME TypeOK, NEW sz, sz = [i \in DOMAIN packets |-> packets[i].size]
  PROVE  /\ Len(sz) = Len(packets) /\ DOMAIN sz = 1..Len(packets)
         /\ \A i \in 1..Len(packets) : sz[i] = packets[i].size
<1>1. DOMAIN packets = 1..Len(packets) /\ Len(packets) \in Nat BY DEF TypeOK
<1> QED BY <1>1

\* The last piece of a packet hands it over when PacketPipe says so.
LEMMA LastPiece ==
  ASSUME TypeOK, PacketsInv, ~crashed, device_data_input, NEW t, t = Arriving, Last(t)
  PROVE  IF state # "GONE" /\ clean /\ packets[done + 1].size <= DevMru
           THEN delivered' = Append(delivered, done + 1) /\ pktlen' = 0
           ELSE /\ delivered' = delivered
                /\ state' # "GONE" /\ packets[done + 1].size % Mru # 0 => pktlen' = 0
<1>1. PICK size : size = packets[done + 1].size BY Zenon
<1>2. done < Len(packets) BY Zenon DEF device_data_input
<1>3. /\ t \in Transfer /\ size \in Nat \ {0} /\ t.id = done + 1 /\ t.off = offset
      /\ offset + t.len = size
      /\ t.len = Mru => size % Mru = 0
  BY <1>1, <1>2, ArrivingPiece, Zenon
<1>4. /\ Mru \in Nat \ {0} /\ DevMru \in Nat \ {0} /\ Mru <= DevMru
      /\ offset \in Nat /\ t.len \in 1..Mru /\ pktlen \in Nat /\ done \in Nat
  BY <1>3, PacketsAssumption DEF TypeOK, Transfer
<1>5. /\ InputEffect
      /\ \/ state = "GONE" /\ UNCHANGED bufVars /\ delivered' = delivered
         \/ /\ state # "GONE"
            /\ \/ Dropped(t) \/ Gathered(t) \/ Appended(t)
               \/ \E hdr \in Header(t) : Stored(t, hdr) \/ Alone(t, hdr)
  BY DataInput, Zenon
<1>6. CASE state = "GONE" /\ delivered' = delivered
  <2>1. state' = "GONE" BY Zenon, <1>5, <1>6 DEF InputEffect
  <2> QED BY Zenon, <1>6, <2>1
<1> SUFFICES ASSUME state # "GONE"
             PROVE  IF clean /\ size <= DevMru
                      THEN delivered' = Append(delivered, done + 1) /\ pktlen' = 0
                      ELSE delivered' = delivered /\ (size % Mru # 0 => pktlen' = 0)
  BY <1>1, <1>5, <1>6, Zenon
<1>7. /\ pktlen = 0 <=> pktbuf = <<>>
      /\ offset = 0 => (clean <=> pktlen = 0)
      /\ HeadOf(done + 1) => clean
      /\ clean /\ offset > 0 /\ size <= DevMru => HeadOf(done + 1)
  BY Zenon, <1>1 DEF PacketsInv
<1>8. ASSUME HeadOf(done + 1)
      PROVE  /\ pkthdr = t.len + pktlen /\ pktlen = offset
             /\ pktbuf[1].id = done + 1 /\ Whole(Append(pktbuf, t), pktbuf[1].id)
  BY <1>2, <1>8, JoinedIsWhole, Zenon
<1>9. pktlen > 0 /\ clean /\ size <= DevMru => HeadOf(done + 1)
  BY <1>4, <1>7
<1>10. CASE Dropped(t)
  <2>1. pktlen' = 0 /\ delivered' = delivered BY Zenon, <1>10 DEF Dropped, Reset
  <2>2. ~(clean /\ size <= DevMru)
    BY <1>3, <1>4, <1>8, <1>9, <1>10 DEF Dropped
  <2> QED BY <2>1, <2>2, Zenon
<1>11. CASE Gathered(t)
  <2>1. pktlen' = 0 BY Zenon, <1>11 DEF Gathered, Reset
  <2>2. pktlen > 0 /\ t.len + pktlen <= DevMru BY Zenon, <1>11 DEF Gathered
  <2>3. delivered' = IF pkthdr = t.len + pktlen /\ Whole(Append(pktbuf, t), pktbuf[1].id)
                       THEN Append(delivered, pktbuf[1].id) ELSE delivered
    BY <1>11, Zenon DEF Gathered
  <2>4. CASE clean /\ size <= DevMru
    <3>1. HeadOf(done + 1) BY <2>2, <2>4, <1>9, Zenon
    <3> QED BY <3>1, <1>8, <2>1, <2>3, <2>4, Zenon
  <2>5. CASE ~(clean /\ size <= DevMru)
    <3>1. ~HeadOf(done + 1)
      <4> SUFFICES ASSUME HeadOf(done + 1) PROVE FALSE
        BY Zenon
      <4>1. clean /\ pktlen = offset BY <1>7, <1>8, Zenon
      <4>2. size <= DevMru BY SMTT(40), <4>1, <2>2, <1>3, <1>4
      <4> QED BY <4>1, <4>2, <2>5, Zenon
    <3>2. ~Whole(Append(pktbuf, t), pktbuf[1].id)
      BY <3>1, <2>2, <1>2, WholeIsJoined, Zenon
    <3> QED BY <3>2, <2>1, <2>3, <2>5, Zenon
  <2> QED BY Zenon, <2>4, <2>5
<1>12. CASE Appended(t)
  <2>1. /\ t.len = Mru /\ delivered' = delivered /\ pkthdr # t.len + pktlen /\ pktlen > 0
    BY Zenon, <1>12 DEF Appended
  <2> QED BY <2>1, <1>3, <1>8, <1>9, Zenon
<1>13. ASSUME NEW hdr \in Header(t), Stored(t, hdr) \/ Alone(t, hdr)
       PROVE  IF clean /\ size <= DevMru
                THEN delivered' = Append(delivered, done + 1) /\ pktlen' = 0
                ELSE delivered' = delivered /\ (size % Mru # 0 => pktlen' = 0)
  <2>1. pktlen = 0 BY Zenon, <1>13 DEF Stored, Alone
  <2>2. offset = 0 => hdr = size /\ t.len = size /\ clean /\ size <= DevMru
    BY SMTT(40), <2>1, <1>1, <1>3, <1>4, <1>7, <1>13 DEF Header
  <2>3. offset # 0 => ~(clean /\ size <= DevMru)
    BY <2>1, <1>4, <1>7 DEF HeadOf
  <2>4. <<t>>[1] = t /\ Len(<<t>>) = 1 /\ DOMAIN <<t>> = {1}
    OBVIOUS
  <2>5. Whole(<<t>>, t.id) <=> offset = 0
    <3>1. \A i \in 1..(Len(<<t>>) - 1) : FALSE BY <2>4
    <3> QED BY Zenon, <2>4, <3>1, <1>3 DEF Whole
  <2>6. CASE Stored(t, hdr)
    <3>1. t.len = Mru /\ Mru < hdr /\ delivered' = delivered BY Zenon, <2>6 DEF Stored
    <3>2. offset # 0 BY <3>1, <2>2, <1>4
    <3> QED BY <3>1, <3>2, <2>3, <1>3, Zenon
  <2>7. CASE Alone(t, hdr)
    <3>1. /\ pktlen' = 0
          /\ delivered' = IF hdr = t.len /\ Whole(<<t>>, t.id)
                            THEN Append(delivered, t.id) ELSE delivered
      BY Zenon, <2>1, <2>7 DEF Alone, bufVars
    <3> QED BY <3>1, <2>2, <2>3, <2>5, <1>3, Zenon
  <2> QED BY Zenon, <1>13, <2>6, <2>7
<1> QED BY <1>5, <1>10, <1>11, <1>12, <1>13, Zenon

\* When nothing is left of an earlier packet, a packet that fits ends the daemon
\* only once it is whole, and as what it is.
LEMMA DataDeadly ==
  ASSUME TypeOK, PacketsInv, ~crashed, device_data_input, crashed' # crashed,
         clean, packets[done + 1].size <= DevMru
  PROVE  /\ delivered' = Append(delivered, done + 1) /\ done' = done + 1
         /\ Deadly(packets[done + 1].proto)
<1>1. PICK t : t = Arriving BY Zenon
<1>2. PICK size : size = packets[done + 1].size BY Zenon
<1>3. done < Len(packets) BY Zenon DEF device_data_input
<1>4. /\ t \in Transfer /\ size \in Nat \ {0} /\ t.id = done + 1 /\ t.off = offset
      /\ Last(t) <=> offset + t.len = size
      /\ ~Last(t) => t.len = Mru /\ offset + Mru < size
  BY <1>1, <1>2, <1>3, ArrivingPiece, Zenon
<1>5. /\ Mru \in Nat \ {0} /\ offset \in Nat /\ t.len \in 1..Mru /\ pktlen \in Nat
  BY <1>4, PacketsAssumption DEF TypeOK, Transfer
<1>6. state # "GONE" /\ ~Quiet
  BY Zenon, <1>1 DEF device_data_input, Quiet, Continue, Begin, Dispatch
<1>7. /\ pktlen = 0 <=> pktbuf = <<>>
      /\ offset = 0 => pktlen = 0
      /\ offset > 0 => HeadOf(done + 1)
      /\ HeadOf(done + 1) => Joined(done + 1)
  BY Zenon, <1>6 DEF PacketsInv
<1>8. ASSUME NEW q, NEW len, NEW hdr, Dispatch(q, len, hdr),
             q[1].id = done + 1, hdr = len => Whole(q, done + 1)
      PROVE  Deadly(packets[done + 1].proto)
  <2>1. PICK n : n = done + 1 BY Zenon
  <2>2. Input(packets[n].proto, packets[n].sport)
    BY Zenon, <1>6, <1>8, <2>1 DEF Dispatch, Quiet
  <2>3. PICK proto, p : proto = packets[n].proto /\ p = packets[n].sport BY Zenon
  <2>4. Deadly(proto) BY <2>2, <2>3, InputDeadly, Zenon
  <2> QED BY <2>1, <2>3, <2>4, Zenon
<1>9. ASSUME pktlen > 0, Continue(t)
      PROVE  Last(t) /\ Deadly(packets[done + 1].proto)
  <2>1. HeadOf(done + 1) /\ pktlen = offset /\ pkthdr = size
    <3>1. offset > 0 BY <1>5, <1>7, <1>9
    <3> QED BY Zenon, <3>1, <1>2, <1>7 DEF Joined
  <2>2. /\ t.len < Mru \/ pkthdr = t.len + pktlen
        /\ Dispatch(Append(pktbuf, t), t.len + pktlen, pkthdr)
    BY Zenon, <1>6, <1>9 DEF Continue
  <2>3. Last(t) BY <2>1, <2>2, <1>4, <1>5
  <2>4. pktbuf[1].id = done + 1 /\ Whole(Append(pktbuf, t), done + 1)
    BY <2>1, <2>3, <1>1, <1>3, <1>6, JoinedIsWhole, Zenon
  <2>5. Append(pktbuf, t)[1] = pktbuf[1]
    BY <1>4, <2>1 DEF TypeOK, HeadOf
  <2>6. PICK q, len : q = Append(pktbuf, t) /\ len = t.len + pktlen BY Zenon
  <2>7. Dispatch(q, len, pkthdr) /\ q[1].id = done + 1 /\ Whole(q, done + 1)
    BY Zenon, <2>2, <2>4, <2>5, <2>6
  <2> QED BY <2>3, <2>7, <1>8, Zenon
<1>10. ASSUME pktlen = 0, NEW hdr \in Header(t), Begin(t, hdr)
       PROVE  Last(t) /\ Deadly(packets[done + 1].proto)
  <2>1. offset = 0 /\ hdr = size
    <3>1. offset = 0 BY <1>5, <1>7, <1>10 DEF HeadOf
    <3> QED BY <3>1, <1>2, <1>4, <1>10 DEF Header
  <2>2. ~(t.len = Mru /\ t.len < hdr) /\ Dispatch(<<t>>, t.len, hdr)
    BY Zenon, <1>6, <1>10 DEF Begin
  <2>3. Last(t) BY <2>1, <2>2, <1>4, <1>5
  <2>4. <<t>>[1] = t /\ Len(<<t>>) = 1 /\ DOMAIN <<t>> = {1}
    OBVIOUS
  <2>5. Whole(<<t>>, done + 1)
    <3>1. \A i \in 1..(Len(<<t>>) - 1) : FALSE BY <2>4
    <3> QED BY Zenon, <2>1, <2>3, <2>4, <3>1, <1>4 DEF Whole
  <2>6. PICK q, len : q = <<t>> /\ len = t.len BY Zenon
  <2>7. Dispatch(q, len, hdr) /\ q[1].id = done + 1 /\ Whole(q, done + 1)
    BY Zenon, <2>2, <2>4, <2>5, <2>6, <1>4
  <2> QED BY <2>3, <2>7, <1>8, Zenon
<1>11. Last(t) /\ Deadly(packets[done + 1].proto)
  BY <1>1, <1>6, <1>9, <1>10, Zenon DEF device_data_input
<1>12. done' = done + 1 BY <1>1, <1>11, DataProgress, Zenon
<1>13. delivered' = Append(delivered, done + 1)
  BY <1>1, <1>6, <1>11, LastPiece, Zenon
<1> QED BY <1>11, <1>12, <1>13, Zenon

\* The daemon reaches memory that is not valid only by a Connect to a device that
\* is not announced, by a whole packet that is a SHORT one or a segment to a device
\* that is, or after a packet that was too large for pktbuf.
THEOREM CrashesConfined == Spec => CrashConfined
<1>1. TypeOK /\ PacketsInv /\ [Next]_vars =>
        [crashed' # crashed =>
           \/ state = "INIT" /\ UNCHANGED pipeVars
           \/ /\ delivered' = Append(delivered, done + 1) /\ done' = done + 1
              /\ Deadly(packets[done + 1].proto)
           \/ ~(clean /\ packets[done + 1].size <= DevMru)]_vars
  <2> SUFFICES ASSUME TypeOK, PacketsInv, Next, crashed' # crashed
               PROVE  \/ state = "INIT" /\ UNCHANGED pipeVars
                      \/ /\ delivered' = Append(delivered, done + 1) /\ done' = done + 1
                         /\ Deadly(packets[done + 1].proto)
                      \/ ~(clean /\ packets[done + 1].size <= DevMru)
    BY Zenon DEF vars
  <2>1. CASE ~crashed /\ device_data_input
    BY <2>1, DataDeadly, Zenon
  <2>2. ASSUME NEW c \in Clients, device_start_connect(c)
        PROVE  state = "INIT" /\ UNCHANGED pipeVars
    BY Zenon, <2>2 DEF device_start_connect
  <2> QED BY Zenon, <2>1, <2>2 DEF Next, DevSend, device_remove, connection_teardown
<1> QED BY <1>1, PacketsSafe, PTL DEF Spec, CrashConfined, BufferInv

\* What PacketPipe sees of a step, with sz and sz2 the sizes before and after.
PipeStep(sz, sz2) ==
  \/ /\ Len(sz2) = Len(sz) + 1 /\ \A i \in DOMAIN sz : sz2[i] = sz[i]
     /\ UNCHANGED <<done, delivered, clean>> /\ state' = state
  \/ /\ done < Len(sz) /\ (state # "GONE" /\ clean /\ sz[done + 1] <= DevMru)
     /\ done' = done + 1 /\ delivered' = Append(delivered, done + 1)
     /\ clean' /\ sz2 = sz
  \/ /\ done < Len(sz) /\ ~(state # "GONE" /\ clean /\ sz[done + 1] <= DevMru)
     /\ done' = done + 1 /\ delivered' = delivered
     /\ state' # "GONE" /\ sz[done + 1] % Mru # 0 => clean'
     /\ state = "GONE" => state' = "GONE"
     /\ sz2 = sz
  \/ sz2 = sz /\ UNCHANGED <<done, delivered, clean>> /\ (state = "GONE" => state' = "GONE")

\* Every step of the packets is one that PacketPipe allows.
LEMMA StepIsPipeStep ==
  ASSUME TypeOK, PacketsInv, TypeOK', Next,
         NEW sz, sz = [i \in DOMAIN packets |-> packets[i].size],
         NEW sz2, sz2 = [i \in DOMAIN packets' |-> packets'[i].size]
  PROVE  PipeStep(sz, sz2)
<1>0. /\ Len(sz) = Len(packets) /\ DOMAIN sz = 1..Len(packets)
      /\ \A i \in 1..Len(packets) : sz[i] = packets[i].size
  BY ZenonT(40), SizesSeq
<1>1. CASE DevSend
  <2>1. PICK p \in Packets : packets' = Append(packets, p) BY Zenon, <1>1 DEF DevSend
  <2>2. UNCHANGED <<state, done, delivered, clean>> BY Zenon, <1>1 DEF DevSend
  <2>3. packets \in Seq(Packet) /\ packets' \in Seq(Packet) BY Zenon DEF TypeOK
  <2>4. /\ Len(packets') = Len(packets) + 1 /\ DOMAIN packets' = 1..(Len(packets) + 1)
        /\ \A i \in 1..Len(packets) : packets'[i] = packets[i]
        /\ Len(packets) \in Nat
    BY <2>1, <2>3
  <2>5. Len(sz2) = Len(packets) + 1 /\ \A i \in 1..Len(packets) : sz2[i] = packets[i].size
    BY <2>4
  <2> QED BY Zenon, <2>2, <2>5, <1>0 DEF PipeStep
<1>2. CASE ~crashed /\ device_data_input
  <2>1. PICK t : t = Arriving BY Zenon
  <2>2. /\ done < Len(packets) /\ packets' = packets
        /\ done' = IF Last(t) THEN done + 1 ELSE done
        /\ clean' = IF Last(t) THEN pktlen' = 0 ELSE clean
    BY <1>2, <2>1, DataProgress, Zenon
  <2>3. sz2 = sz /\ done < Len(sz) BY Zenon, <2>2, <1>0
  <2>4. sz[done + 1] = packets[done + 1].size
    <3>1. done + 1 \in 1..Len(packets) BY <2>2 DEF TypeOK
    <3> QED BY Zenon, <3>1, <1>0
  <2>5. state = "GONE" => state' = "GONE"
    <3>1. InputEffect BY <1>2, <2>1, DataInput, Zenon
    <3> QED BY <3>1, Zenon DEF InputEffect
  <2>6. CASE Last(t)
    <3>1. done' = done + 1 /\ (clean' <=> pktlen' = 0) BY <2>2, <2>6, Zenon
    <3>2. IF state # "GONE" /\ clean /\ packets[done + 1].size <= DevMru
            THEN delivered' = Append(delivered, done + 1) /\ pktlen' = 0
            ELSE /\ delivered' = delivered
                 /\ state' # "GONE" /\ packets[done + 1].size % Mru # 0 => pktlen' = 0
      BY <1>2, <2>1, <2>6, LastPiece, Zenon
    <3> QED BY <3>1, <3>2, <2>3, <2>4, <2>5, Zenon DEF PipeStep
  <2>7. CASE ~Last(t)
    <3>1. done' = done /\ clean' = clean BY <2>2, <2>7, Zenon
    <3>2. delivered' = delivered
      <4>1. CASE Gathered(t) /\ state # "GONE"
        <5>1. ~(pktlen > 0) \/ ~Whole(Append(pktbuf, t), pktbuf[1].id)
          BY <4>1, <2>1, <2>2, <2>7, WholeIsJoined, Zenon
        <5> QED BY <4>1, <5>1, Zenon DEF Gathered
      <4>2. ASSUME NEW hdr, Alone(t, hdr) PROVE delivered' = delivered
        <5>1. Len(<<t>>) = 1 /\ <<t>>[1] = t BY Zenon
        <5>2. ~Whole(<<t>>, t.id) BY <5>1, <2>7, Zenon DEF Whole
        <5> QED BY <4>2, <5>2, Zenon DEF Alone
      <4>3. \/ state = "GONE" /\ UNCHANGED bufVars /\ delivered' = delivered
            \/ /\ state # "GONE"
               /\ \/ Dropped(t) \/ Gathered(t) \/ Appended(t)
                  \/ \E hdr \in Header(t) : Stored(t, hdr) \/ Alone(t, hdr)
        BY <1>2, <2>1, DataInput, Zenon
      <4> QED BY <4>1, <4>2, <4>3, Zenon DEF Dropped, Appended, Stored
    <3> QED BY <3>1, <3>2, <2>3, <2>5, Zenon DEF PipeStep
  <2> QED BY Zenon, <2>6, <2>7
<1>3. CASE device_remove
  <2>1. packets' = packets /\ UNCHANGED <<done, delivered, clean>> /\ state' = "GONE"
    BY Zenon, <1>3 DEF device_remove, pipeVars
  <2> QED BY Zenon, <2>1 DEF PipeStep
<1>4. ASSUME NEW c \in Clients, device_start_connect(c) \/ connection_teardown(c)
      PROVE  PipeStep(sz, sz2)
  <2>1. packets' = packets /\ UNCHANGED <<done, delivered, clean>> /\ state' = state
    BY Zenon, <1>4 DEF device_start_connect, connection_teardown, pipeVars
  <2> QED BY Zenon, <2>1 DEF PipeStep
<1> QED BY <1>1, <1>2, <1>3, <1>4, Zenon DEF Next

\* device_data_input implements the pipe of packets that PacketPipe describes,
\* for every size of the transfers and of the buffer.
THEOREM Refinement == Spec => PacketsDelivered
<1>1. Init => Pipe!Init
  <2> SUFFICES ASSUME Init PROVE Pipe!Init
    BY Zenon
  <2>1. [i \in DOMAIN packets |-> packets[i].size] = <<>> BY DEF Init
  <2>2. done = 0 /\ delivered = <<>> /\ clean = TRUE /\ (state # "GONE") = TRUE
    BY Zenon DEF Init
  <2> QED BY <2>1, <2>2, Zenon DEF Pipe!Init
<1>2. TypeOK /\ PacketsInv /\ TypeOK' /\ [Next]_vars => [Pipe!Next]_(Pipe!vars)
  <2> SUFFICES ASSUME TypeOK, PacketsInv, TypeOK', [Next]_vars
               PROVE  [Pipe!Next]_(Pipe!vars)
    BY Zenon
  <2>1. PICK sz : sz = [i \in DOMAIN packets |-> packets[i].size] BY Zenon
  <2>2. PICK sz2 : sz2 = [i \in DOMAIN packets' |-> packets'[i].size] BY Zenon
  <2>3. CASE UNCHANGED vars
    BY Zenon, <2>3 DEF vars, pipeVars, Pipe!vars
  <2>4. CASE Next
    <3>1. PipeStep(sz, sz2) BY <2>1, <2>2, <2>4, StepIsPipeStep, Zenon
    <3>2. (state # "GONE")' = (state' # "GONE") BY Zenon
    <3>3. CASE /\ Len(sz2) = Len(sz) + 1 /\ \A i \in DOMAIN sz : sz2[i] = sz[i]
               /\ UNCHANGED <<done, delivered, clean>> /\ state' = state
      BY <3>3, <2>1, <2>2, Zenon DEF Pipe!Next, Pipe!Send
    <3>4. CASE /\ done < Len(sz) /\ (state # "GONE" /\ clean /\ sz[done + 1] <= DevMru)
               /\ done' = done + 1 /\ delivered' = Append(delivered, done + 1)
               /\ clean' /\ sz2 = sz
      <4>1. clean' = TRUE /\ (state' # "GONE") \in BOOLEAN BY <3>4, Zenon DEF TypeOK
      <4> QED BY <3>4, <4>1, <2>1, <2>2, Zenon DEF Pipe!Next, Pipe!Deliver, Pipe!Handled
    <3>5. CASE /\ done < Len(sz) /\ ~(state # "GONE" /\ clean /\ sz[done + 1] <= DevMru)
               /\ done' = done + 1 /\ delivered' = delivered
               /\ state' # "GONE" /\ sz[done + 1] % Mru # 0 => clean'
               /\ state = "GONE" => state' = "GONE"
               /\ sz2 = sz
      <4>1. clean' \in BOOLEAN /\ (state' # "GONE") \in {state # "GONE", FALSE}
        BY <3>5, Zenon DEF TypeOK
      <4> QED BY <3>5, <4>1, <2>1, <2>2, Zenon DEF Pipe!Next, Pipe!Lose, Pipe!Handled
    <3>6. CASE /\ sz2 = sz /\ UNCHANGED <<done, delivered, clean>>
               /\ state = "GONE" => state' = "GONE"
      <4>1. CASE state' = "GONE"
        <5>1. (state' # "GONE") = FALSE BY Zenon, <4>1
        <5> QED BY <3>6, <5>1, <2>1, <2>2, Zenon DEF Pipe!Next, Pipe!Close
      <4>2. CASE state' # "GONE"
        <5>1. (state' # "GONE") = (state # "GONE") BY Zenon, <3>6, <4>2
        <5> QED BY <3>6, <5>1, <2>1, <2>2, Zenon DEF Pipe!vars
      <4> QED BY Zenon, <4>1, <4>2
    <3> QED BY <3>1, <3>3, <3>4, <3>5, <3>6, Zenon DEF PipeStep
  <2> QED BY Zenon, <2>3, <2>4
<1> QED BY <1>1, <1>2, PacketsSafe, PTL DEF Spec, PacketsDelivered, BufferInv, Pipe!Spec
=============================================================================
