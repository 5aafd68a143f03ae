----------------------------- MODULE MuxPackets -----------------------------
(***************************************************************************)
(* The packets of one device (usbmuxd/src/device.c): how device_data_input *)
(* puts packets together again that were split into USB transfers, which   *)
(* protocol it hands them to, and by which port a TCP packet finds its     *)
(* connection. The device and the USB pipe are external: a packet arrives  *)
(* as full transfers of USB_MRU bytes and a last one that may be shorter.  *)
(* An empty transfer after a full one is ignored, which is a stuttering    *)
(* step.                                                                   *)
(*                                                                         *)
(* Bytes are not modelled: a transfer is a piece of a packet. The length   *)
(* and the protocol that the code reads from a piece that is not the head  *)
(* of a packet are arbitrary. What a TCP packet does to its connection is  *)
(* the subject of MuxConn; the numbers tx_seq and rx_seq of the mux header *)
(* are left out, no decision of the code depends on them.                  *)
(***************************************************************************)
EXTENDS Integers, Sequences, FiniteSets

CONSTANTS
  Mru,         \* USB_MRU: 16384, the largest transfer
  DevMru,      \* DEV_MRU: 65536, the capacity of pktbuf
  PortMod,     \* 2^16: next_sport is a uint16_t
  Clients,     \* clients that may have a connection to the device
  Packets,     \* packets that the device may send
  MaxPackets,  \* bound: packets that it sends
  MaxWord      \* bound: lengths read where there is no header

\* VERSION: the answer to the version request, with a version that is known;
\* BADVERSION: with another one. CONTROL stands for everything that is only
\* logged: control packets, unknown protocols, other packets shorter than a
\* header. SHORT: a control packet with a payload that, as the code works it out,
\* is not in the buffer: it is shorter than the header, so that the length of the
\* payload wraps, or it fills the buffer and the device is not known to be of
\* version 2, when the code skips 8 bytes too many.
Protocols == {"VERSION", "BADVERSION", "CONTROL", "SHORT", "TCP", "RST"}

\* sport: of a TCP packet, the port of the host.
Packet == [proto : Protocols, sport : 0..(PortMod - 1), size : Nat \ {0}]

ASSUME PacketsAssumption ==
  /\ {Mru, DevMru} \subseteq Nat \ {0}
  /\ Mru <= DevMru
  /\ PortMod \in Nat /\ PortMod >= 2
  /\ Packets \subseteq Packet
  /\ {MaxPackets, MaxWord} \subseteq Nat

VARIABLES
  state,       \* dev->state; GONE: freed
  pktbuf,      \* the transfers in dev->pktbuf
  pktlen,      \* dev->pktlen
  pkthdr,      \* the length field at the start of pktbuf
  next_sport,  \* dev->next_sport
  sport,       \* conn->sport of the connection of a client; 0: none
  packets,     \* all packets that the device has sent
  done,        \* how many of them have arrived completely
  offset,      \* bytes of the one after these that have arrived
  delivered,   \* the numbers of the packets given to a protocol
  clean,       \* pktbuf was empty when the last packet had arrived
  crashed      \* the daemon has used memory that is not valid; the model ends

bufVars == <<pktbuf, pktlen, pkthdr>>
portVars == <<next_sport, sport>>
pipeVars == <<packets, done, offset, delivered, clean>>
vars == <<state, bufVars, portVars, pipeVars, crashed>>

\* A piece of packet number id.
Transfer == [id : Nat \ {0}, off : Nat, len : 1..Mru]

\* Nothing of the packet follows it.
Last(t) == t.off + t.len = packets[t.id].size

Init ==
  /\ state = "INIT"
  /\ pktbuf = <<>> /\ pktlen = 0 /\ pkthdr = 0
  /\ next_sport = 1 /\ sport = [c \in Clients |-> 0]
  /\ packets = <<>> /\ done = 0 /\ offset = 0
  /\ delivered = <<>> /\ clean = TRUE
  /\ crashed = FALSE

-----------------------------------------------------------------------------
(* Ports.                                                                    *)

InUse == {sport[c] : c \in Clients} \ {0}

\* The first port from next_sport on that is not in use, which may be 0.
FreePort ==
  LET Port(k) == (next_sport + k) % PortMod
  IN  Port(CHOOSE k \in 0..(PortMod - 1) :
             /\ Port(k) \notin InUse
             /\ \A j \in 0..(k - 1) : Port(j) \in InUse)

Full == Cardinality(InUse) >= PortMod - 1

\* Mutant: the connections are not looked at.
find_sportBlind == IF Full THEN 0 ELSE next_sport

find_sport == IF Full THEN 0 ELSE FreePort

\* The value of next_sport after find_sport.
PortAfter == IF Full THEN next_sport ELSE (find_sport + 1) % PortMod

\* Port 0 is no port: the client is told BADDEV. The SYN may also fail to be
\* sent. The list of connections is initialised when the device becomes ACTIVE,
\* and the state of the device is not looked at: before that the code reads what
\* malloc left there, and if it sees no connections, or too many, the client is
\* told BADDEV or the list is written to.
device_start_connect(c) ==
  /\ state # "GONE"
  /\ sport[c] = 0
  /\ \/ /\ state = "INIT"
        /\ crashed' = TRUE
        /\ UNCHANGED portVars
     \/ /\ state = "ACTIVE"
        /\ next_sport' = PortAfter
        /\ \/ sport' = [sport EXCEPT ![c] = find_sport]
           \/ sport' = sport
        /\ UNCHANGED crashed
  /\ UNCHANGED <<state, bufVars, pipeVars>>

\* The client or the daemon ends the connection.
connection_teardown(c) ==
  /\ sport[c] # 0
  /\ sport' = [sport EXCEPT ![c] = 0]
  /\ UNCHANGED <<state, bufVars, next_sport, pipeVars, crashed>>

-----------------------------------------------------------------------------
(* Packets. Input(proto, p) is what the packet does to the device.           *)

device_version_input(known) ==
  /\ state' = CASE state # "INIT" -> state
                [] state = "INIT" /\ known -> "ACTIVE"
                [] state = "INIT" /\ ~known -> "GONE"
  /\ UNCHANGED <<portVars, crashed>>

\* Mutant: the state of the device is not looked at.
device_tcp_inputAnyState(proto, p) ==
  IF state # "ACTIVE" THEN crashed' = TRUE /\ UNCHANGED <<state, portVars>>
  ELSE UNCHANGED <<state, portVars, crashed>>

\* An RST ends the connection, anything else may; and when the data of a segment
\* does not fit, or the client cannot be told that it is connected, conn is freed
\* and then used: to acknowledge the data, or by update_connection. A segment with
\* the port of no connection, or with another port of the device, is answered with
\* an RST, and when that cannot be sent the error message is built from conn,
\* which is NULL.
device_tcp_input(proto, p) ==
  /\ \/ /\ state = "ACTIVE" /\ p \in InUse
        /\ \/ /\ sport' = [c \in Clients |-> IF sport[c] = p THEN 0 ELSE sport[c]]
              /\ crashed' \in {FALSE, proto # "RST"}
           \/ sport' = sport /\ proto # "RST" /\ crashed' = crashed
     \/ /\ state = "ACTIVE"
        /\ crashed' \in {FALSE, proto # "RST"}
        /\ sport' = sport
     \/ state # "ACTIVE" /\ UNCHANGED <<sport, crashed>>
  /\ UNCHANGED <<state, next_sport>>

\* What a control packet says is logged; of a SHORT one 4 GB or 8 bytes too many
\* are copied when it is to be logged.
device_control_input(proto) ==
  /\ crashed' \in {FALSE, proto = "SHORT"}
  /\ UNCHANGED <<state, portVars>>

Input(proto, p) ==
  \/ proto = "VERSION" /\ device_version_input(TRUE)
  \/ proto = "BADVERSION" /\ device_version_input(FALSE)
  \/ proto \in {"CONTROL", "SHORT"} /\ device_control_input(proto)
  \/ proto \in {"TCP", "RST"} /\ device_tcp_input(proto, p)

\* The transfers q are packet number id from its head to its end.
Whole(q, id) ==
  /\ q[1].off = 0 /\ Last(q[Len(q)])
  /\ \A i \in DOMAIN q : q[i].id = id
  /\ \A i \in 1..(Len(q) - 1) : q[i + 1].off = q[i].off + q[i].len

\* The end of device_data_input: the transfers q, len bytes that start with a
\* header that says hdr, are taken for a packet. A size mismatch is logged.
Dispatch(q, len, hdr) ==
  LET id == q[1].id
  IN  \/ /\ hdr # len
         /\ UNCHANGED <<state, portVars, delivered, crashed>>
      \/ /\ hdr = len /\ Whole(q, id)
         /\ delivered' = Append(delivered, id)
         /\ Input(packets[id].proto, packets[id].sport)
      \/ /\ hdr = len /\ ~Whole(q, id)
         /\ delivered' = delivered
         /\ \E proto \in Protocols, p \in 0..(PortMod - 1) : Input(proto, p)

Reset == pktbuf' = <<>> /\ pktlen' = 0 /\ pkthdr' = 0

Quiet == UNCHANGED <<state, portVars, delivered, crashed>>

\* Mutant: the limit is not checked.
ContinueUnlimited(t) ==
  LET total == t.len + pktlen
  IN  \/ /\ t.len < Mru \/ pkthdr = total
         /\ Reset
         /\ Dispatch(Append(pktbuf, t), total, pkthdr)
      \/ /\ ~(t.len < Mru \/ pkthdr = total)
         /\ pktbuf' = Append(pktbuf, t) /\ pktlen' = total /\ pkthdr' = pkthdr
         /\ Quiet

\* Mutant: only a short transfer ends a packet.
ContinueUntilShort(t) ==
  LET total == t.len + pktlen
  IN  \/ total > DevMru /\ Reset /\ Quiet
      \/ /\ total <= DevMru /\ t.len < Mru
         /\ Reset
         /\ Dispatch(Append(pktbuf, t), total, pkthdr)
      \/ /\ total <= DevMru /\ t.len = Mru
         /\ pktbuf' = Append(pktbuf, t) /\ pktlen' = total /\ pkthdr' = pkthdr
         /\ Quiet

\* Transfer t arrives while pktbuf holds the beginning of a packet. A short
\* transfer, or the announced length, ends the packet.
Continue(t) ==
  LET total == t.len + pktlen
  IN  \/ total > DevMru /\ Reset /\ Quiet
      \/ /\ total <= DevMru
         /\ t.len < Mru \/ pkthdr = total
         /\ Reset
         /\ Dispatch(Append(pktbuf, t), total, pkthdr)
      \/ /\ total <= DevMru
         /\ ~(t.len < Mru \/ pkthdr = total)
         /\ pktbuf' = Append(pktbuf, t) /\ pktlen' = total /\ pkthdr' = pkthdr
         /\ Quiet

\* Transfer t arrives while pktbuf is empty, and starts with the length hdr.
Begin(t, hdr) ==
  \/ /\ t.len = Mru /\ t.len < hdr
     /\ pktbuf' = <<t>> /\ pktlen' = t.len /\ pkthdr' = hdr
     /\ Quiet
  \/ /\ ~(t.len = Mru /\ t.len < hdr)
     /\ UNCHANGED bufVars
     /\ Dispatch(<<t>>, t.len, hdr)

\* The length that the code reads at the start of transfer t.
Header(t) == IF t.off = 0 THEN {packets[t.id].size} ELSE 0..MaxWord

\* The next piece of the packet that is arriving.
Arriving ==
  LET left == packets[done + 1].size - offset
  IN  [id |-> done + 1, off |-> offset, len |-> IF left <= Mru THEN left ELSE Mru]

device_data_input ==
  /\ done < Len(packets)
  /\ LET t == Arriving
     IN  /\ \/ state = "GONE" /\ UNCHANGED bufVars /\ Quiet
            \/ state # "GONE" /\ pktlen > 0 /\ Continue(t)
            \/ state # "GONE" /\ pktlen = 0 /\ \E hdr \in Header(t) : Begin(t, hdr)
         /\ done' = IF Last(t) THEN done + 1 ELSE done
         /\ offset' = IF Last(t) THEN 0 ELSE offset + t.len
         /\ clean' = IF Last(t) THEN pktlen' = 0 ELSE clean
  /\ UNCHANGED packets

\* The device was unplugged: what it has sent and was not read is lost.
device_remove ==
  /\ state # "GONE"
  /\ state' = "GONE"
  /\ sport' = [c \in Clients |-> 0]
  /\ Reset
  /\ UNCHANGED <<next_sport, pipeVars, crashed>>

\* A packet is sent when the one before has arrived: the code reads the
\* transfers one by one, so more that are under way make no difference.
DevSend ==
  /\ state # "GONE"
  /\ done = Len(packets) /\ done < MaxPackets
  /\ \E p \in Packets : packets' = Append(packets, p)
  /\ UNCHANGED <<state, bufVars, portVars, done, offset, delivered, clean, crashed>>

Next ==
  /\ ~crashed
  /\ \/ DevSend
     \/ device_data_input
     \/ device_remove
     \/ \E c \in Clients : device_start_connect(c) \/ connection_teardown(c)

Spec == Init /\ [][Next]_vars

-----------------------------------------------------------------------------

\* In particular pktbuf is never filled past its capacity.
TypeOK ==
  /\ state \in {"INIT", "ACTIVE", "GONE"}
  /\ pktbuf \in Seq(Transfer)
  /\ pktlen \in 0..DevMru
  /\ pkthdr \in Nat
  /\ next_sport \in 0..(PortMod - 1)
  /\ sport \in [Clients -> 0..(PortMod - 1)]
  /\ packets \in Seq(Packet)
  /\ done \in 0..Len(packets)
  /\ offset \in Nat
  /\ delivered \in Seq(1..done)
  /\ {clean, crashed} \subseteq BOOLEAN

Pipe == INSTANCE PacketPipe
          WITH sizes <- [i \in DOMAIN packets |-> packets[i].size],
               open <- state # "GONE"

\* device_data_input is a pipe of packets: a packet of at most DEV_MRU bytes is
\* given to its protocol whole, once and in order, however it was split. Only after a packet that is too
\* large, and of which the last transfer was full, can a packet be lost.
PacketsDelivered == Pipe!Spec

\* pktbuf begins with the head of packet n.
HeadOf(n) == pktbuf # <<>> /\ pktbuf[1].id = n /\ pktbuf[1].off = 0

\* pktbuf is all that has arrived of packet n.
Joined(n) ==
  /\ pktlen = offset /\ pkthdr = packets[n].size
  /\ \A i \in DOMAIN pktbuf : pktbuf[i].id = n
  /\ \A i \in 1..(Len(pktbuf) - 1) : pktbuf[i + 1].off = pktbuf[i].off + pktbuf[i].len
  /\ pktbuf[Len(pktbuf)].off + pktbuf[Len(pktbuf)].len = offset

\* Why a packet is handled exactly when it can be: pktbuf holds nothing or what
\* has arrived of one packet, from its head on, or else garbage that does not
\* begin with the head of the packet that is arriving and so is never taken for
\* it; and of a packet that fits nothing is dropped before its end.
PacketsInv ==
  LET n == done + 1
  IN  /\ offset % Mru = 0
      /\ done = Len(packets) => offset = 0
      /\ done < Len(packets) => offset < packets[n].size
      /\ pktlen = 0 <=> pktbuf = <<>>
      /\ \A i \in DOMAIN pktbuf :
           \/ pktbuf[i].id < n
           \/ pktbuf[i].id = n /\ pktbuf[i].off < offset
      /\ state # "GONE" =>
           /\ offset = 0 => (clean <=> pktlen = 0)
           /\ HeadOf(n) => clean /\ Joined(n)
           /\ clean /\ offset > 0 /\ packets[n].size <= DevMru => HeadOf(n)

\* device_data_input never fills pktbuf past DEV_MRU, and what it holds is a
\* packet from its head on or is never taken for one.
BufferInv == TypeOK /\ PacketsInv

\* Two connections to a device never have the same port, so a segment reaches
\* the connection it is for, also after next_sport wrapped around onto ports
\* that are still in use.
PortsUnique ==
  \A c, d \in Clients : sport[c] = sport[d] /\ sport[c] # 0 => c = d

\* What may end the daemon when a whole packet of this kind is handled.
Deadly(proto) == proto = "SHORT" \/ (proto = "TCP" /\ state = "ACTIVE")

\* The daemon reaches memory that is not valid by a Connect to a device that was
\* not announced, of which the list of connections is not initialised, or at the
\* end of a packet that is a SHORT one or a segment to a device that was: never at
\* an RST, never at a segment before the version is known, and never because a
\* packet that fits was split or joined in the wrong way. Only what follows a
\* packet that is too large for pktbuf may be taken for any other.
CrashConfined ==
  [][crashed' # crashed =>
       \/ state = "INIT" /\ UNCHANGED pipeVars
       \/ /\ delivered' = Append(delivered, done + 1) /\ done' = done + 1
          /\ Deadly(packets[done + 1].proto)
       \/ ~(clean /\ packets[done + 1].size <= DevMru)]_vars
=============================================================================
