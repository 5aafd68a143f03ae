----------------------------- MODULE StreamPair -----------------------------
(***************************************************************************)
(* What a multiplexed connection promises its two users, a client of       *)
(* usbmuxd and a service on the device: one stream of bytes in each        *)
(* direction, of which what arrives is a prefix of what was written and    *)
(* what is read a prefix of what arrived, with a bound on the bytes that   *)
(* are written and not yet read. Either side ends for itself, and does so  *)
(* for good. What the host holds when it ends is offered to the client     *)
(* once more and dropped.                                                  *)
(***************************************************************************)
EXTENDS Integers

CONSTANTS
  UpRoom,   \* bytes of the client's stream that may be unread
  DownRoom  \* bytes of the device's stream that may be unread

VARIABLES
  host, device,                        \* "idle", "open" or "ended"
  upWritten, upArrived, upRead,        \* offsets in the client's stream
  downWritten, downArrived, downRead   \* offsets in the device's stream

hostVars == <<host, upWritten, downArrived, downRead>>
deviceVars == <<device, upArrived, upRead, downWritten>>
vars == <<hostVars, deviceVars>>

Init ==
  /\ host = "idle" /\ device = "idle"
  /\ upWritten = 0 /\ upArrived = 0 /\ upRead = 0
  /\ downWritten = 0 /\ downArrived = 0 /\ downRead = 0

HostOpens ==
  /\ host = "idle" /\ host' = "open"
  /\ UNCHANGED <<upWritten, downArrived, downRead, deviceVars>>

\* The client's data is taken, and data for the client arrives and is read.
HostMoves ==
  /\ host = "open" /\ host' = "open"
  /\ upWritten' \in upWritten..(upRead + UpRoom)
  /\ downArrived' \in downArrived..downWritten
  /\ downRead' \in downRead..downArrived'
  /\ UNCHANGED deviceVars

HostEnds ==
  /\ host \in {"idle", "open"} /\ host' = "ended"
  /\ downRead' \in downRead..downWritten
  /\ downArrived' = downRead'
  /\ UNCHANGED upWritten

\* The device opens no earlier than the host.
DeviceMoves ==
  /\ device \in {"idle", "open"} /\ device' = "open"
  /\ host # "idle"
  /\ upArrived' \in upArrived..upWritten
  /\ upRead' \in upRead..upArrived'
  /\ downWritten' \in downWritten..(downRead + DownRoom)
  /\ UNCHANGED hostVars

DeviceEnds ==
  /\ device' = "ended"
  /\ UNCHANGED <<upArrived, upRead, downWritten>>

Next ==
  \/ HostOpens
  \/ HostMoves
  \/ HostEnds /\ UNCHANGED deviceVars
  \/ DeviceMoves
  \/ DeviceEnds /\ (HostEnds \/ UNCHANGED hostVars)

Spec == Init /\ [][Next]_vars
=============================================================================
