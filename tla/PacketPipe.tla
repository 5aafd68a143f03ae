----------------------------- MODULE PacketPipe -----------------------------
(***************************************************************************)
(* What usbmuxd may rely on of the packets that a device sends it: they    *)
(* are handled one after the other, each at most once, and a packet that   *)
(* fits in the buffer is handled, unless the packet before it did not fit  *)
(* and left the receiver in the middle of nowhere. A packet that ends with *)
(* a transfer that is not full always brings the receiver back.            *)
(***************************************************************************)
EXTENDS Integers, Sequences

CONSTANTS Mru, DevMru

VARIABLES
  sizes,      \* the lengths of the packets sent so far
  done,       \* how many of them have arrived completely
  delivered,  \* the numbers of those that were handled
  clean,      \* the next packet will be recognised
  open        \* the device is there

vars == <<sizes, done, delivered, clean, open>>

Init == sizes = <<>> /\ done = 0 /\ delivered = <<>> /\ clean = TRUE /\ open = TRUE

Send ==
  /\ Len(sizes') = Len(sizes) + 1
  /\ \A i \in DOMAIN sizes : sizes'[i] = sizes[i]
  /\ UNCHANGED <<done, delivered, clean, open>>

Handled == open /\ clean /\ sizes[done + 1] <= DevMru

\* Handling a packet may be the end of the device.
Deliver ==
  /\ done < Len(sizes) /\ Handled
  /\ done' = done + 1
  /\ delivered' = Append(delivered, done + 1)
  /\ clean' = TRUE
  /\ open' \in BOOLEAN
  /\ sizes' = sizes

Lose ==
  /\ done < Len(sizes) /\ ~Handled
  /\ done' = done + 1
  /\ clean' \in BOOLEAN
  /\ (open' /\ sizes[done + 1] % Mru # 0) => clean'
  /\ open' \in {open, FALSE}
  /\ UNCHANGED <<sizes, delivered>>

Close == open' = FALSE /\ UNCHANGED <<sizes, done, delivered, clean>>

Next == Send \/ Deliver \/ Lose \/ Close

Spec == Init /\ [][Next]_vars
=============================================================================
