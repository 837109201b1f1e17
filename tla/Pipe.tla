-------------------------------- MODULE Pipe ---------------------------------
(***************************************************************************)
(* What the transmitter of the JTAG UART promises: the bytes that a write  *)
(* has accepted, and only these, reach the host once each and in order,    *)
(* and never more than Capacity of them are on the way.  The bytes are     *)
(* known by their numbers, counted modulo Bytes.                           *)
(***************************************************************************)
EXTENDS Naturals, Sequences

CONSTANTS Bytes, Capacity

VARIABLES
  queue,  (* The numbers of the bytes on the way, the oldest first.        *)
  sent    (* The number of the next byte to be accepted.                   *)

Numbered(first, n) == [i \in 1 .. n |-> (first + i - 1) % Bytes]

Init == queue = << >> /\ sent = 0

Accept == \E n \in 1 .. Capacity - Len(queue) :
  /\ queue' = queue \o Numbered(sent, n)
  /\ sent' = (sent + n) % Bytes

Receive ==
  /\ queue # << >> /\ queue' = Tail(queue)
  /\ UNCHANGED sent

Spec == Init /\ [][Accept \/ Receive]_<<queue, sent>>
=============================================================================
