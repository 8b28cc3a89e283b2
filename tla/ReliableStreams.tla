-------------------------- MODULE ReliableStreams ---------------------------
(***************************************************************************)
(* What the transport promises about each stream, whatever the network     *)
(* does: the receiving application is given the bytes in order, each once, *)
(* none that were not sent, and is told exactly one end: the FIN, when it  *)
(* has every byte, or the reset, and nothing after it.                     *)
(***************************************************************************)
EXTENDS Naturals

CONSTANTS Streams, MaxBytes

VARIABLES
  written, finished, aborted,   \* by the sending application
  delivered, told               \* to the receiving application

vars == <<written, finished, aborted, delivered, told>>

Init ==
  /\ written = [s \in Streams |-> 0]
  /\ finished = [s \in Streams |-> FALSE]
  /\ aborted = [s \in Streams |-> FALSE]
  /\ delivered = [s \in Streams |-> 0]
  /\ told = [s \in Streams |-> "open"]

Write(s, n, fin) ==
  /\ ~finished[s] /\ ~aborted[s]
  /\ written[s] + n <= MaxBytes
  /\ written' = [written EXCEPT ![s] = @ + n]
  /\ finished' = [finished EXCEPT ![s] = fin]
  /\ UNCHANGED <<aborted, delivered, told>>

Abort(s) ==
  /\ aborted' = [aborted EXCEPT ![s] = TRUE]
  /\ UNCHANGED <<written, finished, delivered, told>>

Deliver(s, n, fin) ==
  /\ told[s] = "open"
  /\ delivered[s] + n <= written[s]
  /\ fin => finished[s] /\ delivered[s] + n = written[s]
  /\ delivered' = [delivered EXCEPT ![s] = @ + n]
  /\ told' = [told EXCEPT ![s] = IF fin THEN "fin" ELSE "open"]
  /\ UNCHANGED <<written, finished, aborted>>

DeliverReset(s) ==
  /\ told[s] = "open" /\ aborted[s]
  /\ told' = [told EXCEPT ![s] = "reset"]
  /\ UNCHANGED <<written, finished, aborted, delivered>>

Next ==
  \E s \in Streams :
    \/ \E n \in 0 .. MaxBytes, fin \in BOOLEAN : Write(s, n, fin) \/ Deliver(s, n, fin)
    \/ Abort(s) \/ DeliverReset(s)

Spec == Init /\ [][Next]_vars
=============================================================================
