---------------------------- MODULE MCHandshake ----------------------------
(***************************************************************************)
(* Instances of Handshake for TLC.                                         *)
(***************************************************************************)
EXTENDS Handshake

Case(retry, auth, closing, in_flight, loss, soon) ==
  [retry |-> retry, auth |-> auth, closing |-> closing,
   in_flight |-> in_flight, losses |-> loss, early |-> soon]

(* Handshakes that nobody interrupts: packets overtake each other and one  *)
(* is lost; two are lost; a timer expires too soon.  Handshakes and        *)
(* connections that one end or the other closes, at any moment.            *)
Cases ==
  {Case(FALSE, FALSE, {}, 2, 1, 0), Case(TRUE, TRUE, {}, 1, 2, 0),
   Case(TRUE, FALSE, {}, 1, 0, 1), Case(FALSE, TRUE, {"s"}, 1, 0, 0),
   Case(FALSE, FALSE, {"c"}, 1, 1, 0)}

ServerCloses == {Case(FALSE, TRUE, {"s"}, 1, 0, 0)}
=============================================================================
