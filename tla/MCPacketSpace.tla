--------------------------- MODULE MCPacketSpace ---------------------------
(***************************************************************************)
(* Instances for TLC of what an end keeps of the packets it received: the  *)
(* list of ranges (SackList) and the need of an ACK (AckContext).  The     *)
(* first state chooses one of them, the other stays in its initial state.  *)
(***************************************************************************)
EXTENDS AckContext, SackList

VARIABLE part

Packet(e, f, i) == [eliciting |-> e, fin |-> f, imm |-> i]

(* Every content a 1-RTT packet can have.                                  *)
AnyPacket == {Packet(FALSE, FALSE, FALSE), Packet(TRUE, FALSE, FALSE),
              Packet(TRUE, TRUE, FALSE), Packet(TRUE, FALSE, TRUE)}

SpaceInit == part \in {"list", "context"} /\ Init /\ ListInit

SpaceNext ==
  /\ UNCHANGED part
  /\ \/ part = "list" /\ ListNext /\ UNCHANGED vars
     \/ part = "context" /\ Next /\ UNCHANGED listVars

SpaceSpec == SpaceInit /\ [][SpaceNext]_<<part, vars, listVars>> /\ Fairness
=============================================================================
