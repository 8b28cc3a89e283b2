----------------------------- MODULE AckContext -----------------------------
(***************************************************************************)
(* One picoquic_ack_context_t: what an endpoint knows of the packets it    *)
(* received in one packet number space, when it owes the peer an ACK, and  *)
(* what it forgets when the peer acknowledges a packet that carried an     *)
(* ACK.  The peer and the network are the environment: packets arrive in   *)
(* any order and more than once, an ACK may be lost or acknowledged late.  *)
(*                                                                         *)
(* Single-path configuration: with multipath the list moves to the path.   *)
(* Clocks are reduced to the comparisons the code makes with them.         *)
(***************************************************************************)
EXTENDS SackRanges

CONSTANTS
  MaxPn,        \* bound: packet numbers are 0 .. MaxPn
  MaxBlocks,    \* ranges in one ACK frame besides the top one, 32 in the code
  Payloads,     \* bound: the packet contents considered, a subset of Content
  MaxFrames,    \* bound: unacknowledged packets that carry an ACK frame
  SendKinds,    \* {0} when the connection has one path, else Kinds
  Application,  \* TRUE for the 1-RTT packet number space
  IgnoreOrder,  \* cnx->ack_ignore_order_remote
  AckGap,       \* picoquic_ack_gap_override_if_needed: 2 on a young connection
  ForceGap      \* 8 in picoquic_is_ack_needed_in_ctx

ASSUME AckContextAssumption ==
  /\ Repeat \in Nat \ {0}
  /\ MaxPn \in Nat /\ MaxBlocks \in Nat \ {0} /\ MaxFrames \in Nat \ {0}
  /\ Payloads \subseteq [eliciting : BOOLEAN, fin : BOOLEAN, imm : BOOLEAN]
  /\ {0} \subseteq SendKinds /\ SendKinds \subseteq Kinds
  /\ Application \in BOOLEAN /\ IgnoreOrder \in BOOLEAN
  /\ AckGap \in Nat \ {0} /\ ForceGap \in Nat \ {0}

VARIABLES
  items,      \* sack_list
  act,        \* act[0 .. 1]
  frames,     \* ACK frames in packets that were sent and not yet acknowledged
  accepted,   \* history: packet numbers whose frames were processed
  learned,    \* history: numbers in an ACK frame the peer has acknowledged
  again       \* history: numbers processed more than once

vars == <<items, act, frames, accepted, learned, again>>

Pns == 0 .. MaxPn

(* late: ack_delay_remote has passed since time_oldest_unack_packet_       *)
(* received; idle: it has passed since highest_ack_sent_time.              *)
ActState == [needed : BOOLEAN, immediate : BOOLEAN, afterFin : BOOLEAN,
             outOfOrder : BOOLEAN, highest : Nat, late : BOOLEAN, idle : BOOLEAN]

Init ==
  /\ items = {}
  /\ act = [k \in Kinds |->
             [needed |-> FALSE, immediate |-> FALSE, afterFin |-> FALSE,
              outOfOrder |-> FALSE, highest |-> 0, late |-> FALSE, idle |-> FALSE]]
  /\ frames = {} /\ accepted = {} /\ learned = {} /\ again = {}

(* picoquic_set_ack_needed: a request that finds an ACK already owed does  *)
(* nothing, not even record that it was an immediate one.                  *)
SetAckNeeded(a, imm) ==
  IF a[0].needed THEN a
  ELSE [k \in Kinds |->
         [a[k] EXCEPT !.needed = TRUE, !.late = FALSE,
                      !.immediate = @ \/ (k = 0 /\ imm)]]

(* picoquic_record_pn_received: out-of-order marks, from the list before   *)
(* pn enters it and the flags after the frames were processed.             *)
MarkOrder(a, pn) ==
  LET last == ListLast(items)
      late(k) == a[k].needed /\ pn < a[k].highest
      skips == pn > last + 1
  IN  IF items = {} THEN a
      ELSE [k \in Kinds |->
             IF (pn > last /\ skips) \/ (pn <= last /\ late(k))
             THEN [a[k] EXCEPT !.outOfOrder = TRUE] ELSE a[k]]

(* What the frames of a packet ask of the acknowledgement machinery.       *)
Content == [eliciting : BOOLEAN, fin : BOOLEAN, imm : BOOLEAN]
Contents == {c \in Payloads : (c.fin \/ c.imm) => (c.eliciting /\ Application)}

AfterFrames(a, c) ==
  LET fin == IF c.fin THEN [k \in Kinds |-> [a[k] EXCEPT !.afterFin = TRUE]] ELSE a
      imm == IF c.imm THEN SetAckNeeded(fin, TRUE) ELSE fin
  IN  IF c.eliciting THEN SetAckNeeded(imm, FALSE) ELSE imm

(* A packet decrypts, is not found in the list, its frames are processed   *)
(* and then its number is recorded (packet.c:2339).  One that is found in  *)
(* the list is dropped without any change.                                 *)
Receive(pn, c) ==
  /\ ~AlreadyReceived(items, pn)
  /\ act' = MarkOrder(AfterFrames(act, c), pn)
  /\ items' = RecordOne(items, pn)
  /\ accepted' = accepted \cup {pn}
  /\ again' = IF pn \in accepted THEN again \cup {pn} ELSE again
  /\ UNCHANGED <<frames, learned>>

(* Mutant: nobody looks at the delay.                                      *)
MutIsAckNeeded(k) ==
  LET a == act[k] IN
  \/ /\ a.needed
     /\ \/ a.immediate
        \/ ~Application \/ a.afterFin
        \/ a.outOfOrder /\ ~IgnoreOrder
        \/ a.highest + AckGap <= ListLast(items)
  \/ ~a.needed /\ a.highest + ForceGap <= ListLast(items) /\ a.idle

(* The answer of picoquic_is_ack_needed_in_ctx.                            *)
IsAckNeeded(k) ==
  LET a == act[k] IN
  \/ /\ a.needed
     /\ \/ a.immediate
        \/ ~Application \/ a.afterFin
        \/ a.outOfOrder /\ ~IgnoreOrder
        \/ a.highest + AckGap <= ListLast(items)
        \/ a.late
  \/ ~a.needed /\ a.highest + ForceGap <= ListLast(items) /\ a.idle

(* What the question itself changes: a FIN makes it answer yes only once,  *)
(* unless the ACK is wanted immediately.                                   *)
Asked(a) == [a EXCEPT !.afterFin = @ /\ (a.immediate \/ ~a.needed)]

(* The sender asks, and no ACK leaves: there is no room for it, or another *)
(* path is chosen.                                                         *)
AskIfNeeded(k) ==
  /\ act' = [act EXCEPT ![k] = Asked(@)]
  /\ UNCHANGED <<items, frames, accepted, learned, again>>

(* The test at the head of picoquic_format_ack_frame_in_context.           *)
SomethingToAck(k) ==
  /\ items # {}
  /\ ~act[k].needed /\ Cardinality(items) = 1 =>
       \A it \in items : it.sent[k] < Repeat

AckSent(a, k, highest) ==
  [a EXCEPT !.highest = highest, !.idle = FALSE, !.needed = FALSE,
            !.afterFin = FALSE, !.outOfOrder = FALSE,
            !.immediate = @ /\ k # 0]

(* picoquic_format_ack_frame_in_context with room for `room` ranges below  *)
(* the top one.  The ACK flags are cleared even if some ranges did not fit.*)
FormatAck(k, room) ==
  \E top \in items :
    LET top1 == SentOnceMore(top, k)
        L == (items \ {top}) \cup {top1}
        below == SelectedBelow(L, k, top1, MaxBlocks, room)
    IN  /\ IsHighest(items, top)
        /\ items' = (L \ below) \cup {SentOnceMore(it, k) : it \in below}
        /\ frames' = frames \cup {{Bare(it) : it \in below \cup {top}}}
        /\ act' = [act EXCEPT ![k] = AckSent(@, k, top.hi)]

(* A packet is prepared.  Every caller may add an ACK frame to a packet it *)
(* sends anyway (retransmissions, handshake), owed or not.  Asking before  *)
(* it changes no flag that the ACK does not change too.                    *)
SendAck(k, room) ==
  /\ SomethingToAck(k)
  /\ Cardinality(frames) < MaxFrames
  /\ FormatAck(k, room)
  /\ UNCHANGED <<accepted, learned, again>>

(* The packet that carried F is acknowledged by the peer.                  *)
PacketAcked(F) ==
  /\ F \in frames
  /\ items' = AckOfAck(items, F)
  /\ frames' = frames \ {F}
  /\ learned' = learned \cup UNION {r.lo .. r.hi : r \in F}
  /\ UNCHANGED <<act, accepted, again>>

(* It is declared lost; the ACK frame is not repeated.                     *)
PacketLost(F) ==
  /\ F \in frames
  /\ frames' = frames \ {F}
  /\ UNCHANGED <<items, act, accepted, learned, again>>

(* The maximum ack delay runs out.                                         *)
DelayExpires(k) ==
  /\ act[k].needed /\ ~act[k].late
  /\ act' = [act EXCEPT ![k].late = TRUE]
  /\ UNCHANGED <<items, frames, accepted, learned, again>>

IdleExpires(k) ==
  /\ ~act[k].needed /\ ~act[k].idle
  /\ act' = [act EXCEPT ![k].idle = TRUE]
  /\ UNCHANGED <<items, frames, accepted, learned, again>>

Arrive == \E pn \in Pns, c \in Contents : Receive(pn, c)

PacketSettled == \E F \in frames : PacketAcked(F) \/ PacketLost(F)

Next ==
  \/ Arrive
  \/ \E k \in SendKinds, room \in 0 .. MaxBlocks : SendAck(k, room)
  \/ PacketSettled
  \/ \E k \in SendKinds : AskIfNeeded(k) \/ DelayExpires(k) \/ IdleExpires(k)

Spec == Init /\ [][Next]_vars

(* The packet loop wakes up when the delay runs out and when an ACK is     *)
(* due on the nominal path; a packet that carried an ACK is eventually     *)
(* acknowledged or declared lost.  Nothing obliges the peer to send.       *)
SendDueAck == IsAckNeeded(0) /\ \E room \in 0 .. MaxBlocks : SendAck(0, room)

Fairness ==
  /\ WF_vars(SendDueAck)
  /\ WF_vars(DelayExpires(0))
  /\ WF_vars(PacketSettled)

FairSpec == Spec /\ Fairness

-----------------------------------------------------------------------------
TypeOK ==
  /\ items \in SUBSET Items
  /\ act \in [Kinds -> ActState]
  /\ frames \in SUBSET (SUBSET Ranges)
  /\ accepted \in SUBSET Pns
  /\ learned \in SUBSET Pns
  /\ again \in SUBSET Pns

(* Ranges stay disjoint and non-adjacent through every merge and trim; the *)
(* gap encoding of an ACK frame relies on it (frames.c:4043).              *)
RangesSeparated == WellFormed(items)

(* Nothing is acknowledged that was not received: neither the list nor any *)
(* frame sent names another packet number.                                 *)
AcksAreTruthful ==
  /\ Covered(items) \subseteq accepted
  /\ \A F \in frames : \A r \in F : r.lo .. r.hi \subseteq accepted

(* A received number leaves the list only after the peer has acknowledged  *)
(* an ACK frame that carried it, so no packet is ever left unacknowledged  *)
(* because of trimming (sacks.c:347-380), however the ranges merged        *)
(* between the sending of the ACK and its acknowledgement.                 *)
ForgottenOnlyIfLearned == accepted \ Covered(items) \subseteq learned

(* The largest number received is never forgotten: packet number decoding  *)
(* (packet.c:501) and the out-of-order test take it from the list.         *)
LargestKept ==
  accepted # {} =>
    \E it \in items : it.hi \in accepted /\ \A pn \in accepted : pn <= it.hi

(* The expected packet number never goes back.                             *)
LastNeverDecreases == [][ListLast(items') >= ListLast(items)]_vars

(* An owed ACK is eventually sent: no combination of the flags, which the  *)
(* question itself changes (picoquic_is_ack_needed_in_ctx), and no         *)
(* reordering leaves a request standing for ever.                          *)
OwedAckIsSent == act[0].needed ~> ~act[0].needed

(* sacks.c:170-174: "Check whether the packet was already received."       *)
NoPacketProcessedTwice == again = {}
=============================================================================
