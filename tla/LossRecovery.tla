---------------------------- MODULE LossRecovery ----------------------------
(***************************************************************************)
(* The packets of one packet context after they are sent: the list of      *)
(* those that wait for an acknowledgement, the loss of a packet that later *)
(* packets overtook (RACK) or that the timer gave up (PTO), the frames     *)
(* that are queued or copied to be sent again, the lost packets that are   *)
(* kept to recognize a late acknowledgement, and the memory of all these   *)
(* packets.                                                                *)
(*                                                                         *)
(* The connection is ready and has one path.  Lengths are counted in       *)
(* frames and packets: a packet has room for Room frames, and the window   *)
(* for Cwin packets.  Times are choices: which packets have outlived the   *)
(* delay of RACK, and whether the timer of the path has expired.  Packets  *)
(* that are probes or traps, datagrams and preemptive repeats are left     *)
(* out.                                                                    *)
(***************************************************************************)
EXTENDS Walks, SequencesExt, FiniteSetsExt

CONSTANTS
  NewData,         \* the frames of stream data, numbered in order of priority
  NewControl,      \* frames that are repeated one by one
  Room, Cwin,      \* frames in a packet, packets in the window
  Retransmits,     \* timers in a row before a path is demoted: 9 in the code
  MaxPackets,      \* bound: packet numbers
  Budgets          \* bounds: what may be lost, how many packets are found
                   \* lost that are not, or timers early, and how many
                   \* packets only acknowledge

Data == ToSet(NewData)
Frames == Data \cup ToSet(NewControl)

ASSUME LossRecoveryAssumption ==
  /\ NewData \in Seq(Nat \ {0}) /\ NewControl \in Seq(Nat \ {0})
  /\ ToSet(NewControl) \cap Data = {}
  /\ Room \in Nat \ {0} /\ MaxPackets \in Nat

VARIABLES
  ctx,             \* the packet context, with the path and the queues
  net,             \* packets on their way
  peer,            \* what the peer has received and acknowledges
  acks,            \* acknowledgements on their way
  told,            \* the packets that some acknowledgement named
  losses, early, pure   \* how much of each bound is left

vars == <<ctx, net, peer, acks, told, losses, early, pure>>

Ping == 0
Numbers == 1 .. MaxPackets
Payloads == Seq(Frames \cup {Ping})

(* Packets are named by their numbers: sent[pn] are the frames of pn, and  *)
(* recycled[pn] counts how often its memory was given back.                *)
Contexts ==
  [sent : Seq(Payloads), pending : Seq(Numbers), retransmitted : Seq(Numbers),
   data_repeat : SUBSET [pn : Numbers, rest : Payloads], misc : Payloads, fresh : Payloads,
   acked : SUBSET Frames, in_transit : Nat, highest : Nat, is_pto_required : BOOLEAN,
   nb_retransmit : Nat, demoted : BOOLEAN, recycled : [Numbers -> Nat]]

Init ==
  /\ ctx = [sent |-> <<>>, pending |-> <<>>, retransmitted |-> <<>>, data_repeat |-> {},
            misc |-> NewControl, fresh |-> NewData, acked |-> {},
            in_transit |-> 0, highest |-> 0, is_pto_required |-> FALSE, nb_retransmit |-> 0,
            demoted |-> FALSE, recycled |-> [pn \in Numbers |-> 0]]
  /\ net = {} /\ acks = {} /\ told = {}
  /\ peer = [received |-> {}, owes |-> FALSE]
  /\ \E b \in Budgets : losses = b.losses /\ early = b.early /\ pure = b.pure

(* What a loop over packets has done so far: the context, the frames that  *)
(* it put in the next packet, and whether it is over.                      *)
Loops == [ctx : Contexts, frames : Payloads, stop : BOOLEAN]

(* The members of S in a sequence.                                         *)
Within(seq, S) ==
  LET visit == [i \in DOMAIN seq |-> [kept \in Seq(ToSet(seq)) |->
                  IF seq[i] \in S THEN Append(kept, seq[i]) ELSE kept]]
  IN  Walk(visit, <<>>, Len(seq))

Repeated(k) == {r.pn : r \in k.data_repeat}
Without(list, pn) == Within(list, Numbers \ {pn})
Least(m, n) == IF m < n THEN m ELSE n
Taking(frames, n) == SubSeq(frames, 1, Least(n, Len(frames)))
Leaving(frames, n) == SubSeq(frames, n + 1, Len(frames))
-----------------------------------------------------------------------------
(* The lists a packet is in, and its memory.                               *)

Recycle(k, pn) == [k EXCEPT !.recycled[pn] = @ + 1]

QueueForRetransmit(k, frames) ==
  LET pn == Len(k.sent) + 1
  IN  [k EXCEPT !.sent = Append(@, frames), !.pending = Append(@, pn),
                !.in_transit = @ + 1]

QueueDataRepeat(k, pn) ==
  LET rest == Within(k.sent[pn], Data)
  IN  IF pn \in Repeated(k) \/ rest = <<>> THEN k
      ELSE [k EXCEPT !.data_repeat = @ \cup {[pn |-> pn, rest |-> rest]}]

DequeueRetransmit(k, pn, should_free, repeat) ==
  LET out == [k EXCEPT !.pending = Without(@, pn),
                       !.in_transit = IF @ > 1 THEN @ - 1 ELSE 0]
      kept == [out EXCEPT !.retransmitted = <<pn>> \o @]
  IN  CASE should_free /\ ~repeat -> Recycle(out, pn)
        [] should_free /\ repeat -> QueueDataRepeat(out, pn)
        [] OTHER -> IF repeat THEN QueueDataRepeat(kept, pn) ELSE kept

(* Mutant: the packet may be waiting for its data to be repeated.          *)
DequeueRetransmittedAlways(k, pn) ==
  Recycle([k EXCEPT !.retransmitted = Without(@, pn)], pn)

DequeueRetransmitted(k, pn) ==
  LET out == [k EXCEPT !.retransmitted = Without(@, pn)]
  IN  IF pn \in Repeated(k) THEN out ELSE Recycle(out, pn)

DequeueDataRepeat(k, r) ==
  LET out == [k EXCEPT !.data_repeat = @ \ {r}]
  IN  IF r.pn \in ToSet(k.retransmitted) THEN out ELSE Recycle(out, r.pn)
-----------------------------------------------------------------------------
(* Lost packets.                                                           *)

NeedsRepeat(k) == (Frames \cup {Ping}) \ k.acked

(* picoquic_process_lost_packet: stream data joins the tree of data to     *)
(* repeat; the other frames are copied to the next packet while they fit,  *)
(* and else, or when there is no next packet (room = 0), queued.           *)
ProcessLost(k, pn, room) ==
  LET needed == Within(k.sent[pn], NeedsRepeat(k))
      others == Within(needed, NeedsRepeat(k) \ Data)
      queued == [k EXCEPT !.misc = @ \o Leaving(others, room)]
  IN  [ctx |-> DequeueRetransmit(queued, pn, needed = <<>>, Within(needed, Data) # <<>>),
       copied |-> Taking(others, room), pure_ack |-> needed = <<>>]

IsProbablyLost(k, pn, rack) ==
  \/ k.highest - pn >= 3
  \/ k.highest > pn /\ pn < rack

(* Mutant: the packet is left in the list, and nothing is sent.            *)
TimerExpiredKeeps(k, lost) ==
  [k EXCEPT !.nb_retransmit = @ + 1, !.demoted = @ \/ k.nb_retransmit + 1 > Retransmits]

TimerExpired(k, lost) ==
  [lost EXCEPT !.is_pto_required = TRUE, !.nb_retransmit = @ + 1,
               !.demoted = @ \/ k.nb_retransmit + 1 > Retransmits]

(* picoquic_retransmit_needed_packet, for one packet; k is the context     *)
(* before the loop.                                                        *)
RetransmitPacket(a, pn, rack, timer) ==
  LET lost == ProcessLost(a.ctx, pn, Room)
  IN  IF a.stop THEN a
      ELSE IF IsProbablyLost(a.ctx, pn, rack)
      THEN [ctx |-> lost.ctx, frames |-> lost.copied, stop |-> lost.copied # <<>>]
      ELSE IF ~timer THEN [a EXCEPT !.stop = TRUE]
      ELSE IF a.ctx.sent[pn] = <<>>
      THEN [a EXCEPT !.ctx = DequeueRetransmit(@, pn, TRUE, FALSE)]
      ELSE IF a.ctx.is_pto_required THEN [a EXCEPT !.stop = TRUE]
      ELSE IF lost.pure_ack THEN [a EXCEPT !.ctx = lost.ctx]
      ELSE [ctx |-> TimerExpired(a.ctx, lost.ctx), frames |-> lost.copied, stop |-> TRUE]

RetransmitNeeded(k, rack, timer) ==
  LET visit == [i \in DOMAIN k.pending |-> [a \in Loops |->
                  RetransmitPacket(a, k.pending[i], rack, timer)]]
  IN  Walk(visit, [ctx |-> k, frames |-> <<>>, stop |-> FALSE], Len(k.pending))

(* Mutant: nothing is queued from the packets that an acknowledgement      *)
(* shows to be lost.                                                       *)
QueueOnAckDrops(a, pn, rack) ==
  IF a.stop \/ ~IsProbablyLost(a.ctx, pn, rack) THEN [a EXCEPT !.stop = TRUE]
  ELSE [a EXCEPT !.ctx = DequeueRetransmit(@, pn, TRUE, FALSE)]

(* picoquic_queue_retransmit_on_ack: there is no next packet to copy to.   *)
QueueOnAck(a, pn, rack) ==
  IF a.stop \/ ~IsProbablyLost(a.ctx, pn, rack) THEN [a EXCEPT !.stop = TRUE]
  ELSE [a EXCEPT !.ctx = ProcessLost(@, pn, 0).ctx]

QueueRetransmitOnAck(k, rack) ==
  LET visit == [i \in DOMAIN k.pending |-> [a \in Loops |->
                  QueueOnAck(a, k.pending[i], rack)]]
  IN  Walk(visit, [ctx |-> k, frames |-> <<>>, stop |-> FALSE], Len(k.pending)).ctx
-----------------------------------------------------------------------------
(* The next packet.                                                        *)

FirstRepeat(k) ==
  CHOOSE r \in k.data_repeat : \A q \in k.data_repeat :
    \/ Head(r.rest) < Head(q.rest)
    \/ Head(r.rest) = Head(q.rest) /\ r.pn <= q.pn

(* picoquic_copy_single_stream_frame_for_retransmit: a frame that was      *)
(* acknowledged since is passed over.                                      *)
CopyRepeat(a) ==
  LET r == FirstRepeat(a.ctx)
      f == Head(r.rest)
      copied == IF f \in NeedsRepeat(a.ctx) THEN Append(a.frames, f) ELSE a.frames
  IN  IF Tail(r.rest) = <<>>
      THEN [ctx |-> DequeueDataRepeat(a.ctx, r), frames |-> copied, stop |-> FALSE]
      ELSE [ctx |-> [a.ctx EXCEPT !.data_repeat = (@ \ {r}) \cup {[r EXCEPT !.rest = Tail(@)]}],
            frames |-> copied, stop |-> TRUE]

(* No packet is twice in the tree.                                         *)
CopyStreamFrames(k, frames) ==
  LET visit == [i \in DOMAIN k.sent |-> [a \in Loops |->
                  IF a.stop \/ a.ctx.data_repeat = {} \/ Len(a.frames) >= Room
                  THEN [a EXCEPT !.stop = TRUE] ELSE CopyRepeat(a)]]
  IN  Walk(visit, [ctx |-> k, frames |-> frames, stop |-> FALSE], Len(k.sent))

(* picoquic_prepare_packet_ready, when nothing was copied: the queue of    *)
(* frames, then, if the window is not full or a probe is due, data to      *)
(* repeat and new data, and a PING if a probe would be empty.              *)
Assemble(k) ==
  LET queued == Taking(k.misc, Room)
      k1 == [k EXCEPT !.misc = Leaving(@, Room)]
      filled == [c \in Loops |->
        LET room == Room - Len(c.frames)
            all == c.frames \o Taking(c.ctx.fresh, room)
        IN  [ctx |-> [c.ctx EXCEPT !.fresh = Leaving(@, room)],
             frames |-> IF all = <<>> /\ k.is_pto_required THEN <<Ping>> ELSE all]]
  IN  IF k.in_transit > Cwin /\ ~k.is_pto_required
      THEN [ctx |-> k1, frames |-> queued]
      ELSE filled[CopyStreamFrames(k1, queued)]

(* The context after, and the frames of the packet: loss detection waits   *)
(* while frames are queued.                                                *)
PreparePacket(k, rack, timer) ==
  LET next == [r \in Loops |-> IF r.frames = <<>> THEN Assemble(r.ctx)
                                ELSE [ctx |-> r.ctx, frames |-> r.frames]]
  IN  IF k.misc # <<>> THEN Assemble(k) ELSE next[RetransmitNeeded(k, rack, timer)]

(* Any probe that is sent answers the timer, but one without frames.       *)
Finalize(r, with_ack) ==
  IF r.frames # <<>>
  THEN [QueueForRetransmit(r.ctx, r.frames) EXCEPT !.is_pto_required = FALSE]
  ELSE IF with_ack THEN QueueForRetransmit(r.ctx, <<>>) ELSE r.ctx

NetQuiet == net = {} /\ acks = {} /\ ~peer.owes

(* Packets overtaken by others, and the timer, are late for a reason: the  *)
(* packet or its acknowledgement is gone, but for Early exceptions.        *)
NothingElse == NetQuiet /\ PreparePacket(ctx, 0, FALSE) = [ctx |-> ctx, frames |-> <<>>]

Sent(r, after, with_ack) ==
  /\ after # ctx
  /\ ctx' = after
  /\ IF Len(after.sent) = Len(ctx.sent) THEN UNCHANGED <<net, losses>>
     ELSE \/ net' = net \cup {Len(after.sent)} /\ UNCHANGED losses
          \/ losses > 0 /\ losses' = losses - 1 /\ UNCHANGED net
  /\ pure' = IF r.frames = <<>> /\ with_ack THEN pure - 1 ELSE pure
  /\ UNCHANGED <<peer, acks, told>>

Prepare(rack, timer) ==
  /\ Len(ctx.sent) < MaxPackets /\ ~ctx.demoted
  /\ IF (rack > 0 \/ timer) /\ ~NothingElse THEN early > 0 /\ early' = early - 1
     ELSE UNCHANGED early
  /\ \E r \in {PreparePacket(ctx, rack, timer)} :
       \E after \in {Finalize(r, pure > 0)} : Sent(r, after, pure > 0)
-----------------------------------------------------------------------------
(* Acknowledgements.                                                       *)

AckFrames(k, pn) == [k EXCEPT !.acked = @ \cup (ToSet(k.sent[pn]) \ {Ping})]

(* picoquic_find_acked_packet: where in the list the search for the        *)
(* packets that are acknowledged starts, to go back from there.            *)
TopPacket(k, largest) ==
  IF largest <= k.highest THEN 1
  ELSE LET from == {i \in DOMAIN k.pending : k.pending[i] >= largest}
       IN  IF from = {} THEN Len(k.pending) ELSE Min(from)

Answered(k, pn, highest) ==
  IF pn >= highest THEN [k EXCEPT !.nb_retransmit = 0] ELSE k

(* picoquic_process_ack_range, for each range of the frame.                *)
ProcessAckRanges(k, ack, highest) ==
  LET searched == Taking(k.pending, TopPacket(k, Max(ack)))
      visit == [i \in DOMAIN searched |-> [a \in Contexts |->
                  LET pn == searched[Len(searched) + 1 - i]
                  IN  IF pn \notin ack THEN a
                      ELSE Answered(DequeueRetransmit(AckFrames(a, pn), pn, TRUE, FALSE), pn,
                                    highest)]]
  IN  Walk(visit, [k EXCEPT !.highest = highest], Len(searched))

(* picoquic_check_spurious_retransmission: the lost packets, youngest      *)
(* first, down to the start of the range.                                  *)
CheckSpurious(k, ack, highest) ==
  LET visit == [i \in DOMAIN k.retransmitted |-> [a \in Contexts |->
                  LET pn == k.retransmitted[i]
                  IN  IF pn \notin ack THEN a
                      ELSE Answered(DequeueRetransmitted(AckFrames(a, pn), pn), pn, highest)]]
  IN  Walk(visit, k, Len(k.retransmitted))

(* picoquic_dequeue_old_retransmitted_packets, for the n oldest.           *)
DequeueOld(k, n) ==
  LET visit == [i \in 1 .. n |-> [a \in Contexts |->
                  DequeueRetransmitted(a, Last(a.retransmitted))]]
  IN  Walk(visit, k, n)

(* picoquic_decode_ack_frame and process_decoded_packet_data.              *)
DecodeAck(k, ack, old, rack) ==
  LET highest == Max({k.highest, Max(ack)})
      spurious == [b \in Contexts |-> CheckSpurious(b, ack, highest)]
      expired == [b \in Contexts |-> DequeueOld(b, old)]
      repaired == [b \in Contexts |-> IF b.acked = k.acked /\ b.recycled = k.recycled THEN b
                                       ELSE QueueRetransmitOnAck(b, rack)]
  IN  repaired[expired[spurious[ProcessAckRanges(k, ack, highest)]]]

OldOnes == 0 .. Len(ctx.retransmitted)
Racks == {0} \cup {pn + 1 : pn \in ToSet(ctx.pending)}

ReceiveAck(ack, old, rack) ==
  /\ ack \in acks /\ ~ctx.demoted
  /\ \A i \in DOMAIN ctx.retransmitted :
       i > Len(ctx.retransmitted) - old => ctx.retransmitted[i] \notin ack
  /\ rack # 0 => early > 0
  /\ early' = IF rack # 0 THEN early - 1 ELSE early
  /\ \E after \in {DecodeAck(ctx, ack, old, rack)} : ctx' = after
  /\ acks' = acks \ {ack}
  /\ told' = told \cup ack
  /\ UNCHANGED <<net, peer, losses, pure>>
-----------------------------------------------------------------------------
(* The peer acknowledges everything it received, and forgets at any time   *)
(* what it knows that the sender was told: see AckContext.                 *)

PeerReceives(pn) ==
  /\ pn \in net /\ net' = net \ {pn}
  /\ peer' = [received |-> peer.received \cup {pn}, owes |-> peer.owes \/ ctx.sent[pn] # <<>>]
  /\ UNCHANGED <<ctx, acks, told, losses, early, pure>>

PeerAcks ==
  /\ peer.owes /\ Cardinality(acks) < 2
  /\ peer' = [peer EXCEPT !.owes = FALSE]
  /\ \/ acks' = acks \cup {peer.received} /\ UNCHANGED losses
     \/ losses > 0 /\ losses' = losses - 1 /\ UNCHANGED acks
  /\ UNCHANGED <<ctx, net, told, early, pure>>

PeerForgets ==
  LET old == told \ {Max(peer.received)}
  IN  /\ peer.received # {} /\ peer.received \cap old # {}
      /\ peer' = [peer EXCEPT !.received = @ \ old]
      /\ UNCHANGED <<ctx, net, acks, told, losses, early, pure>>

Next ==
  \/ \E rack \in Racks, timer \in BOOLEAN : Prepare(rack, timer)
  \/ \E ack \in acks, old \in OldOnes, rack \in Racks : ReceiveAck(ack, old, rack)
  \/ \E pn \in net : PeerReceives(pn)
  \/ PeerAcks \/ PeerForgets

Spec == Init /\ [][Next]_vars

(* Packets and acknowledgements that are not lost arrive; the sender is    *)
(* polled, and its timer expires when nothing else happens.                *)
Fairness ==
  /\ WF_vars(\E pn \in net : PeerReceives(pn))
  /\ WF_vars(PeerAcks)
  /\ WF_vars(\E ack \in acks : ReceiveAck(ack, 0, 0))
  /\ WF_vars(Prepare(0, FALSE))
  /\ SF_vars(NetQuiet /\ Prepare(0, TRUE))

FairSpec == Spec /\ Fairness
-----------------------------------------------------------------------------
Owned(k) == ToSet(k.pending) \cup ToSet(k.retransmitted) \cup Repeated(k)

TypeOK ==
  /\ ctx \in Contexts /\ Len(ctx.sent) <= MaxPackets
  /\ peer \in [received : SUBSET Numbers, owes : BOOLEAN]
  /\ net \cup peer.received \cup told \cup Owned(ctx) \subseteq DOMAIN ctx.sent
  /\ \A a \in acks : a # {} /\ a \subseteq DOMAIN ctx.sent

(* Whatever was sent is acknowledged, or there is a packet in flight or a  *)
(* queue from which it will be sent again: loss, late acknowledgement and  *)
(* timer lose no frame between them.                                       *)
NothingForgotten ==
  \A f \in Frames :
    \/ f \in ctx.acked
    \/ f \in ToSet(ctx.fresh) \cup ToSet(ctx.misc)
    \/ \E r \in ctx.data_repeat : f \in ToSet(r.rest)
    \/ \E pn \in ToSet(ctx.pending) : f \in ToSet(ctx.sent[pn])

(* The memory of a packet is given back once, when it has left the last of *)
(* the lists it may be in at the same time.                                *)
RecycledOnce ==
  \A pn \in DOMAIN ctx.sent :
    ctx.recycled[pn] = IF pn \in Owned(ctx) THEN 0 ELSE 1

(* What the window counts is what is pending, and the lost packets are in  *)
(* the order in which the search for spurious losses stops.                *)
ListsAreSound ==
  /\ ctx.in_transit = Len(ctx.pending)
  /\ \A i, j \in DOMAIN ctx.pending : i < j => ctx.pending[i] < ctx.pending[j]
  /\ \A i, j \in DOMAIN ctx.retransmitted :
       i < j => ctx.retransmitted[i] > ctx.retransmitted[j]

(* Whatever is lost, all the frames are acknowledged in the end, and the   *)
(* path is not given up, if fewer than Retransmits packets or              *)
(* acknowledgements are lost.                                              *)
AllAcknowledged == <>[](ctx.acked = Frames)

(* A packet that an acknowledgement named no longer waits for one:         *)
(* picoquic_process_ack_range promises to "compare the range to the        *)
(* retransmit queue".                                                      *)
AcksTakeEffect == told \cap ToSet(ctx.pending) = {}
=============================================================================
