---------------------------- MODULE StreamLife ----------------------------
(***************************************************************************)
(* The life of the bidirectional streams that one end of a connection      *)
(* opens: created in order, written, finished, reset or stopped by the two *)
(* applications, closed, deleted once acknowledged, and replaced by the    *)
(* credit of MAX_STREAMS frames.                                           *)
(*                                                                         *)
(* One stream, the busy one, carries at most one byte each way and may be  *)
(* reset or stopped; the others are opened and ended.  What was sent may   *)
(* arrive at any time, any number of times, in any order, the byte and the *)
(* end apart, and what has arrived may be acknowledged.  A stream is named *)
(* by its rank, from 1.                                                    *)
(***************************************************************************)
EXTENDS Integers, FiniteSetsExt

CONSTANTS
  Opener,      \* the end that opens streams
  Initial,     \* initial_max_stream_id_bidir of the other end
  Plans,       \* what the applications do, see Plan
  EarlyAborts  \* may an application abort a stream above the peer's limit?

VARIABLES
  plan,        \* chosen at the start
  end,         \* what each end knows of the streams
  limit,       \* MAX_STREAMS: of the acceptor, sent and known to the opener
  aborts,      \* aborts that are left
  error        \* raised by an end against its peer

vars == <<plan, end, limit, aborts, error>>

End == {"c", "s"}
Acceptor == CHOOSE e \in End : e # Opener
Peer(e) == IF e = "c" THEN "s" ELSE "c"

(* Bounds: the last rank that is opened, the stream that may carry a byte  *)
(* from the ends in data, the resets and stops that the ends in by decide  *)
(* on it.                                                                  *)
Plan ==
  [last : Nat \ {0}, busy : Nat \ {0}, data : SUBSET End, by : SUBSET End, aborts : Nat]
Ranks == 1..plan.last

ASSUME PlansAssumption == Opener \in End /\ Plans \subseteq Plan

(* STREAM_ID_FROM_RANK, STREAM_RANK_FROM_ID: the last bit is that of the   *)
(* end e that computes it.                                                 *)
Bit(e) == IF e = "c" THEN 0 ELSE 1
IdFromRank(rank, e) == 4 * (rank - 1) + Bit(e)
RankFromId(id) == (id + 4) \div 4
StreamId(r) == IdFromRank(r, Opener)

Kinds == {"data", "fin", "reset"}

Stream ==
  [state : {"none", "open", "closed", "deleted"},
   listed : BOOLEAN, queued : 0..1, sent : 0..1,
   fin_requested : BOOLEAN, fin_sent : BOOLEAN, reset_sent : BOOLEAN, acked : SUBSET Kinds,
   stop_requested : BOOLEAN, stop_sent : BOOLEAN, stop_received : BOOLEAN,
   consumed : 0..1, fin_offset : 0..1, fin_received : BOOLEAN, fin_signalled : BOOLEAN,
   reset_received : BOOLEAN, reset_signalled : BOOLEAN, max_stream_updated : BOOLEAN,
   got : SUBSET Kinds]

Fresh ==
  [state |-> "none",
   listed |-> FALSE, queued |-> 0, sent |-> 0,
   fin_requested |-> FALSE, fin_sent |-> FALSE, reset_sent |-> FALSE, acked |-> {},
   stop_requested |-> FALSE, stop_sent |-> FALSE, stop_received |-> FALSE,
   consumed |-> 0, fin_offset |-> 0, fin_received |-> FALSE, fin_signalled |-> FALSE,
   reset_received |-> FALSE, reset_signalled |-> FALSE, max_stream_updated |-> FALSE,
   got |-> {}]

Init ==
  /\ plan \in Plans
  /\ end = [e \in End |-> [streams |-> [r \in Ranks |-> Fresh], next |-> 1, computed |-> Bit(e)]]
  /\ limit = [local |-> IdFromRank(Initial, Acceptor), sent |-> {Initial},
              remote |-> IdFromRank(Initial, Opener)]
  /\ aborts = plan.aborts /\ error = "none"

Live(x, r) == x.streams[r].state \in {"open", "closed"}
-----------------------------------------------------------------------------
(* What both ends do to a stream; x is the state of end e.                 *)

ReceiveComplete(s) == s.consumed >= s.fin_offset /\ (s.fin_received \/ s.reset_received)
SendComplete(s) == s.fin_sent \/ s.reset_sent

(* picoquic_update_max_stream_ID_local                                     *)
UpdateMaxStreamId(x, e, r) ==
  IF e = Opener \/ x.streams[r].max_stream_updated
     \/ ~ReceiveComplete(x.streams[r]) \/ ~SendComplete(x.streams[r]) THEN x
  ELSE [x EXCEPT !.streams[r].max_stream_updated = TRUE, !.computed = @ + 4]

(* picoquic_is_stream_closed                                               *)
IsClosed(s) ==
  /\ (s.fin_requested /\ s.fin_sent) \/ s.reset_sent
  /\ (s.fin_received /\ s.fin_signalled) \/ (s.reset_received /\ s.reset_signalled)

SentKinds(s) == (IF s.sent > 0 THEN {"data"} ELSE {}) \cup (IF s.fin_sent THEN {"fin"} ELSE {})

(* Mutant: the end alone has to be acknowledged.                           *)
IsEndAcked(s) == IF s.reset_sent THEN "reset" \in s.acked ELSE "fin" \in s.acked

(* picoquic_is_stream_acked                                                *)
IsAcked(s) == IF s.reset_sent THEN "reset" \in s.acked ELSE SentKinds(s) \subseteq s.acked

(* picoquic_delete_stream_if_closed                                        *)
DeleteIfClosed(x, e, r) ==
  LET closing == x.streams[r].state = "open" /\ IsClosed(x.streams[r])
      y == IF closing THEN [UpdateMaxStreamId(x, e, r) EXCEPT !.streams[r].state = "closed"] ELSE x
  IN  IF y.streams[r].state = "closed" /\ IsAcked(y.streams[r])
      THEN [y EXCEPT !.streams[r].state = "deleted"] ELSE y

HasData(s) == ~s.reset_sent /\ (s.queued > 0 \/ (s.fin_requested /\ ~s.fin_sent))

(* Mutant: one stream above the limit.                                     *)
MaySendNext(e, r) == e = Opener => StreamId(r) <= limit.remote + 4

MaySend(e, r) == e = Opener => StreamId(r) <= limit.remote

(* picoquic_create_missing_streams, picoquic_create_stream                 *)
CreateMissing(x, e, r) ==
  [x EXCEPT !.next = Max({@, r + 1}),
            !.streams = [k \in Ranks |->
               IF k \in x.next..r THEN [Fresh EXCEPT !.state = "open", !.listed = MaySend(e, k)]
               ELSE x.streams[k]]]

(* picoquic_update_output_stream                                           *)
UpdateOutput(x, e, r) ==
  [x EXCEPT !.streams[r].listed =
     HasData(x.streams[r]) /\ (x.streams[r].sent = 0 => MaySend(e, r))]

(* picoquic_reset_stream: refused when the end was sent, unless the peer   *)
(* has acknowledged as much as it has sent itself.                         *)
AckedPositions(s) ==
  (IF "data" \in s.acked THEN {0} ELSE {}) \cup (IF "fin" \in s.acked THEN {s.sent} ELSE {})

CanReset(s) == ~s.reset_sent /\ (s.fin_sent => 0..s.fin_offset \subseteq AckedPositions(s))

ResetStream(x, r) ==
  [x EXCEPT !.streams[r].reset_sent = TRUE, !.streams[r].queued = 0, !.streams[r].listed = FALSE]
-----------------------------------------------------------------------------
(* The applications.                                                       *)

(* picoquic_add_to_stream: a refused call has requested the FIN all the    *)
(* same, and has not put the stream in the output list.                    *)
Refused(s) == s.reset_sent \/ s.stop_received

AddToStream(e, r, n, fin) ==
  LET x == IF e = Opener /\ r = end[e].next THEN CreateMissing(end[e], e, r) ELSE end[e]
      y == IF fin THEN [x EXCEPT !.streams[r].fin_requested = TRUE] ELSE x
      s == x.streams[r]
  IN  /\ Live(x, r) /\ ~s.fin_requested
      /\ s.queued + s.sent + n <= IF r = plan.busy /\ e \in plan.data THEN 1 ELSE 0
      /\ n > 0 \/ fin
      /\ end' = [end EXCEPT ![e] =
                   IF Refused(s) THEN y
                   ELSE UpdateOutput([y EXCEPT !.streams[r].queued = s.queued + n], e, r)]
      /\ UNCHANGED <<plan, limit, aborts, error>>

MayAbort(e, r) ==
  r = plan.busy /\ e \in plan.by /\ aborts > 0 /\ (EarlyAborts \/ MaySend(e, r))

(* What an application decides alone costs an abort; the answer to a       *)
(* STOP_SENDING does not.                                                  *)
Reset(e, r) ==
  /\ Live(end[e], r) /\ CanReset(end[e].streams[r])
  /\ IF end[e].streams[r].stop_received THEN UNCHANGED aborts
     ELSE MayAbort(e, r) /\ aborts' = aborts - 1
  /\ end' = [end EXCEPT ![e] = ResetStream(end[e], r)]
  /\ UNCHANGED <<plan, limit, error>>

(* picoquic_stop_sending: no frame is sent if the peer has ended.          *)
StopSending(e, r) ==
  LET s == end[e].streams[r]
  IN  /\ Live(end[e], r) /\ ~s.reset_received /\ ~s.stop_requested
      /\ MayAbort(e, r) /\ aborts' = aborts - 1
      /\ end' = [end EXCEPT ![e].streams[r].stop_requested = TRUE,
                            ![e].streams[r].stop_sent = ~s.fin_received]
      /\ UNCHANGED <<plan, limit, error>>
-----------------------------------------------------------------------------
(* The sender.                                                             *)

(* picoquic_format_stream_frame *)
SendStream(e, r) ==
  LET s == end[e].streams[r]
      x == [end[e] EXCEPT !.streams[r].sent = s.sent + s.queued, !.streams[r].queued = 0,
                          !.streams[r].fin_sent = s.fin_requested]
  IN  /\ Live(end[e], r) /\ s.listed /\ HasData(s) /\ MaySend(e, r)
      /\ end' = [end EXCEPT ![e] =
                   LET y == [x EXCEPT !.streams[r].listed = FALSE]
                   IN  IF s.fin_requested
                       THEN DeleteIfClosed(UpdateMaxStreamId(y, e, r), e, r) ELSE y]
      /\ UNCHANGED <<plan, limit, aborts, error>>

(* Mutant: the limit grows by what was closed, but whenever asked.         *)
AlwaysDue == limit.local < IdFromRank(plan.last + Initial, Acceptor)

MaxStreamsDue == end[Acceptor].computed + 2 * Initial > limit.local

(* picoquic_format_max_streams_frame_if_needed *)
FormatMaxStreams ==
  /\ MaxStreamsDue
  /\ limit' = [limit EXCEPT !.local = @ + 4 * Initial,
                             !.sent = @ \cup {RankFromId(limit.local + 4 * Initial)}]
  /\ UNCHANGED <<plan, end, aborts, error>>
-----------------------------------------------------------------------------
(* Incoming frames.                                                        *)

Fail(what) == error' = what /\ UNCHANGED <<plan, end, limit, aborts>>

TooHigh(e, r) == e = Acceptor /\ r >= end[e].next /\ StreamId(r) > limit.local
Gone(e, r) == r < end[e].next /\ ~Live(end[e], r)

Becomes(e, r, kind, x) ==
  end' = [end EXCEPT ![e] = [x EXCEPT !.streams[r].got = @ \cup {kind}]]

(* picoquic_stream_data_chunk_callback *)
Deliver(s, n) ==
  LET t == [s EXCEPT !.consumed = @ + n]
  IN  [t EXCEPT !.fin_signalled = @ \/ (ReceiveComplete(t) /\ t.fin_received)]

(* picoquic_stream_network_input for the byte, or for the end at n.  The   *)
(* credit is counted before the end is known to be at n.                   *)
Input(x0, e, r, kind, n) ==
  LET x == CreateMissing(x0, e, r)
      fin == [x EXCEPT !.streams[r].fin_received = TRUE]
      y == IF kind = "data" \/ x.streams[r].fin_received THEN x ELSE UpdateMaxStreamId(fin, e, r)
      s == [y.streams[r] EXCEPT !.fin_offset = IF kind = "data" THEN 1 ELSE n]
      z == [y EXCEPT !.streams[r] = Deliver(s, IF kind = "data" THEN 1 - s.consumed ELSE 0)]
  IN  IF z.streams[r].fin_signalled \/ z.streams[r].reset_signalled
      THEN DeleteIfClosed(z, e, r) ELSE z

ReceiveStream(e, r, kind) ==
  LET p == end[Peer(e)].streams[r]
  IN  /\ kind \in SentKinds(p)
      /\ IF TooHigh(e, r) THEN Fail("stream_limit")
         ELSE /\ Becomes(e, r, kind,
                         IF Gone(e, r) THEN end[e] ELSE Input(end[e], e, r, kind, p.sent))
              /\ UNCHANGED <<plan, limit, aborts, error>>


(* picoquic_apply_reset_stream_frame; the application may answer with a    *)
(* reset of its own in the callback.                                       *)
InputReset(x0, e, r, n, answer) ==
  LET x == CreateMissing(x0, e, r)
      t == [x EXCEPT !.streams[r].fin_offset = n, !.streams[r].reset_received = TRUE]
      u == UpdateMaxStreamId(t, e, r)
      v == IF answer /\ CanReset(u.streams[r]) THEN ResetStream(u, r) ELSE u
  IN  IF x.streams[r].reset_received THEN x
      ELSE DeleteIfClosed([v EXCEPT !.streams[r].reset_signalled = TRUE], e, r)

ReceiveReset(e, r, answer) ==
  LET p == end[Peer(e)].streams[r]
      s == end[e].streams[r]
  IN  /\ p.reset_sent
      /\ IF TooHigh(e, r) THEN Fail("stream_limit")
         ELSE IF Live(end[e], r) /\ (s.fin_received \/ s.reset_received) /\ s.fin_offset # p.sent
         THEN Fail("final_offset")
         ELSE /\ Becomes(e, r, "reset",
                         IF Gone(e, r) THEN end[e] ELSE InputReset(end[e], e, r, p.sent, answer))
              /\ UNCHANGED <<plan, limit, aborts, error>>

(* picoquic_decode_stop_sending_frame *)
ReceiveStop(e, r, answer) ==
  LET x == CreateMissing(end[e], e, r)
      s == x.streams[r]
      y == [x EXCEPT !.streams[r].stop_received = TRUE]
  IN  /\ end[Peer(e)].streams[r].stop_sent
      /\ IF TooHigh(e, r) THEN Fail("stream_limit")
         ELSE /\ ~Gone(e, r)
              /\ ~s.stop_received /\ ~s.reset_sent /\ ~s.fin_sent
              /\ end' = [end EXCEPT ![e] = IF answer THEN ResetStream(y, r) ELSE y]
              /\ UNCHANGED <<plan, limit, aborts, error>>

(* An acknowledgement of a frame that has arrived.                         *)
ReceiveAck(e, r, kind) ==
  /\ kind \in end[Peer(e)].streams[r].got
  /\ Live(end[e], r) /\ kind \notin end[e].streams[r].acked
  /\ end' = [end EXCEPT ![e] = 
                   DeleteIfClosed([end[e] EXCEPT !.streams[r].acked = @ \cup {kind}], e, r)]
  /\ UNCHANGED <<plan, limit, aborts, error>>

(* picoquic_decode_max_streams_frame, picoquic_add_output_streams          *)
ReceiveMaxStreams(rank) ==
  LET id == IdFromRank(rank, Opener)
      released == {r \in Ranks : StreamId(r) > limit.remote /\ StreamId(r) <= id}
  IN  /\ rank \in limit.sent /\ id > limit.remote
      /\ limit' = [limit EXCEPT !.remote = id]
      /\ end' = [end EXCEPT ![Opener].streams = [r \in Ranks |->
                   IF r \in released /\ Live(end[Opener], r)
                   THEN [end[Opener].streams[r] EXCEPT !.listed = TRUE]
                   ELSE end[Opener].streams[r]]]
      /\ UNCHANGED <<plan, aborts, error>>
-----------------------------------------------------------------------------
Receive(e, r) ==
  \/ \E kind \in {"data", "fin"} : ReceiveStream(e, r, kind)
  \/ \E answer \in BOOLEAN : ReceiveReset(e, r, answer) \/ ReceiveStop(e, r, answer)

Next ==
  /\ error = "none"
  /\ \/ \E e \in End, r \in Ranks :
          \/ \E n \in 0..1, fin \in BOOLEAN : AddToStream(e, r, n, fin)
          \/ Reset(e, r) \/ StopSending(e, r) \/ SendStream(e, r)
          \/ Receive(e, r)
          \/ \E kind \in Kinds : ReceiveAck(e, r, kind)
     \/ FormatMaxStreams
     \/ \E rank \in limit.sent : ReceiveMaxStreams(rank)

Spec == Init /\ [][Next]_vars

(* The applications end every stream they know, and reset it when the peer *)
(* stops it; what is sent, retransmissions included, arrives and is        *)
(* acknowledged in the end.  Every step uses something up, so that one     *)
(* fairness condition on all of them is enough.                            *)
Progress ==
  \/ \E e \in End, r \in Ranks :
       \/ \E n \in 0..1 : AddToStream(e, r, n, TRUE)
       \/ end[e].streams[r].stop_received /\ Reset(e, r)
       \/ SendStream(e, r) \/ Receive(e, r)
       \/ \E kind \in Kinds : ReceiveAck(e, r, kind)
  \/ FormatMaxStreams
  \/ \E rank \in limit.sent : ReceiveMaxStreams(rank)

FairSpec == Spec /\ WF_vars(Progress)
-----------------------------------------------------------------------------
TypeOK ==
  /\ plan \in Plans
  /\ DOMAIN end = End
  /\ \A e \in End : /\ \A r \in Ranks : end[e].streams[r] \in Stream
                    /\ end[e].next \in 1..(plan.last + 1) /\ end[e].computed \in Nat
  /\ limit.local \in Nat /\ limit.remote \in Nat /\ limit.sent \subseteq Nat
  /\ aborts \in 0..plan.aborts
  /\ error \in {"none", "stream_limit", "final_offset"}

(* An end deletes a stream, and with it what it could send again, only     *)
(* when the peer has all it sent on it: the reset, or each byte and the    *)
(* end (picoquic_delete_stream_if_closed).                                 *)
DeletedIsDone ==
  \A e \in End, r \in Ranks :
    end[e].streams[r].state = "deleted" =>
      LET got == end[Peer(e)].streams[r].got
      IN  IF end[e].streams[r].reset_sent THEN "reset" \in got
          ELSE SentKinds(end[e].streams[r]) \subseteq got

(* No end raises an error against a peer that runs the same code: streams  *)
(* are opened within the limit that was sent, and a reset has the final    *)
(* offset that was seen before it (picoquic_create_missing_streams,        *)
(* picoquic_apply_reset_stream_frame).                                     *)
NoPeerError == error = "none"

(* The acceptor never keeps more than twice the streams it first permitted *)
(* that are not over in both directions, however closings, deletions and   *)
(* repeated frames interleave (picoquic_update_max_stream_ID_local,        *)
(* picoquic_format_max_streams_frame_if_needed).                           *)
IsOver(s) == (s.fin_received \/ s.reset_received) /\ SendComplete(s)

BoundedOpen ==
  Cardinality({r \in 1..(end[Acceptor].next - 1) : ~IsOver(end[Acceptor].streams[r])})
    <= 2 * Initial

(* A stream of the peer that is closed has returned its credit, once,      *)
(* unless it was reset with a byte that was not consumed: that credit is   *)
(* lost (picoquic_update_max_stream_ID_local).                             *)
CreditCounted ==
  LET known == 1..(end[Acceptor].next - 1)
      s(r) == end[Acceptor].streams[r]
      counted == {r \in known : s(r).max_stream_updated}
  IN  /\ end[Acceptor].computed = Bit(Acceptor) + 4 * Cardinality(counted)
      /\ \A r \in known : s(r).state # "open" /\ ~s(r).max_stream_updated =>
                          s(r).reset_received /\ s(r).fin_offset > 0

(* The streams that the acceptor has closed without returning their        *)
(* credit.                                                                 *)
CreditLost ==
  {r \in 1..(end[Acceptor].next - 1) :
     LET s == end[Acceptor].streams[r] IN s.state # "open" /\ ~s.max_stream_updated}

(* A stream that is closed in both directions has returned its credit, as  *)
(* the comment of max_stream_updated says (picoquic_internal.h:833).  It   *)
(* is false: a reset that overtakes or replaces a byte leaves              *)
(* consumed_offset below fin_offset for ever (frames.c:4597).              *)
ClosedReturnsCredit == CreditLost = {}

(* Both ends finally delete every stream that was opened, whatever was     *)
(* reset or stopped, and the opener can open every stream it wants as long *)
(* as fewer than 2 * Initial of them have lost their credit; each one that *)
(* has narrows the limit by one for the rest of the connection             *)
(* (picoquic_delete_stream_if_closed, picoquic_format_max_streams_frame_if_needed). *)
Released(r) == \A e \in End : end[e].streams[r].state = "deleted"

=============================================================================
