--------------------------- MODULE OutputStreams ----------------------------
(***************************************************************************)
(* Which stream a client sends next: the list of output streams of a       *)
(* picoquic connection, kept beside the tree of all its streams.  A stream *)
(* enters the list when the application gives it data or when the peer     *)
(* raises a limit, and leaves it when it has nothing it may send; a stream *)
(* left out of the list is not polled, whatever it holds.                  *)
(*                                                                         *)
(* One client and the streams of one type it opens, from before the        *)
(* transport parameters of the server arrive.  The application and the     *)
(* server are the environment.  A Send step is one stream frame; the       *)
(* frames of one packet are consecutive Send steps.                        *)
(***************************************************************************)
EXTENDS SequencesExt

CONSTANTS
  MaxStreams,      \* bound: streams have the ranks 0 .. MaxStreams - 1
  MaxBytes,        \* bound: bytes the application puts on one stream
  MaxNow,          \* bound: ticks of the clock
  StreamCredits,   \* values of the credit of a stream
  DataCredits,     \* values of the credit of the connection
  Unidir,          \* are the streams unidirectional?
  IdSpan,          \* stands for 2^64, the span of a stream id
  StreamGrants,    \* numbers of streams the server may allow
  Priorities,      \* stream priorities the application uses
  DefaultPriority

ASSUME OutputStreamsAssumption ==
  /\ MaxStreams \in Nat \ {0} /\ MaxBytes \in Nat /\ MaxNow \in Nat
  /\ StreamCredits \subseteq Nat /\ DataCredits \subseteq Nat
  /\ Unidir \in BOOLEAN
  /\ IdSpan \in Nat /\ IdSpan > 4 * (MaxStreams + 1)
  /\ StreamGrants \subseteq 0 .. MaxStreams
  /\ Priorities \subseteq 0 .. 255 /\ DefaultPriority \in 0 .. 255

VARIABLES
  created,         \* next_stream_id: streams below it exist
  st,              \* picoquic_stream_head_t, what the scheduler reads
  out,             \* output_streams, first to last
  data_sent, maxdata_remote,      \* of the connection
  max_stream_id,   \* max_stream_id_bidir_remote or _unidir_remote
  received,        \* remote_parameters_received
  granted,         \* number of streams the server has allowed
  now              \* time, in ticks of the frames sent

vars == <<created, st, out, data_sent, maxdata_remote, max_stream_id,
          received, granted, now>>

Streams == 0 .. MaxStreams - 1
Lists == Seq(Streams)
Bit(b) == IF b THEN 1 ELSE 0

(* STREAM_ID_FROM_RANK of a client, on unsigned 64 bit integers.           *)
IdFromRank(n) == (4 * (n - 1) + 2 * Bit(Unidir)) % IdSpan
Id(s) == IdFromRank(s + 1)

Allowed(lim, s) == Id(s) <= lim

Stream == [queue : 0 .. MaxBytes, active : BOOLEAN, fin_requested : BOOLEAN,
           fin_sent : BOOLEAN, reset_sent : BOOLEAN, stop_received : BOOLEAN,
           sent : 0 .. MaxBytes, maxdata_remote : Nat,
           priority : 0 .. 255, last : Nat]

(* picoquic_create_stream.                                                 *)
NewStream(credit) ==
  [queue |-> 0, active |-> FALSE, fin_requested |-> FALSE, fin_sent |-> FALSE,
   reset_sent |-> FALSE, stop_received |-> FALSE, sent |-> 0,
   maxdata_remote |-> credit, priority |-> DefaultPriority, last |-> 0]

(* Without a ticket the remembered parameters are all zero.                *)
Init ==
  /\ created = 0
  /\ st = [s \in Streams |-> NewStream(0)]
  /\ out = <<>>
  /\ data_sent = 0 /\ maxdata_remote = 0
  /\ max_stream_id = IdFromRank(0)
  /\ received = FALSE /\ granted = 0
  /\ now = 0
-----------------------------------------------------------------------------
(* picoquic_compare_stream_priority: a goes before b.                      *)
Before(t, a, b) ==
  \/ t[a].priority < t[b].priority
  \/ /\ t[a].priority = t[b].priority
     /\ IF t[a].priority % 2 = 0 /\ t[a].last # t[b].last
        THEN t[a].last < t[b].last
        ELSE a < b

(* picoquic_find_ready_stream_has_data.                                    *)
HasData(t, lim, s) ==
  /\ ~t[s].reset_sent
  /\ t[s].active \/ t[s].queue > 0 \/ (t[s].fin_requested /\ ~t[s].fin_sent)
  /\ t[s].sent < t[s].maxdata_remote
  /\ t[s].sent = 0 => Allowed(lim, s)

InsertOutput(t, lim, l, s) ==
  LET after == {i \in DOMAIN l : Before(t, s, l[i])}
  IN  IF s \in ToSet(l) \/ ~Allowed(lim, s) \/ ~HasData(t, lim, s) THEN l
      ELSE IF l # <<>> /\ Before(t, s, Last(l)) THEN InsertAt(l, Min(after), s)
      ELSE Append(l, s)

RemoveOutput(l, s) == RemoveFirst(l, s)

UpdateOutput(t, lim, l, s) ==
  IF HasData(t, lim, s) THEN InsertOutput(t, lim, l, s) ELSE RemoveOutput(l, s)

(* Mutant: a stream is compared with its successor only.                   *)
ReorderDownOnly(t, lim, l, s) ==
  IF \E i \in 1 .. Len(l) - 1 : l[i] = s /\ Before(t, l[i + 1], s)
  THEN InsertOutput(t, lim, RemoveOutput(l, s), s) ELSE l

(* The list after a visit of the first n streams in turn; visit[s] is what *)
(* becomes of a list at stream s.                                          *)
Walk(visit, l, n) ==
  LET after[i \in 0 .. n] == IF i = 0 THEN l ELSE visit[i - 1][after[i - 1]]
  IN  after[n]

(* Only a stream that is out of place with a neighbour is moved.           *)
Reorder(t, lim, l, s) ==
  LET misplaced == \E i \in DOMAIN l :
        /\ l[i] = s
        /\ \/ i > 1 /\ Before(t, s, l[i - 1])
           \/ i < Len(l) /\ Before(t, l[i + 1], s)
  IN  IF misplaced THEN InsertOutput(t, lim, RemoveOutput(l, s), s) ELSE l

(* Mutant: a stream leaves the list whenever it has sent.                  *)
RemoveAfterSend(t, lim, l, s, old) == RemoveOutput(l, s)

(* The search for the new place of a round robin stream that sent.  It     *)
(* starts at the previous stream, meets the stream itself and stops.       *)
ReorderAfterSend(t, lim, l, s, old) ==
  LET place == CHOOSE i \in DOMAIN l : l[i] = s
      start == place - 1
      passed == {j \in DOMAIN l : start >= 1 /\ start <= j
                                  /\ \A k \in start .. j : Before(t, l[k], s)}
      previous == Max(passed \cup {start})
  IN  IF s \notin ToSet(l) THEN l
      ELSE IF ~HasData(t, lim, s) THEN RemoveOutput(l, s)
      ELSE IF t[s].priority % 2 = 0 /\ t[s].last # old /\ previous # start
      THEN InsertAt(RemoveOutput(l, s), previous, s)
      ELSE l

(* Mutant: the walk stops short of the new limit.                          *)
AddStreamsBelow(t, l, old, new) ==
  LET walked == {s \in Streams : s < created /\ old < Id(s) /\ Id(s) < new}
      visit == [s \in Streams |-> [k \in Lists |->
                  IF s \in walked THEN InsertOutput(t, new, k, s) ELSE k]]
  IN  Walk(visit, l, MaxStreams)

(* picoquic_add_output_streams: a walk over the existing streams above the *)
(* old limit, if the first of them exists.                                 *)
AddOutputStreams(t, l, old, new) ==
  LET first == IdFromRank((old + 4) \div 4 + 1)
      walked == {s \in Streams : /\ s < created
                                 /\ first <= Id(s) /\ old < Id(s) /\ Id(s) <= new}
      visit == [s \in Streams |-> [k \in Lists |->
                  IF s \in walked THEN InsertOutput(t, new, k, s) ELSE k]]
  IN  IF \E s \in Streams : s < created /\ Id(s) = first
      THEN Walk(visit, l, MaxStreams) ELSE l

(* picoquic_update_stream_initial_remote: every existing stream.           *)
UpdateOutputs(t, lim, l) ==
  LET visit == [s \in Streams |-> [k \in Lists |-> UpdateOutput(t, lim, k, s)]]
  IN  Walk(visit, l, created)
-----------------------------------------------------------------------------
(* A call of the application on stream s: the stream and the ones below it *)
(* that are missing are created, r is what becomes of s.                   *)
Write(s, r) ==
  /\ created' = IF s < created THEN created ELSE s + 1
  /\ st' = [st EXCEPT ![s] = r]
  /\ UNCHANGED <<data_sent, maxdata_remote, max_stream_id, received, granted, now>>

Written(s) == st[s].sent + st[s].queue

(* picoquic_add_to_stream_with_ctx.  A refused call leaves the mark of the *)
(* FIN it asked for.                                                       *)
AddToStream(s, n, fin) ==
  LET r == [st[s] EXCEPT !.fin_requested = @ \/ fin]
  IN  /\ n > 0 \/ fin
      /\ Written(s) + n <= MaxBytes
      /\ ~st[s].fin_requested       \* the application keeps to its own FIN
      /\ IF r.reset_sent \/ r.stop_received
         THEN Write(s, r) /\ UNCHANGED out
         ELSE /\ Write(s, [r EXCEPT !.queue = @ + n, !.active = FALSE])
              /\ out' = UpdateOutput(st', max_stream_id, out, s)

(* picoquic_mark_active_stream.                                            *)
MarkActive(s) ==
  /\ ~st[s].fin_requested /\ ~st[s].reset_sent /\ ~st[s].active
  /\ Write(s, [st[s] EXCEPT !.active = TRUE])
  /\ out' = UpdateOutput(st', max_stream_id, out, s)

MarkInactive(s) ==
  /\ st[s].active
  /\ Write(s, [st[s] EXCEPT !.active = FALSE])
  /\ out' = UpdateOutput(st', max_stream_id, out, s)

SetPriority(s, p) ==
  /\ st[s].priority # p
  /\ Write(s, [st[s] EXCEPT !.priority = p])
  /\ out' = Reorder(st', max_stream_id, out, s)

(* picoquic_reset_stream.  Nothing is acknowledged here: after a FIN the   *)
(* call does nothing but return an error.                                  *)
ResetStream(s) ==
  /\ s < created /\ ~st[s].reset_sent /\ ~st[s].fin_sent
  /\ Write(s, [st[s] EXCEPT !.reset_sent = TRUE, !.queue = 0])
  /\ out' = UpdateOutput(st', max_stream_id, out, s)
-----------------------------------------------------------------------------
(* The server's transport parameters.  What was remembered is cleared; the *)
(* parameters are applied in the order the server wrote them, and a        *)
(* parameter that is left out (n = -1) keeps its default.                  *)
TransportParameters(credit, data, n, streamsFirst) ==
  LET t == [s \in Streams |-> [st[s] EXCEPT !.maxdata_remote = credit]]
      lim == IF n = -1 THEN 0 ELSE IdFromRank(n)
  IN  /\ ~received
      /\ received' = TRUE
      /\ st' = t
      /\ maxdata_remote' = data
      /\ max_stream_id' = lim
      /\ granted' = Max({n, 0})
      /\ out' = IF n = -1 THEN UpdateOutputs(t, 0, out)
                ELSE IF streamsFirst
                THEN UpdateOutputs(t, lim, AddOutputStreams(st, out, 0, lim))
                ELSE AddOutputStreams(t, UpdateOutputs(t, 0, out), 0, lim)
      /\ UNCHANGED <<created, data_sent, now>>

MaxStreamData(s, v) ==
  /\ received /\ s < created /\ v > st[s].maxdata_remote
  /\ Write(s, [st[s] EXCEPT !.maxdata_remote = v])
  /\ out' = UpdateOutput(st', max_stream_id, out, s)

MaxDataFrame(v) ==
  /\ received /\ v > maxdata_remote
  /\ maxdata_remote' = v
  /\ UNCHANGED <<created, st, out, data_sent, max_stream_id, received, granted, now>>

MaxStreamsFrame(n) ==
  /\ received /\ n > granted
  /\ granted' = n
  /\ IF IdFromRank(n) > max_stream_id
     THEN /\ max_stream_id' = IdFromRank(n)
          /\ out' = AddOutputStreams(st, out, max_stream_id, IdFromRank(n))
     ELSE UNCHANGED <<max_stream_id, out>>
  /\ UNCHANGED <<created, st, data_sent, maxdata_remote, received, now>>

(* picoquic_decode_stop_sending_frame; what the application does then is   *)
(* an action of its own.                                                   *)
StopSending(s) ==
  /\ received /\ s < created
  /\ ~st[s].stop_received /\ ~st[s].reset_sent /\ ~st[s].fin_sent
  /\ Write(s, [st[s] EXCEPT !.stop_received = TRUE])
  /\ UNCHANGED out
-----------------------------------------------------------------------------
(* picoquic_find_ready_stream_path: the first listed stream with data.     *)
Found(s) ==
  \E i \in DOMAIN out :
    /\ out[i] = s
    /\ HasData(st, max_stream_id, s)
    /\ \A j \in 1 .. i - 1 : ~HasData(st, max_stream_id, out[j])

(* The exhausted streams that it passes on the way leave the list.         *)
Kept(s) ==
  LET passed == {r \in Streams : /\ ~HasData(st, max_stream_id, r)
                                 /\ \E i, j \in DOMAIN out :
                                      i < j /\ out[i] = r /\ out[j] = s}
      exhausted(r) == (st[r].fin_requested /\ st[r].fin_sent) \/ st[r].reset_sent
      visit == [r \in Streams |-> [k \in Lists |->
                  IF r \in passed /\ exhausted(r) THEN RemoveOutput(k, r) ELSE k]]
  IN  Walk(visit, out, MaxStreams)

Room(s) == Min({st[s].maxdata_remote - st[s].sent, maxdata_remote - data_sent})

(* A frame with n more bytes of s; time may have passed since the last.    *)
Frame(s, n, r) ==
  /\ now' \in {now, now + 1} \cap 0 .. MaxNow
  /\ st' = [st EXCEPT ![s] = [r EXCEPT !.sent = @ + n,
                                        !.last = IF n > 0 THEN now' ELSE @]]
  /\ data_sent' = data_sent + n
  /\ out' = ReorderAfterSend(st', max_stream_id, Kept(s), s, st[s].last)
  /\ UNCHANGED <<created, maxdata_remote, max_stream_id, received, granted>>

Polled(s) == st[s].active /\ st[s].queue = 0 /\ ~st[s].fin_requested

(* The application is polled.  One that provides nothing is no longer      *)
(* active: it would be polled again for the same frame, without end.       *)
SendPolled(s, n, fin, still) ==
  /\ Polled(s)
  /\ n <= Room(s) /\ Written(s) + n <= MaxBytes
  /\ still => n > 0 /\ ~fin
  /\ Frame(s, n, [st[s] EXCEPT !.active = still, !.fin_requested = fin,
                               !.fin_sent = fin])

(* Data of the send queue, and the FIN with the last of it.                *)
SendQueued(s, n) ==
  /\ ~Polled(s)
  /\ n <= Min({Room(s), st[s].queue})
  /\ n = 0 => st[s].queue = 0
  /\ Frame(s, n, [st[s] EXCEPT
       !.queue = @ - n,
       !.fin_sent = @ \/ (n = st[s].queue /\ st[s].fin_requested)])

Send ==
  /\ maxdata_remote > data_sent
  /\ \E s \in Streams :
       /\ Found(s) /\ Allowed(max_stream_id, s)
       /\ \E n \in 0 .. MaxBytes :
            \/ \E fin, still \in BOOLEAN : SendPolled(s, n, fin, still)
            \/ SendQueued(s, n)
-----------------------------------------------------------------------------
Application(s) ==
  \/ \E n \in 0 .. MaxBytes, fin \in BOOLEAN : AddToStream(s, n, fin)
  \/ MarkActive(s)
  \/ MarkInactive(s)
  \/ \E p \in Priorities : SetPriority(s, p)
  \/ ResetStream(s)

Peer ==
  \/ \E credit \in StreamCredits, data \in DataCredits,
        n \in StreamGrants \cup {-1}, streamsFirst \in BOOLEAN :
       /\ n = -1 => 0 \in StreamGrants
       /\ TransportParameters(credit, data, n, streamsFirst)
  \/ \E s \in Streams :
       \/ StopSending(s)
       \/ \E v \in StreamCredits : MaxStreamData(s, v)
  \/ \E v \in DataCredits : MaxDataFrame(v)
  \/ \E n \in StreamGrants : MaxStreamsFrame(n)

Next == Send \/ Peer \/ \E s \in Streams : Application(s)

Spec == Init /\ [][Next]_vars

(* The sending loop runs whenever it has something to send.                *)
FairSpec == Spec /\ WF_vars(Send)
-----------------------------------------------------------------------------
TypeOK ==
  /\ created \in 0 .. MaxStreams
  /\ st \in [Streams -> Stream]
  /\ out \in Seq(Streams)
  /\ data_sent \in Nat /\ maxdata_remote \in Nat
  /\ max_stream_id \in 0 .. IdSpan - 1
  /\ received \in BOOLEAN /\ granted \in 0 .. MaxStreams
  /\ now \in Nat

Ready(s) == Allowed(max_stream_id, s) /\ HasData(st, max_stream_id, s)

(* The list is exactly the set of streams that could send: a stream that   *)
(* is ready has not been left out by any order of data, credit and limits, *)
(* one that is not ready has been taken out, and none is linked twice.     *)
(* A stream the peer asked to stop is the application's to reset.          *)
ListIsReadySet ==
  /\ \A s \in Streams : Ready(s) => s \in ToSet(out) \/ st[s].stop_received
  /\ \A s \in ToSet(out) : Ready(s)
  /\ IsInjective(out)

(* What the streams sent adds up to what the connection counts, and        *)
(* neither count exceeds the credit that the server gave.                  *)
CreditKept ==
  /\ data_sent = FoldFunctionOnSet(+, 0, [s \in Streams |-> st[s].sent], Streams)
  /\ data_sent <= maxdata_remote
  /\ \A s \in Streams : st[s].sent <= st[s].maxdata_remote

(* A frame is never sent on a stream while a ready stream of a lower       *)
(* priority value waits, nor, in a FIFO level, one of a lower id, however  *)
(* priorities were changed while streams were in the list.                 *)
SendsMostUrgent ==
  [][\A s, r \in Streams :
       st'[s].sent > st[s].sent /\ Ready(r) /\ ~st[r].stop_received =>
         /\ st[s].priority <= st[r].priority
         /\ st[s].priority = st[r].priority /\ st[s].priority % 2 = 1 => s <= r]_vars

(* Round robin: within an even level the stream that sent least recently   *)
(* goes first.                                                             *)
RoundRobin ==
  [][\A s, r \in Streams :
       /\ st'[s].sent > st[s].sent
       /\ r # s /\ r \in ToSet(out) /\ st[r].priority = st[s].priority
       /\ st[s].priority % 2 = 0
       => st[s].last <= st[r].last]_vars

(* Data that is queued and allowed by every limit is in the list of the    *)
(* streams that the sender looks at.                                       *)
QueuedIsListed ==
  \A s \in Streams :
    st[s].queue > 0 /\ Ready(s) /\ ~st[s].stop_received => s \in ToSet(out)

Waiting(s) == st[s].queue > 0 /\ Ready(s) /\ maxdata_remote > data_sent

(* No stream waits forever while the sending loop runs: data that may be   *)
(* sent is sent, or loses its credit to other streams.  An application     *)
(* that keeps another stream active may hold the loop with it.             *)
NoStarvation ==
  \A s \in Streams :
    []<>~(Waiting(s) /\ \A r \in Streams \ {s} : ~st[r].active)
=============================================================================
