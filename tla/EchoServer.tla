----------------------------- MODULE EchoServer -----------------------------
(***************************************************************************)
(* The echo server of hello_server_loop.c on one connection: the contexts  *)
(* it allocates for the streams of the client, linked in a list, the data  *)
(* it keeps in them, and the calls between it and the transport.           *)
(*                                                                         *)
(* The client is unknown: it sends on its streams, ends them, resets them, *)
(* asks the server to stop.  Any allocation may fail.  Bytes of a stream   *)
(* are their offsets; an address that was freed may be allocated again.    *)
(***************************************************************************)
EXTENDS Integers, SequencesExt

CONSTANTS
  Streams,
  Addresses,       \* bound: where contexts are allocated
  MaxBytes,        \* bound: bytes received on a stream
  Sizes,           \* bound: bytes received on each stream
  RecvBufInit,     \* RECV_BUF_INIT
  Null             \* the null pointer

ASSUME EchoServerAssumption ==
  /\ MaxBytes \in Nat /\ Sizes \in [Streams -> 0 .. MaxBytes]
  /\ RecvBufInit \in Nat \ {0}
  /\ Addresses \subseteq Nat /\ IsFiniteSet(Addresses) /\ Null \notin Addresses

VARIABLES
  stream,          \* the transport's streams, as far as the server sees them
  heap,            \* the contexts, and Free addresses
  stream_head,     \* head of the list of contexts
  state            \* of the connection: open, disconnecting, closed

vars == <<stream, heap, stream_head, state>>

Free == [freed |-> TRUE]
Pointers == Addresses \cup {Null}

Stream == [received : 0 .. MaxBytes, fin_signalled : BOOLEAN,
           reset_signalled : BOOLEAN, stop_signalled : BOOLEAN,
           is_active : BOOLEAN, fin_requested : BOOLEAN, reset_requested : BOOLEAN,
           deleted : BOOLEAN, app_stream_ctx : Pointers,
           echoed : Seq(0 .. MaxBytes - 1)]

(* echo_stream_ctx_t.                                                      *)
Context == [stream_id : Streams, recv_buf : Seq(0 .. MaxBytes - 1), recv_cap : Nat,
            fin_received : BOOLEAN, echo_sent : BOOLEAN,
            next : Pointers, prev : Pointers]

NewStream ==
  [received |-> 0, fin_signalled |-> FALSE, reset_signalled |-> FALSE,
   stop_signalled |-> FALSE, is_active |-> FALSE, fin_requested |-> FALSE,
   reset_requested |-> FALSE, deleted |-> FALSE, app_stream_ctx |-> Null,
   echoed |-> <<>>]

Deleted == [NewStream EXCEPT !.deleted = TRUE]

(* The first event of the connection has allocated its context, or closed  *)
(* it for lack of memory (hello_server_loop.c:138); an event that comes    *)
(* all the same allocates it then.                                         *)
Init ==
  /\ stream = [s \in Streams |-> NewStream]
  /\ heap = [a \in Addresses |-> Free]
  /\ stream_head = Null
  /\ state \in {"open", "disconnecting"}

Live == {a \in Addresses : heap[a] # Free}
-----------------------------------------------------------------------------
(* The list as the code edits it: h is the heap, head the first context.   *)

(* stream_ctx_new, and the insertion at the head of the list.              *)
InsertContext(h, head, a, s) ==
  LET new == [stream_id |-> s, recv_buf |-> <<>>, recv_cap |-> RecvBufInit,
              fin_received |-> FALSE, echo_sent |-> FALSE, next |-> head, prev |-> Null]
  IN  [b \in Addresses |-> IF b = a THEN new
                           ELSE IF b = head THEN [h[b] EXCEPT !.prev = a]
                           ELSE h[b]]

(* stream_ctx_remove.                                                      *)
RemoveContext(h, a) ==
  [b \in Addresses |-> IF b = a THEN Free
                       ELSE IF b = h[a].prev THEN [h[b] EXCEPT !.next = h[a].next]
                       ELSE IF b = h[a].next THEN [h[b] EXCEPT !.prev = h[a].prev]
                       ELSE h[b]]

HeadAfterRemove(h, head, a) == IF h[a].prev = Null THEN h[a].next ELSE head

(* stream_ctx_append: the capacity doubles until the data fits.            *)
Grown(cap, len) ==
  IF len <= cap THEN cap
  ELSE CHOOSE c \in {cap * 2^k : k \in 1 .. MaxBytes} :
         c >= len /\ (c \div 2 = cap \/ c \div 2 < len)

(* n bytes of a stream, starting with byte from.                           *)
Bytes(from, n) == [i \in 1 .. n |-> from + i - 1]

Appended(c, from, n) ==
  [c EXCEPT !.recv_buf = @ \o Bytes(from, n),
            !.recv_cap = Grown(@, Len(c.recv_buf) + n)]
-----------------------------------------------------------------------------
(* picoquic_mark_active_stream refuses a stream that ended.                *)
CanActivate(t) == ~t.fin_requested /\ ~t.reset_requested

(* The data callback returns an error: the connection is disconnected, but *)
(* the frames of the packet are still processed.                           *)
Fail(t, s, h, head) ==
  /\ stream' = [stream EXCEPT ![s] = t] /\ heap' = h /\ stream_head' = head
  /\ state' = "disconnecting"

(* The echo is scheduled by the FIN.                                       *)
Schedules(c, fin) == fin /\ ~c.fin_received

(* The callback for n bytes, or for the FIN after them, of stream s, once  *)
(* it has the context a in the heap h.                                     *)
Accumulate(t, s, h, head, a, n, fin) ==
  LET c == Appended(h[a], t.received - n, n)
  IN  \/ c.recv_cap # h[a].recv_cap /\ Fail(t, s, h, head)   \* realloc fails
      \/ /\ heap' = [h EXCEPT ![a] = [c EXCEPT !.fin_received = @ \/ fin]]
         /\ stream_head' = head
         /\ stream' = [stream EXCEPT ![s] =
              IF Schedules(c, fin) /\ CanActivate(t)
              THEN [t EXCEPT !.app_stream_ctx = a, !.is_active = TRUE] ELSE t]
         /\ UNCHANGED state

(* The address that calloc returns: addresses are alike, so one of those   *)
(* that are free stands for all.                                           *)
Allocated == {a \in Addresses \ Live : \A b \in Addresses \ Live : a <= b}

(* stream_data and stream_fin.  A stream that was reset may still have     *)
(* data on its way: the server then starts over with a new context.        *)
Data(s, n, fin) ==
  LET t == [stream[s] EXCEPT !.received = @ + n, !.fin_signalled = fin]
      known == t.app_stream_ctx
  IN  /\ state # "closed" /\ ~t.deleted /\ ~stream[s].fin_signalled
      /\ n > 0 \/ fin
      /\ t.received <= Sizes[s]
      /\ \/ known # Null /\ Accumulate(t, s, heap, stream_head, known, n, fin)
         \/ known = Null /\ Fail(t, s, heap, stream_head)   \* calloc fails
         \/ /\ known = Null
            /\ \E a \in Allocated :
                 Accumulate([t EXCEPT !.app_stream_ctx = a], s,
                            InsertContext(heap, stream_head, a, s), a, a, n, fin)

(* Mutant: what was sent stays in the buffer.                              *)
KeepAll(buf, avail) == buf

(* memmove of what was not sent.                                           *)
Unsent(buf, avail) == SubSeq(buf, avail + 1, Len(buf))

(* Mutant: the server never asks for another turn.                         *)
NeverActive(is_fin) == FALSE

(* is_still_active, passed to picoquic_provide_stream_data_buffer.         *)
StillActive(is_fin) == ~is_fin

(* prepare_to_send, polled with room for length bytes.                     *)
PrepareToSend(s, length) ==
  LET t == stream[s]
      c == heap[t.app_stream_ctx]
      avail == IF Len(c.recv_buf) <= length THEN Len(c.recv_buf) ELSE length
      is_fin == avail = Len(c.recv_buf)
  IN  /\ state = "open" /\ ~t.deleted
      /\ t.is_active /\ ~t.fin_requested /\ ~t.reset_requested
      /\ UNCHANGED <<stream_head, state>>
      /\ IF t.app_stream_ctx = Null \/ c.echo_sent \/ ~c.fin_received
         THEN /\ stream' = [stream EXCEPT ![s].is_active = FALSE]
              /\ UNCHANGED heap
         ELSE /\ stream' = [stream EXCEPT ![s] =
                   [t EXCEPT !.echoed = @ \o SubSeq(c.recv_buf, 1, avail),
                             !.is_active = StillActive(is_fin), !.fin_requested = is_fin]]
              /\ heap' = [heap EXCEPT ![t.app_stream_ctx] =
                   [c EXCEPT !.recv_buf = Unsent(c.recv_buf, avail),
                             !.echo_sent = is_fin]]

(* Mutant: the reset stays in the transport.                               *)
ForgetReset(t) == {t}

(* picoquic_reset_stream: a stream whose FIN was sent and is not yet       *)
(* acknowledged is refused, any other is reset.                            *)
ResetStream(t) ==
  {[t EXCEPT !.app_stream_ctx = Null, !.reset_requested = TRUE]}
    \cup {u \in {[t EXCEPT !.app_stream_ctx = Null]} : t.fin_requested}

(* stream_reset and stop_sending: the server resets its side too, frees    *)
(* the context and clears the stream's pointer to it.                      *)
Abandon(t, s) ==
  LET a == t.app_stream_ctx
  IN  IF a = Null
      THEN stream' = [stream EXCEPT ![s] = t] /\ UNCHANGED <<heap, stream_head>>
      ELSE /\ \E u \in ResetStream(t) : stream' = [stream EXCEPT ![s] = u]
           /\ heap' = RemoveContext(heap, a)
           /\ stream_head' = HeadAfterRemove(heap, stream_head, a)

StreamReset(s) ==
  /\ state # "closed" /\ ~stream[s].deleted /\ ~stream[s].reset_signalled
  /\ Abandon([stream[s] EXCEPT !.reset_signalled = TRUE], s)
  /\ UNCHANGED state

StopSending(s) ==
  LET t == stream[s]
  IN  /\ state # "closed" /\ ~t.deleted /\ ~t.stop_signalled
      /\ ~t.reset_requested /\ ~t.fin_requested
      /\ Abandon([t EXCEPT !.stop_signalled = TRUE], s)
      /\ UNCHANGED state

(* picoquic_delete_stream_if_closed: both ways ended and acknowledged.     *)
(* The server ignores picoquic_callback_stream_released.                   *)
DeleteStream(s) ==
  LET t == stream[s]
  IN  /\ state # "closed" /\ ~t.deleted
      /\ t.fin_requested \/ t.reset_requested
      /\ t.fin_signalled \/ t.reset_signalled
      /\ stream' = [stream EXCEPT ![s] = Deleted]
      /\ UNCHANGED <<heap, stream_head, state>>

(* The contexts that following next from the head of the list meets.       *)
Listed ==
  LET reach[n \in 0 .. Cardinality(Addresses)] ==
        IF n = 0 THEN {stream_head} \ {Null}
        ELSE reach[n - 1] \cup ({heap[a].next : a \in reach[n - 1]} \ {Null})
  IN  reach[Cardinality(Addresses)]

(* close, application_close, stateless_reset.                              *)
Close ==
  /\ state # "closed"
  /\ state' = "closed"
  /\ heap' = [a \in Addresses |-> IF a \in Listed THEN Free ELSE heap[a]]
  /\ stream_head' = Null
  /\ stream' = [s \in Streams |-> Deleted]

(* Bound: room for more than a stream can hold makes no difference.        *)
Room == 1 .. MaxBytes + 1

Next ==
  \/ \E s \in Streams :
       \/ \E n \in 0 .. MaxBytes, fin \in BOOLEAN : Data(s, n, fin)
       \/ \E length \in Room : PrepareToSend(s, length)
       \/ StreamReset(s) \/ StopSending(s) \/ DeleteStream(s)
  \/ Close

Spec == Init /\ [][Next]_vars

(* The sending loop of the transport polls each active stream.             *)
Fairness == \A s \in Streams : WF_vars(\E length \in Room : PrepareToSend(s, length))

FairSpec == Spec /\ Fairness
-----------------------------------------------------------------------------
TypeOK ==
  /\ stream \in [Streams -> Stream]
  /\ heap \in [Addresses -> Context \cup {Free}]
  /\ stream_head \in Pointers
  /\ state \in {"open", "disconnecting", "closed"}

(* No pointer is left to a context that was freed, even when its address   *)
(* is in use again: a stream's context is live and its own.                *)
NoDanglingContext ==
  \A s \in Streams :
    LET a == stream[s].app_stream_ctx
    IN  a # Null => a \in Live /\ heap[a].stream_id = s

(* The list holds every live context and its links agree in both ways, so  *)
(* that the close of the connection frees each exactly once.               *)
ListIsSound ==
  /\ Listed = Live
  /\ \A a \in Live :
       /\ IF heap[a].prev = Null THEN stream_head = a
          ELSE heap[a].prev \in Live /\ heap[heap[a].prev].next = a
       /\ heap[a].next # Null => heap[a].next \in Live /\ heap[heap[a].next].prev = a

(* The data that waits fits in the buffer that was allocated for it.       *)
BufferHolds == \A a \in Live : Len(heap[a].recv_buf) <= heap[a].recv_cap

(* What the client gets back is what it sent, in order and once, and ends  *)
(* only when it is all of it: across partial sends, resets that race with  *)
(* data, and contexts that are started over.                               *)
EchoIsFaithful ==
  \A s \in Streams :
    LET t == stream[s]
    IN  /\ t.echoed = Bytes(0, Len(t.echoed))
        /\ Len(t.echoed) <= t.received
        /\ t.fin_requested => t.fin_signalled /\ Len(t.echoed) = t.received

(* The transport never polls a stream for which the server has nothing to  *)
(* say: such a poll would end the stream's turn for good.                  *)
PollsAreAnswered ==
  \A s \in Streams :
    LET t == stream[s]
    IN  state = "open" /\ t.is_active /\ ~t.reset_requested =>
          /\ t.app_stream_ctx # Null
          /\ heap[t.app_stream_ctx].fin_received /\ ~heap[t.app_stream_ctx].echo_sent

(* A stream that the client ended is answered to the end, or reset, unless *)
(* the connection goes away.                                               *)
EchoCompletes ==
  \A s \in Streams :
    stream[s].fin_signalled ~>
      stream[s].fin_requested \/ stream[s].reset_requested \/ state # "open"
=============================================================================
