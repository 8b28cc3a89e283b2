--------------------------- MODULE Programs_proofs ---------------------------
(***************************************************************************)
(* The echo server keeps no dangling context and echoes what it received;  *)
(* the hello server frees what it allocated, whichever allocation fails    *)
(* and however the connection ends; a packet loop in a thread is deleted   *)
(* cleanly, wherever it is when the application deletes it.  For all       *)
(* numbers of streams, messages, cuts of messages into pieces and of       *)
(* replies into packets, wake-ups, packets and numbers of failures.        *)
(*                                                                         *)
(* The invariant of the echo: the context of a stream is its own and holds *)
(* the rest of what was received.  That of the exchange: what is in the    *)
(* heap is what the closing callback can reach, through the context of the *)
(* connection and the stream it tracks.  That of the thread: the pipe is   *)
(* closed only after should_close is set, and a result that will be        *)
(* reported as an error has been counted as a failure unless should_close  *)
(* excuses it.                                                             *)
(***************************************************************************)
EXTENDS MCPrograms, FiniteSetTheorems, WellFoundedInduction, TLAPS

(* EchoServer.                                                             *)

(* A context, but for the capacity of its buffer, which the proofs do not  *)
(* depend on.                                                              *)
ContextWith(cap) ==
  [stream_id : Streams, recv_buf : Seq(0 .. MaxBytes - 1), recv_cap : {cap},
   fin_received : BOOLEAN, echo_sent : BOOLEAN, next : Pointers, prev : Pointers]

IsContext(c) == c \in ContextWith(c.recv_cap)

HeapOK(h) ==
  /\ h = [a \in Addresses |-> h[a]]
  /\ \A a \in Addresses : h[a] = Free \/ IsContext(h[a])

(* The stream points to nothing, or to a context of its own.               *)
Owns(s, t, h) ==
  LET a == t.app_stream_ctx
  IN  a # Null => a \in Addresses /\ h[a] # Free /\ h[a].stream_id = s

Faithful(t) ==
  /\ t.echoed = Bytes(0, Len(t.echoed)) /\ Len(t.echoed) <= t.received
  /\ t.fin_requested => t.fin_signalled /\ ~t.is_active /\ Len(t.echoed) = t.received

(* Until the stream ends, its context c holds what was received and not    *)
(* echoed.                                                                 *)
Pending(t, c) ==
  IF t.app_stream_ctx = Null
  THEN t.received = 0 /\ ~t.fin_signalled /\ ~t.is_active
  ELSE /\ ~c.echo_sent /\ c.fin_received = t.fin_signalled
       /\ c.recv_buf = Bytes(Len(t.echoed), t.received - Len(t.echoed))
       /\ t.is_active => t.fin_signalled

StreamOK(s, t, h, st) ==
  /\ Owns(s, t, h)
  /\ Faithful(t)
  /\ st = "open" /\ ~t.fin_requested /\ ~t.reset_requested =>
       Pending(t, h[t.app_stream_ctx])

(* The inductive invariant: EchoIsFaithful holds only because the context  *)
(* of a stream is its own and holds the rest of what was received, which   *)
(* is true only while nothing has failed and the stream was not abandoned. *)
IInv ==
  /\ stream \in [Streams -> Stream]
  /\ HeapOK(heap)
  /\ stream_head \in Pointers
  /\ state \in {"open", "disconnecting", "closed"}
  /\ \A s \in Streams : StreamOK(s, stream[s], heap, state)

(* What an edit of the list leaves alone in a context.                     *)
SameData(c, d) ==
  /\ c # Free /\ d # Free
  /\ d.stream_id = c.stream_id /\ d.recv_buf = c.recv_buf
  /\ d.fin_received = c.fin_received /\ d.echo_sent = c.echo_sent
-----------------------------------------------------------------------------
(* Writing a link of a free address, which the code never does, is no      *)
(* change in the model.                                                    *)
LEMMA FreeHasNoLinks ==
  ASSUME NEW v
  PROVE  [Free EXCEPT !.prev = v] = Free /\ [Free EXCEPT !.next = v] = Free
  BY DEF Free

(* A live context is told from a free address.                             *)
LEMMA ContextIsNotFree == \A c : IsContext(c) => c # Free
<1> SUFFICES ASSUME NEW c, c \in ContextWith(c.recv_cap), c = Free PROVE FALSE
  BY DEF IsContext
<1>1. "stream_id" \in DOMAIN c
  BY DEF ContextWith
<1>2. DOMAIN c = {"freed"}
  BY DEF Free
<1> QED BY <1>1, <1>2

(* Setting next or prev leaves the data of a context alone.                *)
LEMMA LinkKeepsContext ==
  ASSUME NEW c, IsContext(c), NEW v \in Pointers
  PROVE  /\ IsContext([c EXCEPT !.prev = v]) /\ SameData(c, [c EXCEPT !.prev = v])
         /\ IsContext([c EXCEPT !.next = v]) /\ SameData(c, [c EXCEPT !.next = v])
<1>1. IsContext([c EXCEPT !.prev = v]) /\ IsContext([c EXCEPT !.next = v])
  BY DEF IsContext, ContextWith
<1>2. /\ [c EXCEPT !.prev = v].stream_id = c.stream_id
      /\ [c EXCEPT !.prev = v].recv_buf = c.recv_buf
      /\ [c EXCEPT !.prev = v].fin_received = c.fin_received
      /\ [c EXCEPT !.prev = v].echo_sent = c.echo_sent
  BY DEF IsContext, ContextWith
<1>3. /\ [c EXCEPT !.next = v].stream_id = c.stream_id
      /\ [c EXCEPT !.next = v].recv_buf = c.recv_buf
      /\ [c EXCEPT !.next = v].fin_received = c.fin_received
      /\ [c EXCEPT !.next = v].echo_sent = c.echo_sent
  BY DEF IsContext, ContextWith
<1> QED BY <1>1, <1>2, <1>3, ContextIsNotFree DEF SameData

(* A piece of a stream has as many bytes as it was made with.              *)
LEMMA BytesLen ==
  ASSUME NEW from \in Nat, NEW n \in Nat, from + n <= MaxBytes, MaxBytes \in Nat
  PROVE  Bytes(from, n) \in Seq(0 .. MaxBytes - 1) /\ Len(Bytes(from, n)) = n
  BY DEF Bytes

(* Two pieces that follow each other make one.                             *)
LEMMA BytesConcat ==
  ASSUME NEW from \in Nat, NEW n \in Nat, NEW m \in Nat
  PROVE  Bytes(from, n) \o Bytes(from + n, m) = Bytes(from, n + m)
  BY DEF Bytes

(* A piece cut after k bytes.                                              *)
LEMMA BytesSplit ==
  ASSUME NEW from \in Nat, NEW n \in Nat, NEW k \in 0 .. n
  PROVE  /\ SubSeq(Bytes(from, n), 1, k) = Bytes(from, k)
         /\ SubSeq(Bytes(from, n), k + 1, n) = Bytes(from + k, n - k)
  BY DEF Bytes
-----------------------------------------------------------------------------
(* Inserting a context changes the others only in their links.             *)
LEMMA InsertKeepsOthers ==
  ASSUME NEW h, HeapOK(h), NEW head \in Pointers, NEW s \in Streams,
         NEW a \in Addresses, h[a] = Free
  PROVE  LET g == InsertContext(h, head, a, s)
         IN  /\ HeapOK(g)
             /\ \A b \in Addresses : h[b] # Free => SameData(h[b], g[b])
             /\ g[a] # Free /\ g[a].stream_id = s /\ g[a].recv_buf = <<>>
             /\ ~g[a].fin_received /\ ~g[a].echo_sent
<1> USE EchoServerAssumption
<1> DEFINE new == [stream_id |-> s, recv_buf |-> <<>>, recv_cap |-> RecvBufInit,
                   fin_received |-> FALSE, echo_sent |-> FALSE,
                   next |-> head, prev |-> Null]
           g == InsertContext(h, head, a, s)
<1>1. IsContext(new)
  BY DEF IsContext, ContextWith, Pointers
<1>2. g = [b \in Addresses |-> IF b = a THEN new
                              ELSE IF b = head THEN [h[b] EXCEPT !.prev = a]
                              ELSE h[b]]
  BY DEF InsertContext
<1>3. g[a] = new
  BY <1>2
<1>4. ASSUME NEW b \in Addresses, b # a
      PROVE  /\ g[b] = Free \/ IsContext(g[b])
             /\ h[b] # Free => SameData(h[b], g[b])
  <2> HIDE DEF g
  <2>1. CASE h[b] = Free
    <3>1. g[b] = h[b] \/ g[b] = [h[b] EXCEPT !.prev = a]
      BY <1>2, <1>4
    <3>2. [h[b] EXCEPT !.prev = a] = Free
      BY <2>1, FreeHasNoLinks, Zenon
    <3> QED BY <2>1, <3>1, <3>2
  <2>2. CASE IsContext(h[b]) /\ b = head
    <3>1. g[b] = [h[b] EXCEPT !.prev = a]
      BY <2>2, <1>2, <1>4
    <3>2. a \in Pointers
      BY DEF Pointers
    <3>3. IsContext([h[b] EXCEPT !.prev = a]) /\ SameData(h[b], [h[b] EXCEPT !.prev = a])
      BY <2>2, <3>2, LinkKeepsContext, Zenon
    <3> QED BY <3>1, <3>3, Zenon
  <2>3. CASE IsContext(h[b]) /\ b # head
    <3>1. g[b] = h[b]
      BY <2>3, <1>2, <1>4
    <3> QED BY <3>1, <2>3, ContextIsNotFree DEF SameData
  <2> QED BY <2>1, <2>2, <2>3 DEF HeapOK
<1>5. HeapOK(g)
  <2>1. g = [b \in Addresses |-> g[b]]
    BY <1>2
  <2> HIDE DEF g
  <2> QED BY <2>1, <1>1, <1>3, <1>4 DEF HeapOK
<1>6. new # Free
  BY <1>1, ContextIsNotFree
<1> HIDE DEF g
<1> QED BY <1>3, <1>4, <1>5, <1>6 DEF g

(* So does removing one.                                                   *)
LEMMA RemoveKeepsOthers ==
  ASSUME NEW h, HeapOK(h), NEW a \in Addresses, h[a] # Free
  PROVE  LET g == RemoveContext(h, a)
         IN  /\ HeapOK(g)
             /\ \A b \in Addresses \ {a} : h[b] # Free => SameData(h[b], g[b])
<1> DEFINE g == RemoveContext(h, a)
<1>1. g = [b \in Addresses |->
             IF b = a THEN Free
             ELSE IF b = h[a].prev THEN [h[b] EXCEPT !.next = h[a].next]
             ELSE IF b = h[a].next THEN [h[b] EXCEPT !.prev = h[a].prev]
             ELSE h[b]]
  BY DEF RemoveContext
<1>2. h[a].next \in Pointers /\ h[a].prev \in Pointers
  BY DEF HeapOK, IsContext, ContextWith
<1>3. ASSUME NEW b \in Addresses, b # a
      PROVE  /\ g[b] = Free \/ IsContext(g[b])
             /\ h[b] # Free => SameData(h[b], g[b])
  <2> HIDE DEF g
  <2>1. CASE h[b] = Free
    <3>1. g[b] \in {h[b], [h[b] EXCEPT !.next = h[a].next], [h[b] EXCEPT !.prev = h[a].prev]}
      BY <1>1, <1>3
    <3>2. [h[b] EXCEPT !.next = h[a].next] = Free /\ [h[b] EXCEPT !.prev = h[a].prev] = Free
      BY <2>1, FreeHasNoLinks, Zenon
    <3> QED BY <2>1, <3>1, <3>2
  <2>2. CASE IsContext(h[b]) /\ b = h[a].prev
    <3>1. g[b] = [h[b] EXCEPT !.next = h[a].next]
      BY <2>2, <1>1, <1>3
    <3>2. IsContext([h[b] EXCEPT !.next = h[a].next]) /\ SameData(h[b], [h[b] EXCEPT !.next = h[a].next])
      BY <2>2, <1>2, LinkKeepsContext, Zenon
    <3> QED BY <3>1, <3>2, Zenon
  <2>3. CASE IsContext(h[b]) /\ b # h[a].prev /\ b = h[a].next
    <3>1. g[b] = [h[b] EXCEPT !.prev = h[a].prev]
      BY <2>3, <1>1, <1>3
    <3>2. IsContext([h[b] EXCEPT !.prev = h[a].prev]) /\ SameData(h[b], [h[b] EXCEPT !.prev = h[a].prev])
      BY <2>3, <1>2, LinkKeepsContext, Zenon
    <3> QED BY <3>1, <3>2, Zenon
  <2>4. CASE IsContext(h[b]) /\ b # h[a].prev /\ b # h[a].next
    <3>1. g[b] = h[b]
      BY <2>4, <1>1, <1>3
    <3> QED BY <3>1, <2>4, ContextIsNotFree DEF SameData
  <2> QED BY <2>1, <2>2, <2>3, <2>4 DEF HeapOK
<1>4. HeapOK(g)
  <2>1. g = [b \in Addresses |-> g[b]] /\ g[a] = Free
    BY <1>1
  <2> HIDE DEF g
  <2> QED BY <2>1, <1>3 DEF HeapOK
<1> HIDE DEF g
<1> QED BY <1>3, <1>4 DEF g

(* A stream whose context keeps its data stays as it should be.            *)
LEMMA StreamKept ==
  ASSUME NEW s \in Streams, NEW t \in Stream, NEW h, NEW g, NEW st, NEW st2,
         StreamOK(s, t, h, st), st2 = "open" => st = "open",
         \A b \in Addresses : h[b] # Free /\ h[b].stream_id = s => SameData(h[b], g[b])
  PROVE  StreamOK(s, t, g, st2)
  BY DEF StreamOK, Owns, Pending, SameData

(* One stream changes, with its context: the others do not notice.         *)
LEMMA OneStreamChanges ==
  ASSUME IInv, NEW s \in Streams, NEW u \in Stream,
         stream' = [stream EXCEPT ![s] = u],
         HeapOK(heap'), stream_head' \in Pointers,
         state' \in {state, "disconnecting"},
         \A b \in Addresses :
           heap[b] # Free /\ heap[b].stream_id # s => SameData(heap[b], heap'[b]),
         StreamOK(s, u, heap', state')
  PROVE  IInv'
<1>1. stream' \in [Streams -> Stream] /\ state' \in {"open", "disconnecting", "closed"}
  BY DEF IInv
<1>2. ASSUME NEW r \in Streams PROVE StreamOK(r, stream'[r], heap', state')
  <2>1. CASE r = s
    BY <2>1 DEF IInv
  <2>2. CASE r # s
    <3>1. stream'[r] = stream[r] /\ stream[r] \in Stream /\ StreamOK(r, stream[r], heap, state)
      BY <2>2 DEF IInv
    <3>2. \A b \in Addresses : heap[b] # Free /\ heap[b].stream_id = r
                              => SameData(heap[b], heap'[b])
      BY <2>2
    <3>3. state' = "open" => state = "open"
      OBVIOUS
    <3> QED BY <3>1, <3>2, <3>3, StreamKept
  <2> QED BY <2>1, <2>2
<1> QED BY <1>1, <1>2 DEF IInv
-----------------------------------------------------------------------------
(* The buffer, which holds what follows the e bytes echoed, and the n      *)
(* bytes that arrive make the rest of the r bytes received.                *)
LEMMA BytesResume ==
  ASSUME NEW e \in Nat, NEW r \in Nat, NEW n \in Nat, n + e <= r
  PROVE  Bytes(e, r - n - e) \o Bytes(r - n, n) = Bytes(e, r - e)
<1> DEFINE m == r - n - e
<1>1. m \in Nat /\ e + m = r - n /\ m + n = r - e
  OBVIOUS
<1> HIDE DEF m
<1>2. Bytes(e, m) \o Bytes(e + m, n) = Bytes(e, m + n)
  BY <1>1, BytesConcat
<1>3. Bytes(e, m) \o Bytes(r - n, n) = Bytes(e, r - e)
  BY <1>1, <1>2
<1> QED BY <1>3 DEF m

After(c, from, n, f) == [Appended(c, from, n) EXCEPT !.fin_received = f]

(* The context d is c after n bytes from offset from, and perhaps the FIN. *)
Extends(c, d, from, n, f) ==
  /\ IsContext(d)
  /\ d.stream_id = c.stream_id /\ d.recv_buf = c.recv_buf \o Bytes(from, n)
  /\ d.fin_received = f /\ d.echo_sent = c.echo_sent

(* stream_ctx_append adds the bytes and changes nothing else but the       *)
(* capacity.                                                               *)
LEMMA AppendedFact ==
  ASSUME NEW c, IsContext(c), NEW from \in Nat, NEW n \in Nat, from + n <= MaxBytes,
         NEW f \in BOOLEAN
  PROVE  /\ Extends(c, After(c, from, n, f), from, n, f)
         /\ Appended(c, from, n).fin_received = c.fin_received
<1> USE EchoServerAssumption
<1> DEFINE cap == Grown(c.recv_cap, Len(c.recv_buf) + n)
           buf == c.recv_buf \o Bytes(from, n)
           d == [Appended(c, from, n) EXCEPT !.fin_received = f]
<1>1. c.recv_buf \in Seq(0 .. MaxBytes - 1)
  BY DEF IsContext, ContextWith
<1>2. buf \in Seq(0 .. MaxBytes - 1)
  <2>1. Bytes(from, n) \in Seq(0 .. MaxBytes - 1)
    BY BytesLen
  <2> QED BY <1>1, <2>1
<1>3. Appended(c, from, n) = [c EXCEPT !.recv_buf = buf, !.recv_cap = cap]
  BY DEF Appended
<1> HIDE DEF cap, buf
<1>4. Appended(c, from, n).fin_received = c.fin_received
  BY <1>3 DEF IsContext, ContextWith
<1>5. d = [c EXCEPT !.recv_buf = buf, !.recv_cap = cap, !.fin_received = f]
  BY <1>3 DEF IsContext, ContextWith
<1>6. /\ d.stream_id = c.stream_id /\ d.recv_buf = buf /\ d.recv_cap = cap
      /\ d.fin_received = f /\ d.echo_sent = c.echo_sent
  BY <1>5 DEF IsContext, ContextWith
<1>7. d \in ContextWith(cap)
  BY <1>2, <1>5 DEF IsContext, ContextWith
<1> HIDE DEF d
<1>8. Extends(c, d, from, n, f)
  BY <1>6, <1>7 DEF Extends, IsContext, buf
<1> QED BY <1>4, <1>8 DEF d, After

(* The context and the stream after the callback for data.                 *)
Filled(c, from, n, fin) == [Appended(c, from, n) EXCEPT !.fin_received = @ \/ fin]

Scheduled(t, a, c, fin) ==
  IF Schedules(c, fin) /\ CanActivate(t)
  THEN [t EXCEPT !.app_stream_ctx = a, !.is_active = TRUE] ELSE t

(* The stream t of the heap h has the context a, which lacks the n bytes   *)
(* of the callback and the FIN with them; k is the heap before the call.   *)
Fits(s, t, k, h, st, a, n, fin) ==
  /\ HeapOK(h) /\ h[a] # Free /\ h[a].stream_id = s /\ t.app_stream_ctx = a
  /\ \A b \in Addresses :
       k[b] # Free /\ k[b].stream_id # s => SameData(k[b], h[b])
  /\ n + Len(t.echoed) <= t.received /\ t.fin_signalled = fin
  /\ ~t.fin_requested /\ t.echoed = Bytes(0, Len(t.echoed))
  /\ st = "open" /\ ~t.reset_requested =>
       /\ ~h[a].echo_sent /\ ~h[a].fin_received /\ ~t.is_active
       /\ h[a].recv_buf = Bytes(Len(t.echoed), t.received - n - Len(t.echoed))

(* The stream u in the heap g, as OneStreamChanges asks for it.            *)
Consistent(s, u, k, g, st) ==
  /\ u \in Stream /\ HeapOK(g)
  /\ \A b \in Addresses :
       k[b] # Free /\ k[b].stream_id # s => SameData(k[b], g[b])
  /\ StreamOK(s, u, g, st)

(* A callback that fails before it copies leaves the stream consistent:    *)
(* the connection is going away.                                           *)
LEMMA FailKeeps ==
  ASSUME NEW s \in Streams, NEW t \in Stream, NEW k, NEW h, NEW st, NEW a \in Addresses,
         NEW n \in Nat, NEW fin \in BOOLEAN, Fits(s, t, k, h, st, a, n, fin)
  PROVE  Consistent(s, t, k, h, "disconnecting")
<1>1. t.received \in Nat /\ Len(t.echoed) \in Nat
  BY DEF Stream
<1> QED BY <1>1 DEF Fits, Consistent, StreamOK, Owns, Faithful

(* So does the callback that copies the data and schedules the echo.       *)
LEMMA FillKeeps ==
  ASSUME NEW s \in Streams, NEW t \in Stream, NEW k, NEW h, NEW st, NEW a \in Addresses,
         NEW n \in Nat, NEW fin \in BOOLEAN, Fits(s, t, k, h, st, a, n, fin)
  PROVE  Consistent(s, Scheduled(t, a, Appended(h[a], t.received - n, n), fin), k,
                    [h EXCEPT ![a] = Filled(h[a], t.received - n, n, fin)], st)
<1> USE EchoServerAssumption
<1>1. /\ t.received \in 0 .. MaxBytes /\ Len(t.echoed) \in Nat
      /\ a # Null /\ IsContext(h[a]) /\ n + Len(t.echoed) <= t.received
  BY DEF Stream, HeapOK, Fits
<1> DEFINE c == Appended(h[a], t.received - n, n)
           d == Filled(h[a], t.received - n, n, fin)
           g == [h EXCEPT ![a] = d]
<1> DEFINE u == Scheduled(t, a, c, fin)
<1>2. /\ u \in Stream /\ u.app_stream_ctx = a /\ u.received = t.received
      /\ u.echoed = t.echoed /\ u.fin_signalled = t.fin_signalled
      /\ u.fin_requested = t.fin_requested /\ u.reset_requested = t.reset_requested
      /\ u.is_active => t.is_active \/ fin
  <2>1. t.app_stream_ctx = a
    BY DEF Fits
  <2> QED BY <2>1 DEF Stream, Pointers, Schedules, Scheduled
<1>3. /\ IsContext(d) /\ d.stream_id = s
      /\ d.recv_buf = h[a].recv_buf \o Bytes(t.received - n, n)
      /\ d.fin_received = (h[a].fin_received \/ fin) /\ d.echo_sent = h[a].echo_sent
  <2>1. h[a].fin_received \in BOOLEAN /\ h[a].stream_id = s
    BY <1>1 DEF IsContext, ContextWith, Fits
  <2>2. t.received - n \in Nat /\ t.received - n + n <= MaxBytes
    BY <1>1
  <2>3. /\ Extends(h[a], [c EXCEPT !.fin_received = h[a].fin_received \/ fin],
                    t.received - n, n, h[a].fin_received \/ fin)
        /\ c.fin_received = h[a].fin_received
    <3> DEFINE from == t.received - n
               f == h[a].fin_received \/ fin
    <3>1. from \in Nat /\ from + n <= MaxBytes /\ f \in BOOLEAN
      BY <2>1, <2>2
    <3> HIDE DEF from, f, c, d, u, g
    <3>2. /\ Extends(h[a], After(h[a], from, n, f), from, n, f)
          /\ Appended(h[a], from, n).fin_received = h[a].fin_received
      BY <1>1, <3>1, AppendedFact
    <3> QED BY <3>2, Zenon DEF from, f, c, After
  <2>4. d = [c EXCEPT !.fin_received = h[a].fin_received \/ fin]
    BY <2>3 DEF Filled
  <2> HIDE DEF d, c, u, g
  <2>5. Extends(h[a], d, t.received - n, n, h[a].fin_received \/ fin)
    BY <2>3, <2>4
  <2> QED BY <2>1, <2>5 DEF Extends
<1> HIDE DEF u, d, c
<1>4. g[a] = d /\ HeapOK(g) /\ (\A b \in Addresses : b # a => g[b] = h[b])
  BY <1>3 DEF HeapOK, Fits
<1> HIDE DEF g
<1>5. ASSUME NEW b \in Addresses, k[b] # Free, k[b].stream_id # s
      PROVE  SameData(k[b], g[b])
  <2>1. SameData(k[b], h[b])
    BY <1>5 DEF Fits
  <2>2. b # a
    BY <1>5, <2>1 DEF SameData, Fits
  <2> QED BY <1>4, <2>1, <2>2
<1>6. StreamOK(s, u, g, st)
  <2>1. Owns(s, u, g)
    BY <1>2, <1>3, <1>4, ContextIsNotFree DEF Owns
  <2>2. Faithful(u)
    BY <1>1, <1>2 DEF Faithful, Fits
  <2>3. ASSUME st = "open", ~u.reset_requested PROVE Pending(u, d)
    <3>1. /\ ~h[a].echo_sent /\ ~h[a].fin_received /\ ~t.is_active
          /\ h[a].recv_buf = Bytes(Len(t.echoed), t.received - n - Len(t.echoed))
          /\ t.fin_signalled = fin
      BY <1>2, <2>3 DEF Fits
    <3>2. d.recv_buf = Bytes(Len(t.echoed), t.received - Len(t.echoed))
      <4>1. Len(t.echoed) \in Nat /\ t.received \in Nat /\ n + Len(t.echoed) <= t.received
        BY <1>1
      <4>2. Bytes(Len(t.echoed), t.received - n - Len(t.echoed)) \o Bytes(t.received - n, n)
              = Bytes(Len(t.echoed), t.received - Len(t.echoed))
        BY <4>1, BytesResume
      <4> QED BY <1>3, <3>1, <4>2, Zenon
    <3> QED BY <1>1, <1>2, <1>3, <3>1, <3>2 DEF Pending
  <2> QED BY <1>2, <1>4, <2>1, <2>2, <2>3 DEF StreamOK
<1>7. Consistent(s, u, k, g, st)
  BY <1>2, <1>4, <1>5, <1>6 DEF Consistent
<1> QED BY <1>7, Zenon DEF u, g, c, d

(* stream_data and stream_fin, with a context that is known or new.        *)
LEMMA DataKeeps ==
  ASSUME IInv, NEW s \in Streams, NEW n \in 0 .. MaxBytes, NEW fin \in BOOLEAN,
         Data(s, n, fin)
  PROVE  IInv'
<1> USE EchoServerAssumption
<1> DEFINE t == [stream[s] EXCEPT !.received = @ + n, !.fin_signalled = fin]
           old == stream[s]
           known == old.app_stream_ctx
<1>1. /\ old \in Stream /\ StreamOK(s, old, heap, state) /\ HeapOK(heap)
      /\ stream_head \in Pointers
      /\ ~old.fin_signalled /\ t.received <= Sizes[s]
  BY DEF IInv, Data
<1>2. /\ t \in Stream /\ t.received = old.received + n /\ t.fin_signalled = fin
      /\ t.app_stream_ctx = known /\ t.echoed = old.echoed
      /\ t.fin_requested = old.fin_requested /\ t.reset_requested = old.reset_requested
      /\ t.is_active = old.is_active
  <2>1. old.received \in 0 .. MaxBytes /\ t.received = old.received + n
    BY <1>1 DEF Stream
  <2>2. old.received + n \in 0 .. MaxBytes
    BY <1>1, <2>1
  <2> QED BY <1>1, <2>1, <2>2 DEF Stream
<1>3. /\ ~t.fin_requested /\ t.echoed = Bytes(0, Len(t.echoed))
      /\ n + Len(t.echoed) <= t.received /\ Len(t.echoed) \in Nat /\ t.received \in Nat
      /\ Len(old.echoed) <= old.received
  BY <1>1, <1>2, SMTT(30) DEF StreamOK, Faithful, Stream
<1>4. state = "open" /\ ~t.reset_requested => Pending(old, heap[known])
  BY <1>1, <1>2, <1>3 DEF StreamOK
<1>5. known \in Pointers /\ n \in Nat
  BY <1>1 DEF Stream
<1> HIDE DEF t, old, known
<1>6. CASE known # Null /\ Accumulate(t, s, heap, stream_head, known, n, fin)
  <2>1. \/ /\ stream' = [stream EXCEPT ![s] = t] /\ heap' = heap
           /\ stream_head' = stream_head /\ state' = "disconnecting"
        \/ /\ heap' = [heap EXCEPT ![known] = Filled(heap[known], t.received - n, n, fin)]
           /\ stream_head' = stream_head
           /\ stream' = [stream EXCEPT ![s] =
                Scheduled(t, known, Appended(heap[known], t.received - n, n), fin)]
           /\ UNCHANGED state
    BY <1>6, Zenon DEF Accumulate, Fail, Filled, Scheduled
  <2>2. known \in Addresses /\ heap[known] # Free /\ heap[known].stream_id = s
    BY <1>1, <1>6 DEF StreamOK, Owns, known
  <2>3. state = "open" /\ ~t.reset_requested =>
           /\ ~heap[known].echo_sent /\ ~heap[known].fin_received /\ ~t.is_active
           /\ heap[known].recv_buf = Bytes(Len(t.echoed), t.received - n - Len(t.echoed))
    <3>1. t.received - n = old.received
      BY <1>1, <1>2 DEF Stream
    <3> QED BY <1>1, <1>2, <1>4, <1>6, <3>1 DEF Pending, known
  <2>4. \A b \in Addresses :
          heap[b] # Free /\ heap[b].stream_id # s => SameData(heap[b], heap[b])
    BY DEF SameData
  <2>5. Fits(s, t, heap, heap, state, known, n, fin)
    BY <1>1, <1>2, <1>3, <2>2, <2>3, <2>4 DEF Fits
  <2>6. CASE /\ stream' = [stream EXCEPT ![s] = t] /\ heap' = heap
             /\ stream_head' = stream_head /\ state' = "disconnecting"
    <3>1. Consistent(s, t, heap, heap, "disconnecting")
      BY <1>2, <1>5, <2>2, <2>5, FailKeeps
    <3> QED BY <1>1, <2>6, <3>1, OneStreamChanges DEF Consistent
  <2>7. CASE /\ heap' = [heap EXCEPT ![known] = Filled(heap[known], t.received - n, n, fin)]
             /\ stream_head' = stream_head
             /\ stream' = [stream EXCEPT ![s] =
                  Scheduled(t, known, Appended(heap[known], t.received - n, n), fin)]
             /\ UNCHANGED state
    <3>1. Consistent(s, Scheduled(t, known, Appended(heap[known], t.received - n, n), fin),
                     heap, [heap EXCEPT ![known] = Filled(heap[known], t.received - n, n, fin)],
                     state)
      <4>1. t \in Stream /\ known \in Addresses /\ n \in Nat
        BY <1>2, <1>5, <2>2
      <4> QED BY <4>1, <2>5, FillKeeps
    <3>2. Consistent(s, Scheduled(t, known, Appended(heap[known], t.received - n, n), fin),
                     heap, heap', state)
      BY <2>7, <3>1, Zenon
    <3> QED BY <1>1, <2>7, <3>2, OneStreamChanges DEF Consistent
  <2> QED BY <2>1, <2>6, <2>7
<1>7. CASE known = Null /\ Fail(t, s, heap, stream_head)
  <2>1. StreamOK(s, t, heap', state')
    BY <1>2, <1>3, <1>7 DEF Fail, StreamOK, Owns, Faithful
  <2>2. \A b \in Addresses :
          heap[b] # Free /\ heap[b].stream_id # s => SameData(heap[b], heap'[b])
    BY <1>7 DEF SameData, Fail
  <2> QED BY <1>1, <1>2, <1>7, <2>1, <2>2, OneStreamChanges DEF Fail
<1>8. ASSUME known = Null, NEW a \in Allocated,
             Accumulate([t EXCEPT !.app_stream_ctx = a], s,
                        InsertContext(heap, stream_head, a, s), a, a, n, fin)
      PROVE  IInv'
  <2> DEFINE u == [t EXCEPT !.app_stream_ctx = a]
             g == InsertContext(heap, stream_head, a, s)
  <2>1. a \in Addresses /\ heap[a] = Free /\ a \in Pointers
    BY DEF Allocated, Live, Pointers
  <2>2. /\ u \in Stream /\ u.received = t.received /\ u.fin_signalled = fin
        /\ u.app_stream_ctx = a /\ u.echoed = t.echoed
        /\ u.fin_requested = t.fin_requested /\ u.reset_requested = t.reset_requested
        /\ u.is_active = t.is_active
    BY <1>2, <2>1 DEF Stream
  <2>3. /\ HeapOK(g)
        /\ \A b \in Addresses : heap[b] # Free => SameData(heap[b], g[b])
        /\ g[a] # Free /\ g[a].stream_id = s /\ g[a].recv_buf = <<>>
        /\ ~g[a].fin_received /\ ~g[a].echo_sent
    BY <1>1, <2>1, InsertKeepsOthers
  <2>4. state = "open" /\ ~u.reset_requested =>
           /\ ~g[a].echo_sent /\ ~g[a].fin_received /\ ~u.is_active
           /\ g[a].recv_buf = Bytes(Len(u.echoed), u.received - n - Len(u.echoed))
    <3> SUFFICES ASSUME state = "open", ~u.reset_requested
                 PROVE  /\ ~u.is_active
                        /\ <<>> = Bytes(Len(u.echoed), u.received - n - Len(u.echoed))
      BY <2>3
    <3>1. old.received = 0 /\ ~old.is_active
      BY <1>4, <1>8, <2>2 DEF Pending, known
    <3>2. Len(u.echoed) = 0 /\ u.received - n = 0
      BY <1>2, <1>3, <1>5, <2>2, <3>1
    <3>3. Bytes(0, 0) = <<>>
      BY DEF Bytes
    <3> QED BY <1>2, <2>2, <3>1, <3>2, <3>3
  <2> HIDE DEF u, g
  <2>5. \/ /\ stream' = [stream EXCEPT ![s] = u] /\ heap' = g
           /\ stream_head' = a /\ state' = "disconnecting"
        \/ /\ heap' = [g EXCEPT ![a] = Filled(g[a], u.received - n, n, fin)]
           /\ stream_head' = a
           /\ stream' = [stream EXCEPT ![s] =
                Scheduled(u, a, Appended(g[a], u.received - n, n), fin)]
           /\ UNCHANGED state
    BY <1>8, Zenon DEF Accumulate, Fail, Filled, Scheduled, u, g
  <2>6. n + Len(u.echoed) <= u.received /\ ~u.fin_requested /\ u.echoed = Bytes(0, Len(u.echoed))
    BY <1>3, <2>2
  <2>7. Fits(s, u, heap, g, state, a, n, fin)
    BY <2>2, <2>3, <2>4, <2>6 DEF Fits
  <2>8. CASE /\ stream' = [stream EXCEPT ![s] = u] /\ heap' = g
             /\ stream_head' = a /\ state' = "disconnecting"
    <3>1. Consistent(s, u, heap, g, "disconnecting")
      BY <1>5, <2>1, <2>2, <2>7, FailKeeps
    <3> QED BY <2>1, <2>8, <3>1, OneStreamChanges DEF Consistent
  <2>9. CASE /\ heap' = [g EXCEPT ![a] = Filled(g[a], u.received - n, n, fin)]
             /\ stream_head' = a
             /\ stream' = [stream EXCEPT ![s] =
                  Scheduled(u, a, Appended(g[a], u.received - n, n), fin)]
             /\ UNCHANGED state
    <3>1. Consistent(s, Scheduled(u, a, Appended(g[a], u.received - n, n), fin),
                     heap, [g EXCEPT ![a] = Filled(g[a], u.received - n, n, fin)], state)
      <4>1. u \in Stream /\ a \in Addresses /\ n \in Nat /\ fin \in BOOLEAN
            /\ Fits(s, u, heap, g, state, a, n, fin)
        BY <1>5, <2>1, <2>2, <2>7
      <4> QED BY <4>1, FillKeeps
    <3>2. Consistent(s, Scheduled(u, a, Appended(g[a], u.received - n, n), fin),
                     heap, heap', state)
      BY <2>9, <3>1, Zenon
    <3> QED BY <2>1, <2>9, <3>2, OneStreamChanges DEF Consistent
  <2> QED BY <2>5, <2>8, <2>9
<1>9. \/ known # Null /\ Accumulate(t, s, heap, stream_head, known, n, fin)
      \/ known = Null /\ Fail(t, s, heap, stream_head)
      \/ /\ known = Null
         /\ \E a \in Allocated :
              Accumulate([t EXCEPT !.app_stream_ctx = a], s,
                         InsertContext(heap, stream_head, a, s), a, a, n, fin)
  <2>1. [stream[s] EXCEPT !.received = @ + n, !.fin_signalled = fin].app_stream_ctx
          = stream[s].app_stream_ctx
    BY <1>1 DEF Stream, old
  <2> QED BY <2>1, Zenon DEF Data, t, known, old
<1> QED BY <1>6, <1>7, <1>8, <1>9
-----------------------------------------------------------------------------
(* Sending k of the bytes that wait moves the border between the two.      *)
LEMMA BytesSent ==
  ASSUME NEW e \in Nat, NEW r \in Nat, e <= r, NEW k \in 0 .. (r - e)
  PROVE  /\ Bytes(0, e) \o SubSeq(Bytes(e, r - e), 1, k) = Bytes(0, e + k)
         /\ SubSeq(Bytes(e, r - e), k + 1, r - e) = Bytes(e + k, r - (e + k))
<1> DEFINE m == r - e
<1>1. m \in Nat /\ k \in 0 .. m /\ m - k = r - (e + k) /\ k \in Nat /\ 0 + e = e
  OBVIOUS
<1> HIDE DEF m
<1>2. /\ SubSeq(Bytes(e, m), 1, k) = Bytes(e, k)
      /\ SubSeq(Bytes(e, m), k + 1, m) = Bytes(e + k, m - k)
  BY <1>1, BytesSplit
<1>3. Bytes(0, e) \o Bytes(0 + e, k) = Bytes(0, e + k)
  BY <1>1, BytesConcat
<1>4. /\ Bytes(0, e) \o SubSeq(Bytes(e, m), 1, k) = Bytes(0, e + k)
      /\ SubSeq(Bytes(e, m), k + 1, m) = Bytes(e + k, r - (e + k))
  BY <1>1, <1>2, <1>3
<1> QED BY <1>4 DEF m

(* A reply of k bytes to a poll: the stream and its context after it.      *)
Replied(t, c, k) ==
  [t EXCEPT !.echoed = @ \o SubSeq(c.recv_buf, 1, k),
            !.is_active = StillActive(k = Len(c.recv_buf)),
            !.fin_requested = (k = Len(c.recv_buf))]

Drained(c, k) ==
  [c EXCEPT !.recv_buf = Unsent(c.recv_buf, k), !.echo_sent = (k = Len(c.recv_buf))]

(* A poll sends a piece of the buffer; what is echoed grows by as much as  *)
(* what waits shrinks.                                                     *)
LEMMA ReplyKeeps ==
  ASSUME NEW s \in Streams, NEW t \in Stream, NEW h, HeapOK(h),
         StreamOK(s, t, h, "open"), t.is_active, ~t.fin_requested, ~t.reset_requested,
         NEW k \in 0 .. Len(h[t.app_stream_ctx].recv_buf)
  PROVE  Consistent(s, Replied(t, h[t.app_stream_ctx], k), h,
                    [h EXCEPT ![t.app_stream_ctx] = Drained(h[t.app_stream_ctx], k)], "open")
<1> USE EchoServerAssumption
<1> DEFINE a == t.app_stream_ctx
           c == h[a]
           d == Drained(c, k)
           u == Replied(t, c, k)
           g == [h EXCEPT ![a] = d]
           e == Len(t.echoed)
           r == t.received
           whole == (k = Len(c.recv_buf))
<1>1. Pending(t, c) /\ Owns(s, t, h) /\ Faithful(t)
  BY DEF StreamOK
<1>2. /\ a \in Addresses /\ a # Null /\ IsContext(c) /\ c.stream_id = s
      /\ ~c.echo_sent /\ c.fin_received = t.fin_signalled /\ t.fin_signalled
  BY <1>1 DEF Pending, Owns, HeapOK
<1>3. /\ e \in Nat /\ r \in 0 .. MaxBytes /\ e <= r /\ r - e \in Nat
      /\ t.echoed = Bytes(0, e) /\ c.recv_buf = Bytes(e, r - e)
  BY <1>1, <1>2 DEF Pending, Faithful, Stream
<1>4. Len(c.recv_buf) = r - e /\ whole \in BOOLEAN /\ (whole => e + k = r)
  <2>1. Len(c.recv_buf) = r - e
    BY <1>3, BytesLen
  <2> QED BY <1>3, <2>1
<1>5. k \in 0 .. (r - e)
  BY <1>4
<1>6. /\ t.echoed \o SubSeq(c.recv_buf, 1, k) = Bytes(0, e + k)
      /\ Unsent(c.recv_buf, k) = Bytes(e + k, r - (e + k))
  <2> HIDE DEF e, r, c
  <2>1. /\ Bytes(0, e) \o SubSeq(Bytes(e, r - e), 1, k) = Bytes(0, e + k)
        /\ SubSeq(Bytes(e, r - e), k + 1, r - e) = Bytes(e + k, r - (e + k))
    <3> HIDE DEF d, u, g, whole, a
    <3>1. e \in Nat /\ r \in Nat /\ e <= r /\ k \in 0 .. (r - e)
      BY <1>3, <1>5
    <3> QED BY <3>1, BytesSent
  <2> QED BY <1>3, <1>4, <2>1, Zenon DEF Unsent
<1>7. /\ Bytes(0, e + k) \in Seq(0 .. MaxBytes - 1) /\ Len(Bytes(0, e + k)) = e + k
      /\ Bytes(e + k, r - (e + k)) \in Seq(0 .. MaxBytes - 1)
  <2>1. /\ e + k \in Nat /\ 0 + (e + k) <= MaxBytes /\ r - (e + k) \in Nat
        /\ (e + k) + (r - (e + k)) <= MaxBytes
    <3> HIDE DEF e, r, c, d, u, g, whole, a
    <3>1. e \in Nat /\ r \in 0 .. MaxBytes /\ e <= r /\ k \in 0 .. (r - e)
      BY <1>3, <1>5
    <3> QED BY <3>1
  <2> HIDE DEF e, r, c
  <2> QED BY <2>1, BytesLen
<1>8. /\ u \in Stream /\ u.app_stream_ctx = a /\ u.received = r
      /\ u.fin_signalled = t.fin_signalled /\ u.echoed = Bytes(0, e + k)
      /\ u.fin_requested = whole /\ u.is_active = ~whole
  <2>1. u = [t EXCEPT !.echoed = Bytes(0, e + k), !.is_active = ~whole, !.fin_requested = whole]
    <3>1. u = [t EXCEPT !.echoed = t.echoed \o SubSeq(c.recv_buf, 1, k),
                        !.is_active = ~whole, !.fin_requested = whole]
      BY DEF Replied, StillActive, Stream
    <3> QED BY <1>6, <3>1, Zenon
  <2> HIDE DEF whole, e, u
  <2> QED BY <1>4, <1>7, <2>1 DEF Stream
<1>9. /\ IsContext(d) /\ d.stream_id = s /\ d.fin_received = t.fin_signalled
      /\ d.recv_buf = Bytes(e + k, r - (e + k)) /\ d.echo_sent = whole
  <2>1. d = [c EXCEPT !.recv_buf = Bytes(e + k, r - (e + k)), !.echo_sent = whole]
    BY <1>6, Zenon DEF Drained
  <2> HIDE DEF whole, e, r, c, d
  <2> QED BY <1>2, <1>4, <1>7, <2>1 DEF IsContext, ContextWith
<1> HIDE DEF u, d
<1>10. g[a] = d /\ HeapOK(g) /\ (\A b \in Addresses : b # a => g[b] = h[b])
  BY <1>2, <1>9 DEF HeapOK
<1> HIDE DEF g
<1>11. ASSUME NEW b \in Addresses, h[b] # Free, h[b].stream_id # s
       PROVE  SameData(h[b], g[b])
  BY <1>2, <1>10, <1>11 DEF SameData
<1>12. StreamOK(s, u, g, "open")
  <2>1. Owns(s, u, g)
    BY <1>2, <1>8, <1>9, <1>10, ContextIsNotFree DEF Owns
  <2>2. Faithful(u)
    <3>1. Len(u.echoed) = e + k /\ e + k <= r
      <4> HIDE DEF e, r, c
      <4> QED BY <1>3, <1>5, <1>7, <1>8
    <3> HIDE DEF whole, e, r, c
    <3> QED BY <1>2, <1>4, <1>8, <3>1 DEF Faithful
  <2>3. ~u.fin_requested => Pending(u, d)
    BY <1>2, <1>7, <1>8, <1>9 DEF Pending
  <2> QED BY <1>8, <1>10, <2>1, <2>2, <2>3 DEF StreamOK
<1>13. Consistent(s, u, h, g, "open")
  BY <1>8, <1>10, <1>11, <1>12 DEF Consistent
<1> QED BY <1>13, Zenon DEF u, g, c, d, a

(* The poll of a stream: the server always has something to say to it.     *)
LEMMA PrepareToSendKeeps ==
  ASSUME IInv, NEW s \in Streams, NEW length \in Room, PrepareToSend(s, length)
  PROVE  IInv'
<1> USE EchoServerAssumption
<1> DEFINE t == stream[s]
           a == t.app_stream_ctx
           c == heap[a]
           k == IF Len(c.recv_buf) <= length THEN Len(c.recv_buf) ELSE length
<1>1. /\ t \in Stream /\ HeapOK(heap) /\ stream_head \in Pointers /\ state = "open"
      /\ StreamOK(s, t, heap, "open")
      /\ t.is_active /\ ~t.fin_requested /\ ~t.reset_requested
  BY DEF IInv, PrepareToSend
<1>2. a # Null /\ ~c.echo_sent /\ c.fin_received /\ a \in Addresses /\ IsContext(c)
  BY <1>1 DEF StreamOK, Pending, Owns, HeapOK
<1>3. k \in 0 .. Len(c.recv_buf)
  BY <1>2 DEF IsContext, ContextWith, Room
<1>4. Consistent(s, Replied(t, c, k), heap, [heap EXCEPT ![a] = Drained(c, k)], "open")
  <2> HIDE DEF k
  <2> QED BY <1>1, <1>3, ReplyKeeps
<1>5. /\ stream' = [stream EXCEPT ![s] = Replied(t, c, k)]
      /\ heap' = [heap EXCEPT ![a] = Drained(c, k)]
      /\ stream_head' = stream_head /\ state' = state
  BY <1>2, Zenon DEF PrepareToSend, Replied, Drained
<1> HIDE DEF k, c, a, t
<1>6. Consistent(s, Replied(t, c, k), heap, heap', state')
  BY <1>1, <1>4, <1>5, Zenon
<1> QED BY <1>1, <1>5, <1>6, OneStreamChanges DEF Consistent
-----------------------------------------------------------------------------
(* The stream t, which changed in its signals only, is abandoned.          *)
LEMMA AbandonKeeps ==
  ASSUME IInv, NEW s \in Streams, NEW t \in Stream, StreamOK(s, t, heap, state),
         Abandon(t, s), state' = state
  PROVE  IInv'
<1> DEFINE a == t.app_stream_ctx
<1>1. HeapOK(heap) /\ stream_head \in Pointers
  BY DEF IInv
<1>2. CASE a = Null
  <2>1. stream' = [stream EXCEPT ![s] = t] /\ heap' = heap /\ stream_head' = stream_head
    BY <1>2 DEF Abandon
  <2>2. \A b \in Addresses :
          heap[b] # Free /\ heap[b].stream_id # s => SameData(heap[b], heap'[b])
    BY <2>1 DEF SameData
  <2> QED BY <1>1, <2>1, <2>2, OneStreamChanges
<1>3. CASE a # Null
  <2>1. PICK u \in ResetStream(t) : stream' = [stream EXCEPT ![s] = u]
    BY <1>3 DEF Abandon
  <2>2. heap' = RemoveContext(heap, a) /\ stream_head' = HeadAfterRemove(heap, stream_head, a)
    BY <1>3 DEF Abandon
  <2>3. a \in Addresses /\ heap[a] # Free /\ heap[a].stream_id = s
    BY <1>3 DEF StreamOK, Owns
  <2>4. /\ u \in Stream /\ u.app_stream_ctx = Null /\ u.received = t.received
        /\ u.echoed = t.echoed /\ u.fin_signalled = t.fin_signalled
        /\ u.fin_requested = t.fin_requested /\ u.is_active = t.is_active
        /\ u.fin_requested \/ u.reset_requested
    BY <2>1 DEF ResetStream, Stream, Pointers
  <2>5. StreamOK(s, u, heap', state')
    BY <2>4 DEF StreamOK, Owns, Faithful
  <2>6. HeapOK(heap') /\ \A b \in Addresses \ {a} : heap[b] # Free => SameData(heap[b], heap'[b])
    BY <1>1, <2>2, <2>3, RemoveKeepsOthers
  <2>7. stream_head' \in Pointers
    <3>1. IsContext(heap[a])
      BY <1>1, <2>3 DEF HeapOK
    <3> QED BY <1>1, <2>2, <3>1 DEF HeadAfterRemove, IsContext, ContextWith
  <2> QED BY <2>1, <2>3, <2>4, <2>5, <2>6, <2>7, OneStreamChanges
<1> QED BY <1>2, <1>3

(* The client resets its stream.                                           *)
LEMMA StreamResetKeeps ==
  ASSUME IInv, NEW s \in Streams, StreamReset(s)
  PROVE  IInv'
<1> DEFINE t == [stream[s] EXCEPT !.reset_signalled = TRUE]
<1>1. stream[s] \in Stream /\ StreamOK(s, stream[s], heap, state)
  BY DEF IInv
<1>2. t \in Stream /\ StreamOK(s, t, heap, state)
  BY <1>1 DEF Stream, StreamOK, Owns, Faithful, Pending
<1>3. Abandon(t, s) /\ state' = state
  BY DEF StreamReset
<1> HIDE DEF t
<1> QED BY <1>2, <1>3, AbandonKeeps

(* The client asks the server to stop.                                     *)
LEMMA StopSendingKeeps ==
  ASSUME IInv, NEW s \in Streams, StopSending(s)
  PROVE  IInv'
<1> DEFINE t == [stream[s] EXCEPT !.stop_signalled = TRUE]
<1>1. stream[s] \in Stream /\ StreamOK(s, stream[s], heap, state)
  BY DEF IInv
<1>2. t \in Stream /\ StreamOK(s, t, heap, state)
  BY <1>1 DEF Stream, StreamOK, Owns, Faithful, Pending
<1>3. Abandon(t, s) /\ state' = state
  BY DEF StopSending
<1> HIDE DEF t
<1> QED BY <1>2, <1>3, AbandonKeeps

(* A stream that is new, or was deleted, owns and owes nothing.            *)
LEMMA EmptyStream ==
  ASSUME NEW s \in Streams, NEW h, NEW st
  PROVE  /\ NewStream \in Stream /\ StreamOK(s, NewStream, h, st)
         /\ Deleted \in Stream /\ StreamOK(s, Deleted, h, st)
<1> USE EchoServerAssumption
<1>1. <<>> = Bytes(0, 0) /\ Len(<<>>) = 0
  BY DEF Bytes
<1>2. 0 \in 0 .. MaxBytes /\ <<>> \in Seq(0 .. MaxBytes - 1) /\ Null \in Pointers
  BY DEF Pointers
<1>3. /\ NewStream \in Stream /\ NewStream.received = 0 /\ ~NewStream.fin_signalled
      /\ ~NewStream.is_active /\ ~NewStream.fin_requested
      /\ NewStream.app_stream_ctx = Null /\ NewStream.echoed = <<>>
  BY <1>2 DEF Stream, NewStream
<1>4. /\ Deleted \in Stream /\ Deleted.received = 0 /\ ~Deleted.fin_signalled
      /\ ~Deleted.is_active /\ ~Deleted.fin_requested
      /\ Deleted.app_stream_ctx = Null /\ Deleted.echoed = <<>>
  BY <1>3 DEF Stream, Deleted
<1> QED BY <1>1, <1>3, <1>4 DEF StreamOK, Owns, Faithful, Pending

(* The transport forgets a stream that ended.                              *)
LEMMA DeleteStreamKeeps ==
  ASSUME IInv, NEW s \in Streams, DeleteStream(s)
  PROVE  IInv'
<1>1. stream' = [stream EXCEPT ![s] = Deleted]
  BY DEF DeleteStream
<1>2. heap' = heap /\ stream_head' = stream_head /\ state' = state
  BY DEF DeleteStream
<1>3. Deleted \in Stream /\ StreamOK(s, Deleted, heap', state')
  BY EmptyStream
<1>4. \A b \in Addresses :
        heap[b] # Free /\ heap[b].stream_id # s => SameData(heap[b], heap'[b])
  BY <1>2 DEF SameData
<1> QED BY <1>1, <1>2, <1>3, <1>4, OneStreamChanges DEF IInv

(* The connection closes and the list is freed.                            *)
LEMMA CloseKeeps ==
  ASSUME IInv, Close
  PROVE  IInv'
<1>1. /\ stream' = [s \in Streams |-> Deleted]
      /\ heap' = [a \in Addresses |-> IF a \in Listed THEN Free ELSE heap[a]]
      /\ stream_head' = Null /\ state' = "closed"
  BY DEF Close
<1>2. stream' \in [Streams -> Stream] /\ \A s \in Streams : StreamOK(s, stream'[s], heap', state')
  BY <1>1, EmptyStream
<1>3. HeapOK(heap')
  BY <1>1 DEF HeapOK, IInv
<1> QED BY <1>1, <1>2, <1>3 DEF IInv, Pointers

LEMMA EchoStep ==
  ASSUME IInv, [Next]_vars
  PROVE  IInv'
<1>1. CASE UNCHANGED vars
  BY <1>1 DEF vars, IInv
<1>2. ASSUME NEW s \in Streams, NEW n \in 0 .. MaxBytes, NEW fin \in BOOLEAN, Data(s, n, fin)
      PROVE  IInv'
  BY <1>2, DataKeeps
<1>3. ASSUME NEW s \in Streams, NEW length \in Room, PrepareToSend(s, length) PROVE IInv'
  BY <1>3, PrepareToSendKeeps
<1>4. ASSUME NEW s \in Streams, StreamReset(s) PROVE IInv'
  BY <1>4, StreamResetKeeps
<1>5. ASSUME NEW s \in Streams, StopSending(s) PROVE IInv'
  BY <1>5, StopSendingKeeps
<1>6. ASSUME NEW s \in Streams, DeleteStream(s) PROVE IInv'
  BY <1>6, DeleteStreamKeeps
<1>7. CASE Close
  BY <1>7, CloseKeeps
<1> QED BY <1>1, <1>2, <1>3, <1>4, <1>5, <1>6, <1>7 DEF Next

(* The inductive invariant holds in every state of every run.              *)
THEOREM Invariant == Spec => []IInv
<1>1. Init => IInv
  <2> SUFFICES ASSUME Init PROVE IInv
    OBVIOUS
  <2>1. stream = [s \in Streams |-> NewStream] /\ heap = [a \in Addresses |-> Free]
    BY DEF Init
  <2>2. stream \in [Streams -> Stream] /\ \A s \in Streams : StreamOK(s, stream[s], heap, state)
    BY <2>1, EmptyStream
  <2> QED BY <2>1, <2>2 DEF Init, IInv, HeapOK, Pointers
<1>2. IInv /\ [Next]_vars => IInv'
  BY EchoStep
<1> QED BY <1>1, <1>2, PTL DEF Spec
-----------------------------------------------------------------------------
(* The list of contexts: the n entries of p, each linked to the ones beside *)
(* it, are the contexts of the heap h.                                     *)
Entry(p, n, i) == IF i \in 1 .. n THEN p[i] ELSE Null

Chain(h, head, n, p) ==
  /\ \A i, j \in 1 .. n : p[i] = p[j] => i = j
  /\ \A a \in Addresses : h[a] # Free <=> \E i \in 1 .. n : p[i] = a
  /\ head = Entry(p, n, 1)
  /\ \A i \in 1 .. n : /\ h[p[i]].next = Entry(p, n, i + 1)
                       /\ h[p[i]].prev = Entry(p, n, i - 1)

Linked(h, head) == \E n \in Nat : \E p \in [1 .. n -> Addresses] : Chain(h, head, n, p)

(* Before the first stream, and after the close, the list is empty.        *)
LEMMA EmptyList == Linked([a \in Addresses |-> Free], Null)
<1> DEFINE h == [a \in Addresses |-> Free]
           p == [i \in 1 .. 0 |-> Null]
<1>1. p \in [1 .. 0 -> Addresses] /\ \A a \in Addresses : h[a] = Free
  OBVIOUS
<1> HIDE DEF h, p
<1>2. Chain(h, Null, 0, p)
  BY <1>1 DEF Chain, Entry
<1>3. Linked(h, Null)
  BY <1>1, <1>2 DEF Linked
<1> QED BY <1>3 DEF h

(* A context that is written, or moved, with its links as they were.       *)
SameLinks(c, d) == (c = Free <=> d = Free) /\ d.next = c.next /\ d.prev = c.prev

(* The data of a context is written without a change to its links.         *)
LEMMA DataKeepsLinks ==
  ASSUME NEW c, IsContext(c), NEW from, NEW n, NEW fin, NEW k
  PROVE  SameLinks(c, Filled(c, from, n, fin)) /\ SameLinks(c, Drained(c, k))
<1>1. /\ "next" \in DOMAIN c /\ "prev" \in DOMAIN c /\ c # Free
      /\ "next" \notin DOMAIN Free
  BY ContextIsNotFree DEF IsContext, ContextWith, Free
<1>2. ASSUME NEW v, NEW w, NEW x
      PROVE  SameLinks(c, [[c EXCEPT !.recv_buf = v, !.recv_cap = w] EXCEPT !.fin_received = x])
  <2> DEFINE d == [[c EXCEPT !.recv_buf = v, !.recv_cap = w] EXCEPT !.fin_received = x]
  <2>1. DOMAIN d = DOMAIN c /\ d.next = c.next /\ d.prev = c.prev
    BY <1>1
  <2> HIDE DEF d
  <2>2. SameLinks(c, d)
    BY <1>1, <2>1 DEF SameLinks
  <2> QED BY <2>2 DEF d
<1>3. ASSUME NEW v, NEW w
      PROVE  SameLinks(c, [c EXCEPT !.recv_buf = v, !.echo_sent = w])
  <2> DEFINE d == [c EXCEPT !.recv_buf = v, !.echo_sent = w]
  <2>1. DOMAIN d = DOMAIN c /\ d.next = c.next /\ d.prev = c.prev
    BY <1>1
  <2> HIDE DEF d
  <2>2. SameLinks(c, d)
    BY <1>1, <2>1 DEF SameLinks
  <2> QED BY <2>2 DEF d
<1>4. SameLinks(c, Filled(c, from, n, fin))
  BY <1>2, Zenon DEF Filled, Appended
<1>5. SameLinks(c, Drained(c, k))
  BY <1>3, Zenon DEF Drained
<1> QED BY <1>4, <1>5

(* A list whose contexts keep their links is still one.                    *)
LEMMA LinksKept ==
  ASSUME NEW h, NEW g, NEW head, Linked(h, head),
         \A b \in Addresses : SameLinks(h[b], g[b])
  PROVE  Linked(g, head)
<1>1. PICK n \in Nat : \E p \in [1 .. n -> Addresses] : Chain(h, head, n, p)
  BY DEF Linked
<1>2. PICK p \in [1 .. n -> Addresses] : Chain(h, head, n, p)
  BY <1>1
<1>3. Chain(g, head, n, p)
  <2>1. \A i \in 1 .. n : p[i] \in Addresses
    OBVIOUS
  <2> QED BY <1>2, <2>1 DEF Chain, SameLinks
<1> QED BY <1>3 DEF Linked

(* Only one context of the heap is written, and not in its links.          *)
LEMMA OneContextKept ==
  ASSUME NEW h, HeapOK(h), NEW head, Linked(h, head), NEW a \in Addresses, NEW d,
         SameLinks(h[a], d)
  PROVE  Linked([h EXCEPT ![a] = d], head)
<1> DEFINE g == [h EXCEPT ![a] = d]
<1>1. g[a] = d /\ \A b \in Addresses : b # a => g[b] = h[b]
  BY DEF HeapOK
<1> HIDE DEF g
<1>2. \A b \in Addresses : SameLinks(h[b], g[b])
  BY <1>1 DEF SameLinks
<1>3. Linked(g, head)
  BY <1>2, LinksKept
<1> QED BY <1>3 DEF g

(* A new context is the first of the list.                                 *)
LEMMA InsertLinks ==
  ASSUME NEW h, HeapOK(h), NEW head, Linked(h, head),
         NEW s \in Streams, NEW a \in Addresses, h[a] = Free
  PROVE  Linked(InsertContext(h, head, a, s), a)
<1> USE EchoServerAssumption
<1> DEFINE new == [stream_id |-> s, recv_buf |-> <<>>, recv_cap |-> RecvBufInit,
                   fin_received |-> FALSE, echo_sent |-> FALSE,
                   next |-> head, prev |-> Null]
           g == InsertContext(h, head, a, s)
<1>1. PICK n \in Nat : \E p \in [1 .. n -> Addresses] : Chain(h, head, n, p)
  BY DEF Linked
<1>2. PICK p \in [1 .. n -> Addresses] : Chain(h, head, n, p)
  BY <1>1
<1> DEFINE q == [i \in 1 .. n + 1 |-> IF i = 1 THEN a ELSE p[i - 1]]
<1>3. head \in Pointers
  BY <1>2 DEF Chain, Entry, Pointers
<1>4. /\ HeapOK(g) /\ \A b \in Addresses : h[b] # Free => SameData(h[b], g[b])
      /\ g[a] # Free
  BY <1>3, InsertKeepsOthers
<1>5. /\ \A b \in Addresses : g[b] = IF b = a THEN new
                                     ELSE IF b = head THEN [h[b] EXCEPT !.prev = a]
                                     ELSE h[b]
  BY DEF InsertContext
<1>6. g[a].next = head /\ g[a].prev = Null
  <2>1. g[a] = new
    BY <1>5
  <2> HIDE DEF g
  <2>2. new.next = head /\ new.prev = Null
    OBVIOUS
  <2> HIDE DEF new
  <2> QED BY <2>1, <2>2
<1>7. ASSUME NEW b \in Addresses, h[b] # Free
      PROVE  /\ b # a /\ g[b].next = h[b].next
             /\ g[b].prev = IF b = head THEN a ELSE h[b].prev
  <2>1. IsContext(h[b]) /\ b # a
    BY <1>7 DEF HeapOK
  <2>2. [h[b] EXCEPT !.prev = a].next = h[b].next /\ [h[b] EXCEPT !.prev = a].prev = a
    BY <2>1 DEF IsContext, ContextWith
  <2> HIDE DEF g, new
  <2> QED BY <1>5, <2>1, <2>2
<1>8. ASSUME NEW b \in Addresses, h[b] = Free, b # a
      PROVE  g[b] = Free
  <2>1. b # head
    BY <1>2, <1>8 DEF Chain, Entry
  <2> HIDE DEF g, new
  <2> QED BY <1>5, <1>8, <2>1
<1> HIDE DEF g
<1>9. q \in [1 .. n + 1 -> Addresses] /\ q[1] = a /\ \A i \in 2 .. n + 1 : q[i] = p[i - 1]
  OBVIOUS
<1> HIDE DEF q
<1>10. \A i \in 1 .. n : q[i + 1] = p[i] /\ p[i] # a /\ p[i] \in Addresses /\ h[p[i]] # Free
  <2> SUFFICES ASSUME NEW i \in 1 .. n
               PROVE  q[i + 1] = p[i] /\ p[i] # a /\ p[i] \in Addresses /\ h[p[i]] # Free
    OBVIOUS
  <2>1. i + 1 \in 2 .. n + 1 /\ (i + 1) - 1 = i
    OBVIOUS
  <2>2. q[i + 1] = p[i]
    BY <1>9, <2>1
  <2>3. p[i] \in Addresses /\ h[p[i]] # Free
    BY <1>2 DEF Chain
  <2> QED BY <2>2, <2>3
<1>11. \A i \in 0 .. n + 1 : Entry(q, n + 1, i + 1) = IF i = 0 THEN a ELSE Entry(p, n, i)
  BY <1>9, <1>10 DEF Entry
<1>12. \A i, j \in 1 .. n + 1 : q[i] = q[j] => i = j
  <2> SUFFICES ASSUME NEW i \in 1 .. n + 1, NEW j \in 1 .. n + 1, q[i] = q[j]
               PROVE  i = j
    OBVIOUS
  <2>1. CASE i = 1 \/ j = 1
    BY <1>9, <1>10, <2>1
  <2>2. CASE i # 1 /\ j # 1
    <3>1. /\ i - 1 \in 1 .. n /\ j - 1 \in 1 .. n
          /\ q[i] = p[i - 1] /\ q[j] = p[j - 1]
      BY <1>9, <2>2
    <3>2. \A k, l \in 1 .. n : p[k] = p[l] => k = l
      BY <1>2 DEF Chain
    <3>3. p[i - 1] = p[j - 1]
      BY <3>1
    <3>4. i - 1 = j - 1
      BY <3>1, <3>2, <3>3, Zenon
    <3> QED BY <3>4
  <2> QED BY <2>1, <2>2
<1>13. ASSUME NEW b \in Addresses
       PROVE  g[b] # Free <=> \E i \in 1 .. n + 1 : q[i] = b
  <2>1. CASE b = a
    <3>1. 1 \in 1 .. n + 1
      OBVIOUS
    <3>2. \E i \in 1 .. n + 1 : q[i] = b
      BY <1>9, <2>1, <3>1
    <3>3. g[b] # Free
      BY <1>4, <2>1
    <3> QED BY <3>2, <3>3
  <2>2. CASE b # a /\ h[b] = Free
    <3>1. \A i \in 1 .. n : p[i] # b
      BY <1>2, <2>2 DEF Chain
    <3>2. ASSUME NEW i \in 1 .. n + 1
          PROVE  q[i] # b
      <4>1. CASE i = 1
        BY <1>9, <2>2, <4>1
      <4>2. CASE i # 1
        <5>1. i \in 2 .. n + 1 /\ i - 1 \in 1 .. n
          BY <4>2
        <5> QED BY <1>9, <3>1, <5>1
      <4> QED BY <4>1, <4>2
    <3>3. g[b] = Free
      BY <1>8, <2>2
    <3> QED BY <3>2, <3>3
  <2>3. CASE b # a /\ h[b] # Free
    <3>1. PICK i \in 1 .. n : p[i] = b
      BY <1>2, <2>3 DEF Chain
    <3>2. i + 1 \in 1 .. n + 1 /\ q[i + 1] = b
      BY <1>10, <3>1
    <3>3. g[b] # Free
      BY <1>4, <2>3 DEF SameData
    <3> QED BY <3>2, <3>3
  <2> QED BY <2>1, <2>2, <2>3
<1>14. a = Entry(q, n + 1, 1)
  BY <1>9 DEF Entry
<1>15. ASSUME NEW i \in 1 .. n + 1
       PROVE  /\ g[q[i]].next = Entry(q, n + 1, i + 1)
              /\ g[q[i]].prev = Entry(q, n + 1, i - 1)
  <2>1. CASE i = 1
    <3>1. head = Entry(p, n, 1) /\ Entry(q, n + 1, 2) = Entry(p, n, 1)
      <4>1. Entry(q, n + 1, 1 + 1) = Entry(p, n, 1)
        BY <1>11
      <4> QED BY <1>2, <4>1 DEF Chain
    <3>2. Entry(q, n + 1, 0) = Null
      BY DEF Entry
    <3> QED BY <1>6, <1>9, <2>1, <3>1, <3>2
  <2>2. CASE i # 1
    <3> DEFINE k == i - 1
    <3>1. k \in 1 .. n /\ i = k + 1
      BY <2>2
    <3> HIDE DEF k
    <3>2. /\ q[i] = p[k] /\ p[k] \in Addresses /\ h[p[k]] # Free
          /\ h[p[k]].next = Entry(p, n, k + 1) /\ h[p[k]].prev = Entry(p, n, k - 1)
      BY <1>2, <1>10, <3>1 DEF Chain
    <3>3. Entry(q, n + 1, i + 1) = Entry(p, n, k + 1)
      <4>1. Entry(q, n + 1, (k + 1) + 1) = Entry(p, n, k + 1)
        BY <1>11, <3>1
      <4> QED BY <3>1, <4>1
    <3>4. CASE k = 1
      <4>1. p[k] = head
        BY <1>2, <3>1, <3>4 DEF Chain, Entry
      <4>2. Entry(q, n + 1, i - 1) = a
        BY <1>14, <3>1, <3>4
      <4> QED BY <1>7, <3>2, <3>3, <4>1, <4>2
    <3>5. CASE k # 1
      <4>1. p[k] # head
        BY <1>2, <3>1, <3>5 DEF Chain, Entry
      <4>2. Entry(q, n + 1, i - 1) = Entry(p, n, k - 1)
        <5>1. k - 1 \in 1 .. n /\ (k - 1) + 1 = i - 1
          BY <3>1, <3>5
        <5>2. Entry(q, n + 1, (k - 1) + 1) = Entry(p, n, k - 1)
          BY <1>11, <5>1
        <5> QED BY <5>1, <5>2
      <4> QED BY <1>7, <3>2, <3>3, <4>1, <4>2
    <3> QED BY <3>4, <3>5
  <2> QED BY <2>1, <2>2
<1>16. Chain(g, a, n + 1, q)
  BY <1>12, <1>13, <1>14, <1>15 DEF Chain
<1>17. n + 1 \in Nat
  OBVIOUS
<1>18. Linked(g, a)
  BY <1>9, <1>16, <1>17 DEF Linked
<1> QED BY <1>18 DEF g

(* A context is taken out of the list wherever it is.                      *)
LEMMA RemoveLinks ==
  ASSUME NEW h, HeapOK(h), NEW head, Linked(h, head),
         NEW a \in Addresses, h[a] # Free
  PROVE  Linked(RemoveContext(h, a), HeadAfterRemove(h, head, a))
<1> USE EchoServerAssumption
<1> DEFINE g == RemoveContext(h, a)
           first == HeadAfterRemove(h, head, a)
<1>1. PICK n \in Nat : \E p \in [1 .. n -> Addresses] : Chain(h, head, n, p)
  BY DEF Linked
<1>2. PICK p \in [1 .. n -> Addresses] : Chain(h, head, n, p)
  BY <1>1
<1>3. PICK k \in 1 .. n : p[k] = a
  BY <1>2 DEF Chain
<1> DEFINE Shift(i) == IF i < k THEN i ELSE i + 1
           q == [i \in 1 .. n - 1 |-> p[Shift(i)]]
<1>4. h[a].next = Entry(p, n, k + 1) /\ h[a].prev = Entry(p, n, k - 1)
  BY <1>2, <1>3 DEF Chain
<1>5. /\ HeapOK(g) /\ g[a] = Free
      /\ \A b \in Addresses \ {a} : h[b] # Free => SameData(h[b], g[b])
  <2>1. g[a] = Free
    BY DEF RemoveContext
  <2> HIDE DEF g
  <2> QED BY <2>1, RemoveKeepsOthers DEF g
<1>6. ASSUME NEW b \in Addresses, b # a
      PROVE  g[b] = IF b = h[a].prev THEN [h[b] EXCEPT !.next = h[a].next]
                    ELSE IF b = h[a].next THEN [h[b] EXCEPT !.prev = h[a].prev]
                    ELSE h[b]
  BY <1>6 DEF RemoveContext
<1> HIDE DEF g, first
<1>7. /\ n - 1 \in Nat
      /\ \A i \in 1 .. n : p[i] \in Addresses /\ h[p[i]] # Free /\ (p[i] = a => i = k)
      /\ \A i \in 1 .. n - 1 : Shift(i) \in 1 .. n /\ Shift(i) # k
  <2>1. n - 1 \in Nat /\ \A i \in 1 .. n - 1 : Shift(i) \in 1 .. n /\ Shift(i) # k
    OBVIOUS
  <2>2. \A i \in 1 .. n : p[i] \in Addresses
    OBVIOUS
  <2> HIDE DEF Shift
  <2>3. \A i \in 1 .. n : h[p[i]] # Free /\ (p[i] = a => i = k)
    BY <1>2, <1>3, <2>2 DEF Chain
  <2> QED BY <2>1, <2>2, <2>3
<1>8. q \in [1 .. n - 1 -> Addresses] /\ \A i \in 1 .. n - 1 : q[i] = p[Shift(i)]
  <2> HIDE DEF Shift
  <2> QED BY <1>7
<1> HIDE DEF q
<1>9. \A i, j \in 1 .. n - 1 : q[i] = q[j] => i = j
  <2> SUFFICES ASSUME NEW i \in 1 .. n - 1, NEW j \in 1 .. n - 1, q[i] = q[j]
               PROVE  i = j
    OBVIOUS
  <2>1. Shift(i) = Shift(j)
    <3> HIDE DEF Shift
    <3>1. Shift(i) \in 1 .. n /\ Shift(j) \in 1 .. n
      BY <1>7
    <3>2. p[Shift(i)] = p[Shift(j)]
      BY <1>8
    <3>3. \A k1, k2 \in 1 .. n : p[k1] = p[k2] => k1 = k2
      BY <1>2, Zenon DEF Chain
    <3> QED BY <3>1, <3>2, <3>3, Zenon
  <2> QED BY <2>1
<1>10. ASSUME NEW i \in 1 .. n
      PROVE  /\ i # k /\ i # k - 1 => g[p[i]].next = h[p[i]].next
             /\ i # k /\ i # k + 1 => g[p[i]].prev = h[p[i]].prev
             /\ i = k - 1 => g[p[i]].next = Entry(p, n, k + 1)
             /\ i = k + 1 => g[p[i]].prev = Entry(p, n, k - 1)
  <2> DEFINE b == p[i]
  <2>1. IsContext(h[b]) /\ b \in Addresses
    BY <1>7 DEF HeapOK
  <2>2. i # k => b # a
    BY <1>7
  <2>3. /\ b = h[a].prev <=> i = k - 1
        /\ b = h[a].next <=> i = k + 1
    <3>1. b # Null
      BY <2>1, EchoServerAssumption
    <3>2. \A j \in 1 .. n : b = p[j] <=> i = j
      BY <1>2, Zenon DEF Chain
    <3>3. \A j \in {k - 1, k + 1} : b = Entry(p, n, j) <=> i = j
      BY <3>1, <3>2 DEF Entry
    <3> QED BY <1>4, <3>3
  <2>4. ASSUME NEW v
        PROVE  /\ [h[b] EXCEPT !.next = v].next = v /\ [h[b] EXCEPT !.next = v].prev = h[b].prev
               /\ [h[b] EXCEPT !.prev = v].prev = v /\ [h[b] EXCEPT !.prev = v].next = h[b].next
    BY <2>1 DEF IsContext, ContextWith
  <2> HIDE DEF b
  <2>5. CASE i = k - 1
    <3>1. i # k /\ i # k + 1
      BY <2>5
    <3>2. g[b] = [h[b] EXCEPT !.next = h[a].next]
      BY <1>6, <2>1, <2>2, <2>3, <2>5, <3>1
    <3> QED BY <1>4, <2>4, <2>5, <3>1, <3>2 DEF b
  <2>6. CASE i = k + 1
    <3>1. i # k /\ i # k - 1
      BY <2>6
    <3>2. g[b] = [h[b] EXCEPT !.prev = h[a].prev]
      BY <1>6, <2>1, <2>2, <2>3, <2>6, <3>1
    <3> QED BY <1>4, <2>4, <2>6, <3>1, <3>2 DEF b
  <2>7. CASE i # k - 1 /\ i # k + 1 /\ i # k
    <3>1. g[b] = h[b]
      BY <1>6, <2>1, <2>2, <2>3, <2>7
    <3> QED BY <2>7, <3>1 DEF b
  <2>8. CASE i = k
    BY <2>8
  <2> QED BY <2>5, <2>6, <2>7, <2>8
<1>11. ASSUME NEW b \in Addresses
       PROVE  g[b] # Free <=> \E i \in 1 .. n - 1 : q[i] = b
  <2>1. CASE b = a
    <3>1. \A i \in 1 .. n - 1 : q[i] # b
      <4> HIDE DEF Shift
      <4> QED BY <1>7, <1>8, <2>1
    <3> QED BY <1>5, <2>1, <3>1
  <2>2. CASE b # a /\ h[b] = Free
    <3>1. \A i \in 1 .. n - 1 : q[i] # b
      <4> HIDE DEF Shift
      <4> QED BY <1>7, <1>8, <2>2
    <3>2. g[b] = Free
      <4>1. \A i \in 1 .. n : p[i] # b
        BY <1>7, <2>2
      <4>2. b # h[a].prev /\ b # h[a].next
        BY <1>4, <4>1 DEF Entry
      <4> QED BY <1>6, <2>2, <4>2
    <3> QED BY <3>1, <3>2
  <2>3. CASE b # a /\ h[b] # Free
    <3>1. PICK j \in 1 .. n : p[j] = b
      BY <1>2, <2>3 DEF Chain
    <3>2. j # k
      BY <1>3, <2>3, <3>1
    <3>3. PICK i \in 1 .. n - 1 : Shift(i) = j
      <4>1. CASE j < k
        <5>1. j \in 1 .. n - 1 /\ Shift(j) = j
          BY <4>1
        <5> QED BY <5>1
      <4>2. CASE j > k
        <5>1. j - 1 \in 1 .. n - 1 /\ Shift(j - 1) = j
          BY <4>2
        <5> QED BY <5>1
      <4> QED BY <3>2, <4>1, <4>2
    <3> HIDE DEF Shift
    <3>4. q[i] = b
      BY <1>8, <3>1, <3>3
    <3>5. g[b] # Free
      BY <1>5, <2>3 DEF SameData
    <3> QED BY <3>4, <3>5
  <2> QED BY <2>1, <2>2, <2>3
<1>12. \A i \in 0 .. n : i # k => Entry(q, n - 1, IF i < k THEN i ELSE i - 1) = Entry(p, n, i)
  <2> SUFFICES ASSUME NEW i \in 0 .. n, i # k
               PROVE  Entry(q, n - 1, IF i < k THEN i ELSE i - 1) = Entry(p, n, i)
    OBVIOUS
  <2>1. CASE i < k
    <3>1. i = 0 \/ (i \in 1 .. n - 1 /\ i \in 1 .. n /\ Shift(i) = i)
      BY <2>1
    <3> HIDE DEF Shift
    <3> QED BY <1>8, <2>1, <3>1 DEF Entry
  <2>2. CASE i > k
    <3>1. i - 1 \in 1 .. n - 1 /\ i \in 1 .. n /\ Shift(i - 1) = i /\ ~(i < k)
      BY <2>2
    <3> HIDE DEF Shift
    <3> QED BY <1>8, <2>2, <3>1 DEF Entry
  <2> QED BY <2>1, <2>2
<1>13. Entry(p, n, n + 1) = Null /\ Entry(q, n - 1, n) = Null
  BY DEF Entry
<1>14. first = Entry(q, n - 1, 1)
  <2>1. CASE k = 1
    <3>1. h[a].prev = Null /\ h[a].next = Entry(p, n, 2)
      BY <1>4, <2>1 DEF Entry
    <3>2. Entry(p, n, 2) = Entry(q, n - 1, 1)
      <4>1. CASE n = 1
        BY <4>1 DEF Entry
      <4>2. CASE n # 1
        <5>1. 2 \in 0 .. n /\ 2 # k /\ ~(2 < k) /\ 2 - 1 = 1
          BY <2>1, <4>2
        <5> QED BY <1>12, <5>1
      <4> QED BY <4>1, <4>2
    <3> QED BY <3>1, <3>2 DEF first, HeadAfterRemove
  <2>2. CASE k # 1
    <3>1. h[a].prev # Null
      <4>1. k - 1 \in 1 .. n
        BY <2>2
      <4> QED BY <1>4, <1>7, <4>1 DEF Entry
    <3>2. Entry(q, n - 1, 1) = Entry(p, n, 1)
      <4>1. 1 \in 0 .. n /\ 1 # k /\ 1 < k
        BY <2>2
      <4> QED BY <1>12, <4>1
    <3> QED BY <1>2, <3>1, <3>2 DEF first, HeadAfterRemove, Chain
  <2> QED BY <2>1, <2>2
<1>15. ASSUME NEW i \in 1 .. n - 1
       PROVE  /\ g[q[i]].next = Entry(q, n - 1, i + 1)
              /\ g[q[i]].prev = Entry(q, n - 1, i - 1)
  <2> DEFINE j == Shift(i)
  <2>1. j \in 1 .. n /\ j # k /\ q[i] = p[j]
    <3> HIDE DEF Shift
    <3> QED BY <1>7, <1>8
  <2>2. h[p[j]].next = Entry(p, n, j + 1) /\ h[p[j]].prev = Entry(p, n, j - 1)
    BY <1>2, <2>1 DEF Chain
  <2>3. g[p[j]].next = IF j = k - 1 THEN Entry(p, n, k + 1) ELSE Entry(p, n, j + 1)
    <3> HIDE DEF j
    <3> QED BY <1>10, <2>1, <2>2
  <2>4. g[p[j]].prev = IF j = k + 1 THEN Entry(p, n, k - 1) ELSE Entry(p, n, j - 1)
    <3> HIDE DEF j
    <3> QED BY <1>10, <2>1, <2>2
  <2>5. Entry(q, n - 1, i + 1) = IF j = k - 1 THEN Entry(p, n, k + 1) ELSE Entry(p, n, j + 1)
    <3> DEFINE m == IF j = k - 1 THEN k + 1 ELSE j + 1
    <3>1. m \in 1 .. n + 1 /\ m # k /\ (IF m < k THEN m ELSE m - 1) = i + 1
      BY <2>1
    <3>2. Entry(q, n - 1, i + 1) = Entry(p, n, m)
      <4> HIDE DEF m, j, Shift
      <4>1. CASE m \in 0 .. n
        BY <1>12, <3>1, <4>1
      <4>2. CASE m = n + 1
        <5>1. i + 1 = n
          BY <3>1, <4>2
        <5> QED BY <1>13, <4>2, <5>1
      <4> QED BY <3>1, <4>1, <4>2
    <3> QED BY <3>2
  <2>6. Entry(q, n - 1, i - 1) = IF j = k + 1 THEN Entry(p, n, k - 1) ELSE Entry(p, n, j - 1)
    <3> DEFINE m == IF j = k + 1 THEN k - 1 ELSE j - 1
    <3>1. m \in 0 .. n /\ m # k /\ (IF m < k THEN m ELSE m - 1) = i - 1
      BY <2>1
    <3>2. Entry(q, n - 1, i - 1) = Entry(p, n, m)
      <4> HIDE DEF m, j, Shift
      <4> QED BY <1>12, <3>1
    <3> QED BY <3>2
  <2> HIDE DEF j
  <2> QED BY <2>1, <2>3, <2>4, <2>5, <2>6
<1>16. Chain(g, first, n - 1, q)
  BY <1>9, <1>11, <1>14, <1>15 DEF Chain
<1>17. Linked(g, first)
  BY <1>7, <1>8, <1>16 DEF Linked
<1> QED BY <1>17 DEF g, first

(* The addresses met after k steps along next, as Listed computes them.    *)
Meets(f) ==
  [n \in 0 .. Cardinality(Addresses) |->
     IF n = 0 THEN {stream_head} \ {Null}
     ELSE f[n - 1] \cup ({heap[a].next : a \in f[n - 1]} \ {Null})]

(* There is one function that Listed can stand for: two would differ after *)
(* a least number of steps.                                                *)
LEMMA ListedIs ==
  ASSUME NEW g, g = Meets(g)
  PROVE  Listed = g[Cardinality(Addresses)]
<1> USE EchoServerAssumption
<1> DEFINE N == Cardinality(Addresses)
           f == CHOOSE h : h = Meets(h)
           differ == {n \in 0 .. N : f[n] # g[n]}
<1>1. Listed = (CHOOSE h : h = Meets(h))[N]
  BY Zenon DEF Listed, Meets
<1>2. f = Meets(f)
  <2> HIDE DEF Meets
  <2> QED BY Zenon
<1>3. N \in Nat
  BY FS_CardinalityType
<1> HIDE DEF f, N
<1>4. \A n \in 0 .. N :
        /\ f[n] = IF n = 0 THEN {stream_head} \ {Null}
                  ELSE f[n - 1] \cup ({heap[a].next : a \in f[n - 1]} \ {Null})
        /\ g[n] = IF n = 0 THEN {stream_head} \ {Null}
                  ELSE g[n - 1] \cup ({heap[a].next : a \in g[n - 1]} \ {Null})
  <2>1. /\ f = [n \in 0 .. N |-> IF n = 0 THEN {stream_head} \ {Null}
                  ELSE f[n - 1] \cup ({heap[a].next : a \in f[n - 1]} \ {Null})]
        /\ g = [n \in 0 .. N |-> IF n = 0 THEN {stream_head} \ {Null}
                  ELSE g[n - 1] \cup ({heap[a].next : a \in g[n - 1]} \ {Null})]
    BY <1>2, Zenon DEF Meets, N
  <2> QED BY <2>1, Zenon
<1>5. CASE differ = {}
  <2>1. f[N] = g[N]
    BY <1>3, <1>5
  <2> QED BY <1>1, <2>1 DEF f, N
<1>6. CASE differ # {}
  <2>1. differ \subseteq Nat
    OBVIOUS
  <2> HIDE DEF differ
  <2>2. PICK n \in differ : \A m \in differ : ~(<<m, n>> \in OpToRel(<, Nat))
    BY <1>6, <2>1, NatLessThanWellFounded, WFMin, Zenon
  <2>3. \A m \in differ : ~(m < n)
    BY <2>1, <2>2 DEF OpToRel
  <2>4. n \in 0 .. N /\ f[n] # g[n]
    BY DEF differ
  <2>5. CASE n = 0
    BY <1>3, <1>4, <2>4, <2>5
  <2>6. CASE n # 0
    <3>1. n - 1 \in 0 .. N /\ n - 1 < n
      BY <1>3, <2>4, <2>6
    <3>2. f[n - 1] = g[n - 1]
      BY <2>3, <3>1 DEF differ
    <3>3. /\ f[n] = f[n - 1] \cup ({heap[a].next : a \in f[n - 1]} \ {Null})
          /\ g[n] = g[n - 1] \cup ({heap[a].next : a \in g[n - 1]} \ {Null})
      BY <1>4, <2>4, <2>6
    <3>4. f[n] = g[n]
      BY <3>2, <3>3, Zenon
    <3> QED BY <2>4, <3>4
  <2> QED BY <2>5, <2>6
<1> QED BY <1>5, <1>6

(* A list of n entries lies in n addresses, so that Cardinality(Addresses) *)
(* steps are enough to meet all of them.                                   *)
LEMMA ListIsShort ==
  ASSUME NEW n \in Nat, NEW p \in [1 .. n -> Addresses], NEW h, NEW head, Chain(h, head, n, p)
  PROVE  n <= Cardinality(Addresses)
<1> USE EchoServerAssumption
<1>1. p \in Injection(1 .. n, Addresses)
  BY DEF Chain, Injection, IsInjective
<1>2. IsFiniteSet(1 .. n) /\ Cardinality(1 .. n) = n
  <2>1. 1 \in Int /\ n \in Int
    OBVIOUS
  <2>2. IsFiniteSet(1 .. n) /\ Cardinality(1 .. n) = IF 1 > n THEN 0 ELSE n - 1 + 1
    BY <2>1, FS_Interval, Zenon
  <2> QED BY <2>2
<1>3. Cardinality(1 .. n) <= Cardinality(Addresses)
  BY <1>1, FS_Injection
<1> QED BY <1>2, <1>3

(* The list, when it is linked, is what the code meets along next.         *)
LEMMA ListedIsLive ==
  ASSUME Linked(heap, stream_head)
  PROVE  ListIsSound
<1> USE EchoServerAssumption
<1> DEFINE N == Cardinality(Addresses)
<1>1. PICK n \in Nat : \E p \in [1 .. n -> Addresses] : Chain(heap, stream_head, n, p)
  BY DEF Linked
<1>2. PICK p \in [1 .. n -> Addresses] : Chain(heap, stream_head, n, p)
  BY <1>1
<1>3. n <= N /\ N \in Nat
  BY <1>2, ListIsShort, FS_CardinalityType
<1> HIDE DEF N
<1> DEFINE reach == [k \in 0 .. N |-> {a \in Addresses : \E i \in 1 .. n : i <= k + 1 /\ p[i] = a}]
<1>4. ASSUME NEW i \in 1 .. n
      PROVE  p[i] \in Addresses /\ p[i] # Null /\ p[i] \in Live
  <2>1. p[i] \in Addresses
    OBVIOUS
  <2>2. heap[p[i]] # Free
    BY <1>2, <2>1 DEF Chain
  <2> QED BY <2>1, <2>2 DEF Live
<1>5. ASSUME NEW k \in 0 .. N
      PROVE  reach[k] = IF k = 0 THEN {stream_head} \ {Null}
                        ELSE reach[k - 1] \cup ({heap[a].next : a \in reach[k - 1]} \ {Null})
  <2>1. CASE k = 0
    <3>1. reach[k] = {a \in Addresses : \E i \in 1 .. n : i <= 1 /\ p[i] = a}
      BY <2>1
    <3>2. stream_head = IF n = 0 THEN Null ELSE p[1]
      BY <1>2 DEF Chain, Entry
    <3> HIDE DEF reach
    <3>3. CASE n = 0
      BY <2>1, <3>1, <3>2, <3>3
    <3>4. CASE n # 0
      <4>1. 1 \in 1 .. n /\ \A i \in 1 .. n : i <= 1 <=> i = 1
        BY <3>4
      <4>2. reach[k] = {p[1]}
        BY <1>4, <3>1, <4>1
      <4> QED BY <1>4, <2>1, <3>2, <3>4, <4>1, <4>2
    <3> QED BY <3>3, <3>4
  <2>2. CASE k # 0
    <3>1. /\ k - 1 \in 0 .. N
          /\ reach[k] = {a \in Addresses : \E i \in 1 .. n : i <= k + 1 /\ p[i] = a}
          /\ reach[k - 1] = {a \in Addresses : \E i \in 1 .. n : i <= k /\ p[i] = a}
      <4>1. k - 1 \in 0 .. N /\ (k - 1) + 1 = k
        BY <1>3, <2>2
      <4>2. reach[k - 1] = {a \in Addresses : \E i \in 1 .. n : i <= (k - 1) + 1 /\ p[i] = a}
        BY <4>1, Zenon
      <4>3. reach[k] = {a \in Addresses : \E i \in 1 .. n : i <= k + 1 /\ p[i] = a}
        BY Zenon
      <4> HIDE DEF reach
      <4> QED BY <4>1, <4>2, <4>3
    <3> HIDE DEF reach
    <3>2. \A i \in 1 .. n : heap[p[i]].next = Entry(p, n, i + 1)
      BY <1>2 DEF Chain
    <3>3. reach[k - 1] \subseteq reach[k]
      BY <3>1
    <3>4. ASSUME NEW a \in reach[k - 1], heap[a].next # Null
          PROVE  heap[a].next \in reach[k]
      <4>1. PICK i \in 1 .. n : i <= k /\ p[i] = a
        BY <3>1
      <4>2. i + 1 \in 1 .. n /\ heap[a].next = p[i + 1] /\ i + 1 <= k + 1
        BY <3>2, <3>4, <4>1 DEF Entry
      <4> QED BY <1>4, <3>1, <4>2
    <3>5. ASSUME NEW b \in reach[k], b \notin reach[k - 1]
          PROVE  b \in {heap[a].next : a \in reach[k - 1]} \ {Null}
      <4>1. PICK i \in 1 .. n : i <= k + 1 /\ p[i] = b
        BY <3>1
      <4>2. i = k + 1
        BY <3>1, <3>5, <4>1, <1>4
      <4>3. k \in 1 .. n /\ p[k] \in reach[k - 1]
        BY <1>4, <2>2, <3>1, <4>1, <4>2
      <4>4. heap[p[k]].next = b
        BY <3>2, <4>1, <4>2, <4>3 DEF Entry
      <4> QED BY <1>4, <4>1, <4>3, <4>4
    <3> QED BY <2>2, <3>3, <3>4, <3>5
  <2> QED BY <2>1, <2>2
<1>6. reach[N] = Live
  <2>1. reach[N] = {a \in Addresses : \E i \in 1 .. n : i <= N + 1 /\ p[i] = a}
    BY <1>3
  <2> HIDE DEF reach
  <2>2. \A i \in 1 .. n : i <= N + 1
    BY <1>3
  <2>3. reach[N] = {a \in Addresses : \E i \in 1 .. n : p[i] = a}
    BY <2>1, <2>2
  <2>4. \A a \in Addresses : heap[a] # Free <=> \E i \in 1 .. n : p[i] = a
    BY <1>2 DEF Chain
  <2> QED BY <2>3, <2>4 DEF Live
<1>7. reach = Meets(reach)
  <2>1. reach = [k \in 0 .. N |-> reach[k]]
    OBVIOUS
  <2> HIDE DEF reach
  <2>2. reach = [k \in 0 .. N |-> IF k = 0 THEN {stream_head} \ {Null}
                   ELSE reach[k - 1] \cup ({heap[a].next : a \in reach[k - 1]} \ {Null})]
    BY <1>5, <2>1
  <2> QED BY <2>2, Zenon DEF Meets, N
<1> HIDE DEF reach
<1>8. Listed = Live
  BY <1>6, <1>7, ListedIs DEF N
<1>9. ASSUME NEW a \in Live
      PROVE  /\ IF heap[a].prev = Null THEN stream_head = a
                ELSE heap[a].prev \in Live /\ heap[heap[a].prev].next = a
             /\ heap[a].next # Null => heap[a].next \in Live /\ heap[heap[a].next].prev = a
  <2>1. PICK i \in 1 .. n : p[i] = a
    BY <1>2 DEF Chain, Live
  <2>2. heap[a].next = Entry(p, n, i + 1) /\ heap[a].prev = Entry(p, n, i - 1)
    BY <1>2, <2>1 DEF Chain
  <2>3. IF heap[a].prev = Null THEN stream_head = a
        ELSE heap[a].prev \in Live /\ heap[heap[a].prev].next = a
    <3>1. CASE i = 1
      BY <1>2, <2>1, <2>2, <3>1 DEF Chain, Entry
    <3>2. CASE i # 1
      <4>1. i - 1 \in 1 .. n /\ (i - 1) + 1 = i
        BY <3>2
      <4>2. heap[a].prev = p[i - 1] /\ heap[p[i - 1]].next = Entry(p, n, (i - 1) + 1)
        BY <1>2, <2>2, <4>1 DEF Chain, Entry
      <4> QED BY <1>4, <2>1, <4>1, <4>2 DEF Entry
    <3> QED BY <3>1, <3>2
  <2>4. ASSUME heap[a].next # Null
        PROVE  heap[a].next \in Live /\ heap[heap[a].next].prev = a
    <3>1. i + 1 \in 1 .. n /\ (i + 1) - 1 = i /\ heap[a].next = p[i + 1]
      BY <2>2, <2>4 DEF Entry
    <3>2. heap[p[i + 1]].prev = Entry(p, n, (i + 1) - 1)
      BY <1>2, <3>1 DEF Chain
    <3> QED BY <1>4, <2>1, <3>1, <3>2 DEF Entry
  <2> QED BY <2>3, <2>4
<1> QED BY <1>8, <1>9 DEF ListIsSound

(* The callback for data, whichever way it ends.                           *)
LEMMA AccumulateLinks ==
  ASSUME NEW t, NEW s, NEW h, HeapOK(h), NEW head, Linked(h, head),
         NEW a \in Addresses, h[a] # Free, NEW n, NEW fin, Accumulate(t, s, h, head, a, n, fin)
  PROVE  Linked(heap', stream_head')
<1>1. \/ heap' = h /\ stream_head' = head
      \/ /\ heap' = [h EXCEPT ![a] = Filled(h[a], t.received - n, n, fin)]
         /\ stream_head' = head
  BY Zenon DEF Accumulate, Fail, Filled
<1>2. SameLinks(h[a], Filled(h[a], t.received - n, n, fin))
  BY DataKeepsLinks DEF HeapOK
<1>3. Linked([h EXCEPT ![a] = Filled(h[a], t.received - n, n, fin)], head)
  BY <1>2, OneContextKept
<1> QED BY <1>1, <1>3, Zenon

(* An abandoned stream has a context of its own, which is in the list.     *)
LEMMA AbandonLinks ==
  ASSUME HeapOK(heap), Linked(heap, stream_head), NEW s \in Streams, NEW t,
         Owns(s, t, heap), Abandon(t, s)
  PROVE  Linked(heap', stream_head')
<1>1. CASE t.app_stream_ctx = Null
  BY <1>1 DEF Abandon
<1>2. CASE t.app_stream_ctx # Null
  <2>1. /\ heap' = RemoveContext(heap, t.app_stream_ctx)
        /\ stream_head' = HeadAfterRemove(heap, stream_head, t.app_stream_ctx)
    BY <1>2 DEF Abandon
  <2>2. t.app_stream_ctx \in Addresses /\ heap[t.app_stream_ctx] # Free
    BY <1>2 DEF Owns
  <2> QED BY <2>1, <2>2, RemoveLinks
<1> QED BY <1>1, <1>2

(* Every step of the server, and of the transport, keeps the list.         *)
LEMMA StepKeepsList ==
  ASSUME IInv, Linked(heap, stream_head), [Next]_vars
  PROVE  Linked(heap', stream_head')
<1> USE EchoServerAssumption
<1>1. HeapOK(heap) /\ \A s \in Streams : stream[s] \in Stream /\ Owns(s, stream[s], heap)
  BY DEF IInv, StreamOK
<1>2. CASE heap' = heap /\ stream_head' = stream_head
  BY <1>2
<1>3. ASSUME NEW s \in Streams, NEW n \in 0 .. MaxBytes, NEW fin \in BOOLEAN, Data(s, n, fin)
      PROVE  Linked(heap', stream_head')
  <2> DEFINE t == [stream[s] EXCEPT !.received = @ + n, !.fin_signalled = fin]
             known == t.app_stream_ctx
  <2>1. known = stream[s].app_stream_ctx
    BY <1>1 DEF Stream
  <2>2. \/ known # Null /\ Accumulate(t, s, heap, stream_head, known, n, fin)
        \/ known = Null /\ Fail(t, s, heap, stream_head)
        \/ /\ known = Null
           /\ \E a \in Allocated :
                Accumulate([t EXCEPT !.app_stream_ctx = a], s,
                           InsertContext(heap, stream_head, a, s), a, a, n, fin)
    BY <1>3, Zenon DEF Data
  <2> HIDE DEF t, known
  <2>3. CASE known # Null /\ Accumulate(t, s, heap, stream_head, known, n, fin)
    <3>1. known \in Addresses /\ heap[known] # Free
      BY <1>1, <2>1, <2>3 DEF Owns
    <3> QED BY <1>1, <2>3, <3>1, AccumulateLinks
  <2>4. CASE known = Null /\ Fail(t, s, heap, stream_head)
    BY <2>4 DEF Fail
  <2>5. ASSUME NEW a \in Allocated,
               Accumulate([t EXCEPT !.app_stream_ctx = a], s,
                          InsertContext(heap, stream_head, a, s), a, a, n, fin)
        PROVE  Linked(heap', stream_head')
    <3> DEFINE g == InsertContext(heap, stream_head, a, s)
    <3>1. a \in Addresses /\ heap[a] = Free
      BY DEF Allocated, Live
    <3>2. Linked(g, a)
      BY <1>1, <3>1, InsertLinks
    <3>3. HeapOK(g) /\ g[a] # Free
      BY <1>1, <3>1, InsertKeepsOthers DEF IInv
    <3> HIDE DEF g
    <3>4. Accumulate([t EXCEPT !.app_stream_ctx = a], s, g, a, a, n, fin)
      BY <2>5 DEF g
    <3> QED BY <3>1, <3>2, <3>3, <3>4, AccumulateLinks
  <2> QED BY <2>2, <2>3, <2>4, <2>5
<1>4. ASSUME NEW s \in Streams, NEW length \in Room, PrepareToSend(s, length)
      PROVE  Linked(heap', stream_head')
  <2> DEFINE a == stream[s].app_stream_ctx
             k == IF Len(heap[a].recv_buf) <= length THEN Len(heap[a].recv_buf) ELSE length
  <2>1. /\ stream_head' = stream_head
        /\ \/ heap' = heap
           \/ a # Null /\ heap' = [heap EXCEPT ![a] = Drained(heap[a], k)]
    BY <1>4, Zenon DEF PrepareToSend, Drained
  <2> HIDE DEF k
  <2>2. ASSUME a # Null PROVE Linked([heap EXCEPT ![a] = Drained(heap[a], k)], stream_head)
    <3>1. a \in Addresses /\ heap[a] # Free
      BY <1>1, <2>2 DEF Owns
    <3>2. SameLinks(heap[a], Drained(heap[a], k))
      BY <1>1, <3>1, DataKeepsLinks DEF HeapOK
    <3> HIDE DEF a
    <3> QED BY <1>1, <3>1, <3>2, OneContextKept
  <2> QED BY <2>1, <2>2, Zenon
<1>5. ASSUME NEW s \in Streams, StreamReset(s)
      PROVE  Linked(heap', stream_head')
  <2> DEFINE t == [stream[s] EXCEPT !.reset_signalled = TRUE]
  <2>1. Owns(s, t, heap)
    BY <1>1 DEF Owns, Stream
  <2>2. Abandon(t, s)
    BY <1>5 DEF StreamReset
  <2> HIDE DEF t
  <2> QED BY <1>1, <2>1, <2>2, AbandonLinks
<1>6. ASSUME NEW s \in Streams, StopSending(s)
      PROVE  Linked(heap', stream_head')
  <2> DEFINE t == [stream[s] EXCEPT !.stop_signalled = TRUE]
  <2>1. Owns(s, t, heap)
    BY <1>1 DEF Owns, Stream
  <2>2. Abandon(t, s)
    BY <1>6 DEF StopSending
  <2> HIDE DEF t
  <2> QED BY <1>1, <2>1, <2>2, AbandonLinks
<1>7. CASE Close
  <2>1. Listed = Live
    BY ListedIsLive DEF ListIsSound
  <2>2. heap' = [a \in Addresses |-> Free] /\ stream_head' = Null
    BY <1>7, <2>1 DEF Close, Live
  <2> QED BY <2>2, EmptyList
<1> QED BY <1>2, <1>3, <1>4, <1>5, <1>6, <1>7 DEF Next, DeleteStream, vars

(* The list holds the contexts that are live, and no other, with links     *)
(* that agree: a message, a reset or a stop unlinks none but its own, and  *)
(* the close of the connection (hello_server_loop.c) frees each one.       *)
THEOREM ListSound == Spec => []ListIsSound
<1>1. Init => Linked(heap, stream_head)
  BY EmptyList DEF Init
<1>2. IInv /\ Linked(heap, stream_head) /\ [Next]_vars => Linked(heap, stream_head)'
  BY StepKeepsList
<1>3. Linked(heap, stream_head) => ListIsSound
  BY ListedIsLive
<1> QED BY <1>1, <1>2, <1>3, Invariant, PTL DEF Spec

(* No stream keeps a pointer to a context that was freed, or that was      *)
(* allocated again for another stream, whatever resets, stops and failures *)
(* of calloc come between the callbacks of hello_server_loop.c.            *)
THEOREM NoDangling == Spec => []NoDanglingContext
<1>1. IInv => NoDanglingContext
  BY DEF IInv, StreamOK, Owns, NoDanglingContext, Live
<1> QED BY <1>1, Invariant, PTL

(* What the server echoes is a prefix of what it received, and it ends the *)
(* stream with nothing missing, however messages and replies are cut.      *)
THEOREM EchoFaithful == Spec => []EchoIsFaithful
<1>1. IInv => EchoIsFaithful
  BY DEF IInv, StreamOK, Faithful, EchoIsFaithful
<1> QED BY <1>1, Invariant, PTL

(* A stream that the transport will poll has an ended message to echo.     *)
THEOREM PollsAnswered == Spec => []PollsAreAnswered
<1>1. IInv => PollsAreAnswered
  BY DEF IInv, StreamOK, Faithful, Pending, PollsAreAnswered
<1> QED BY <1>1, Invariant, PTL
-----------------------------------------------------------------------------
(* HelloExchange.                                                          *)


LengthIsNumber == ClientMsg \in Int

ServerState ==
  [state : {"connecting", "ready", "disconnecting", "closed"}, callback : BOOLEAN,
   srv_ctx : {"default", "own", "none"}, heap : SUBSET {"ctx", "stream"}, stream : BOOLEAN,
   app_stream_ctx : BOOLEAN, is_active : BOOLEAN, hello_sent : BOOLEAN, request : Int]

(* A connection has a context of its own, or nothing was allocated.        *)
Owned ==
  /\ server.state # "closed" => server.srv_ctx # "none"
  /\ server.state = "connecting" => server.srv_ctx = "default"
  /\ server.state = "ready" => server.srv_ctx = "own"
  /\ server.srv_ctx = "default" =>
       server.heap = {} /\ ~server.stream /\ ~server.app_stream_ctx
  /\ "stream" \in server.heap => server.stream

HelloInv == server \in ServerState /\ net.request \in Int /\ Owned /\ Hello!NothingLeaks

LEMMA HelloInitInv == Hello!Init => HelloInv
BY DEF Hello!Init, HelloInv, ServerState, Owned, Hello!NothingLeaks, Hello!None

(* A step that leaves the server as it is.                                 *)
LEMMA ClientStep ==
  ASSUME HelloInv, server' = server, net'.request \in Int
  PROVE  HelloInv'
BY DEF HelloInv, Owned, Hello!NothingLeaks

LEMMA ClientSendsStep ==
  ASSUME LengthIsNumber, HelloInv, NEW room \in 0..MaxRoom, Hello!ClientSends(room)
  PROVE  HelloInv'
<1> DEFINE polled == client.state = "ready" /\ client.is_active /\ ~client.msg_sent
<1>1. server' = server
  BY DEF Hello!ClientSends
<1>2. net'.request = IF polled THEN Hello!Least(ClientMsg, room) ELSE net.request
  BY DEF Hello!ClientSends, HelloInv
<1>3. net'.request \in Int
  BY <1>2 DEF Hello!Least, LengthIsNumber, HelloInv
<1> QED BY <1>1, <1>3, ClientStep

(* The closing callback frees what it reaches, and that is all there is.   *)
LEMMA ClosedStep ==
  ASSUME HelloInv, server.state # "closed", Hello!ServerClosed, net'.request \in Int
  PROVE  HelloInv'
<1> DEFINE x == [server EXCEPT !.state = "closed", !.is_active = FALSE]
<1>1. /\ x \in ServerState /\ x.state = "closed" /\ x.heap = server.heap /\ x.stream = server.stream
      /\ x.srv_ctx = server.srv_ctx /\ x.app_stream_ctx = server.app_stream_ctx
  BY DEF HelloInv, ServerState
<1> HIDE DEF x
<1>2. CASE server' = Hello!FreeContexts(x)
  <2> DEFINE h == x.heap \ ({"ctx"} \cup (IF x.stream THEN {"stream"} ELSE {}))
  <2>1. h = {}
    BY <1>1 DEF HelloInv, ServerState, Owned
  <2>2. server' = [x EXCEPT !.heap = h, !.stream = FALSE, !.srv_ctx = "none", !.callback = FALSE]
    BY <1>2 DEF Hello!FreeContexts, ServerState
  <2> HIDE DEF h
  <2>3. /\ server' \in ServerState /\ server'.heap = {} /\ ~server'.callback
        /\ server'.state = "closed" /\ server'.srv_ctx = "none"
    BY <1>1, <2>1, <2>2 DEF ServerState
  <2> QED BY <2>3 DEF HelloInv, Owned, Hello!NothingLeaks
<1>3. CASE server.srv_ctx = "default" /\ server' = x
  BY <1>1, <1>3 DEF HelloInv, Owned, Hello!NothingLeaks
<1> QED BY <1>2, <1>3 DEF Hello!ServerClosed, x

LEMMA ServerStep ==
  ASSUME HelloInv, Hello!ServerReady \/ Hello!ServerFin
  PROVE  HelloInv'
<1>1. net' = net
  BY DEF Hello!ServerReady, Hello!ServerFin
<1>2. ASSUME server.state = "connecting",
             server' = [server EXCEPT !.state = "ready", !.srv_ctx = "own", !.heap = {"ctx"}]
      PROVE  HelloInv'
  BY <1>1, <1>2 DEF HelloInv, ServerState, Owned, Hello!NothingLeaks
<1>3. ASSUME server.state = "connecting", server' = [server EXCEPT !.state = "disconnecting"]
      PROVE  HelloInv'
  BY <1>1, <1>3 DEF HelloInv, ServerState, Owned, Hello!NothingLeaks
<1>4. ASSUME server.state = "ready",
             server' = [server EXCEPT !.request = net.request, !.heap = @ \cup {"stream"},
                                      !.stream = TRUE, !.app_stream_ctx = TRUE, !.is_active = TRUE]
      PROVE  HelloInv'
  BY <1>1, <1>4 DEF HelloInv, ServerState, Owned, Hello!NothingLeaks
<1>5. ASSUME server.state = "ready",
             server' = [server EXCEPT !.request = net.request, !.state = "disconnecting"]
      PROVE  HelloInv'
  BY <1>1, <1>5 DEF HelloInv, ServerState, Owned, Hello!NothingLeaks
<1> QED BY <1>2, <1>3, <1>4, <1>5 DEF Hello!ServerReady, Hello!ServerFin

LEMMA PolledStep ==
  ASSUME HelloInv, NEW room, Hello!ServerPolled(room)
  PROVE  HelloInv'
<1>1. net'.request = net.request
  BY DEF Hello!ServerPolled
<1> QED BY <1>1 DEF Hello!ServerPolled, HelloInv, ServerState, Owned, Hello!NothingLeaks

THEOREM HelloNextInv == LengthIsNumber /\ HelloInv /\ [Hello!Next]_(Hello!vars) => HelloInv'
<1> SUFFICES ASSUME LengthIsNumber, HelloInv, [Hello!Next]_(Hello!vars) PROVE HelloInv'
  OBVIOUS
<1>1. CASE UNCHANGED Hello!vars
  BY <1>1, ClientStep DEF Hello!vars, HelloInv
<1>2. CASE \/ Hello!ClientReady \/ Hello!ClientFin \/ Hello!ClientReceivesClose
           \/ Hello!AfterSend \/ Hello!ClientTimesOut
  BY <1>2, ClientStep
  DEF Hello!ClientReady, Hello!ClientFin, Hello!ClientReceivesClose, Hello!AfterSend,
      Hello!ClientTimesOut, HelloInv
<1>3. ASSUME NEW room \in 0..MaxRoom, Hello!ClientSends(room) PROVE HelloInv'
  BY <1>3, ClientSendsStep
<1>4. ASSUME NEW room \in 0..MaxRoom, Hello!ServerPolled(room) PROVE HelloInv'
  BY <1>4, PolledStep
<1>5. CASE Hello!ServerReady \/ Hello!ServerFin
  BY <1>5, ServerStep
<1>6. CASE Hello!ServerReceivesClose
  BY <1>6, ClosedStep DEF Hello!ServerReceivesClose, HelloInv
<1>7. CASE Hello!ServerDisconnects
  <2>1. net'.request = net.request
    BY <1>7 DEF Hello!ServerDisconnects
  <2> QED BY <1>7, <2>1, ClosedStep DEF Hello!ServerDisconnects, HelloInv
<1>8. CASE Hello!ServerTimesOut
  BY <1>8, ClosedStep DEF Hello!ServerTimesOut, HelloInv
<1>9. CASE Hello!LoseClose
  <2>1. server' = server /\ net'.request = net.request
    BY <1>9 DEF Hello!LoseClose
  <2> QED BY <2>1, ClientStep DEF HelloInv
<1> QED BY <1>1, <1>2, <1>3, <1>4, <1>5, <1>6, <1>7, <1>8, <1>9 DEF Hello!Next, Hello!Steps

LEMMA HelloSpecInv == ASSUME LengthIsNumber PROVE Hello!Spec => []HelloInv
<1>1. HelloInv /\ [Hello!Next]_(Hello!vars) => HelloInv'
  BY HelloNextInv
<1> QED BY HelloInitInv, <1>1, PTL DEF Hello!Spec

(* When its connection is closed the server holds no context, and no       *)
(* callback can reach one (hello_server_callback).                         *)
THEOREM NoLeak == ASSUME LengthIsNumber PROVE Hello!Spec => []NothingLeaks
<1>1. HelloInv => NothingLeaks
  BY DEF HelloInv, NothingLeaks
<1> QED BY <1>1, HelloSpecInv, PTL
-----------------------------------------------------------------------------
(* NetworkThread.                                                          *)

(* What the deletion has done so far.                                      *)
Announced ==
  /\ app.at \in {"close", "undefine", "join", "done"} => ctx.should_close
  /\ pipe.closed => ctx.should_close
  /\ ctx.freed => app.at = "done"

(* The thread and its loop.                                                *)
OneThread ==
  /\ app.at = "start" => ~ctx.is_threaded /\ loop.at = "none"
  /\ ~ctx.is_threaded => loop.at = "none"
  /\ app.at = "done" => Thread!Ended

(* What ends the loop with an error.                                       *)
Accounted ==
  /\ loop.ret = "error" => fault > 0
  /\ loop.ret = "simulate_nat" => fault > 0 \/ loop.at = "sending"
  /\ loop.at = "failed" => fault > 0 \/ ctx.should_close
  /\ Thread!StopIsClean

(* The length of a read is a number.                                       *)
EventBufIsNumber == EventBuf \in Nat

ThreadInv == Thread!TypeOK /\ Announced /\ OneThread /\ Accounted

LEMMA ThreadInitInv == Thread!Init => ThreadInv
<1> SUFFICES ASSUME Thread!Init PROVE ThreadInv
  OBVIOUS
<1>1. "ok" \in Thread!Result
  BY DEF Thread!Result
<1>2. Thread!TypeOK
  <2>1. app \in Thread!Application
    BY DEF Thread!Init, Thread!Application
  <2>2. ctx \in Thread!Context
    BY <1>1 DEF Thread!Init, Thread!Context
  <2>3. loop \in Thread!LoopState
    BY <1>1 DEF Thread!Init, Thread!LoopState
  <2>4. pipe \in [bytes : Int, closed : BOOLEAN]
    BY DEF Thread!Init
  <2> QED BY <2>1, <2>2, <2>3, <2>4 DEF Thread!Init, Thread!TypeOK
<1>3. Announced /\ OneThread /\ Accounted
  BY DEF Thread!Init, Announced, OneThread, Accounted, Thread!StopIsClean, Thread!Ended
<1> QED BY <1>2, <1>3 DEF ThreadInv
-----------------------------------------------------------------------------
USE DEF ThreadInv, Thread!TypeOK, Thread!Application, Thread!Context, Thread!LoopState, Announced,
        OneThread, Accounted, Thread!StopIsClean, Thread!Ended

(* The application thread.                                                 *)

LEMMA StartStep == ThreadInv /\ Thread!StartNetworkThread => ThreadInv'
<1> SUFFICES ASSUME ThreadInv, Thread!StartNetworkThread PROVE ThreadInv'
  OBVIOUS
<1>1. Thread!TypeOK'
  BY ZenonT(60) DEF Thread!StartNetworkThread
<1>2. Announced' /\ OneThread' /\ Accounted'
  BY ZenonT(60) DEF Thread!StartNetworkThread
<1> QED BY <1>1, <1>2 DEF ThreadInv

LEMMA WakeUpStep == ThreadInv /\ Thread!WakeUpNetworkThread => ThreadInv'
<1> SUFFICES ASSUME ThreadInv, Thread!WakeUpNetworkThread PROVE ThreadInv'
  OBVIOUS
<1>1. Thread!TypeOK'
  <2>1. /\ app.wake_ups + 1 \in Nat /\ (app.posted \/ ctx.wake_up_defined) \in BOOLEAN
        /\ (IF ctx.wake_up_defined THEN pipe.bytes + 1 ELSE pipe.bytes) \in Int
    OBVIOUS
  <2>2. app' \in Thread!Application
    BY <2>1 DEF Thread!WakeUpNetworkThread
  <2>3. pipe' \in [bytes : Int, closed : BOOLEAN]
    BY <2>1 DEF Thread!WakeUpNetworkThread
  <2> QED BY <2>2, <2>3 DEF Thread!WakeUpNetworkThread, ThreadInv, Thread!TypeOK
<1>2. Announced' /\ OneThread' /\ Accounted'
  BY DEF Thread!WakeUpNetworkThread
<1> QED BY <1>1, <1>2 DEF ThreadInv

LEMMA DeleteStep == ThreadInv /\ Thread!DeleteNetworkThread => ThreadInv'
<1> SUFFICES ASSUME ThreadInv, Thread!DeleteNetworkThread PROVE ThreadInv'
  OBVIOUS
<1>1. Thread!TypeOK'
  BY DEF Thread!DeleteNetworkThread
<1>2. Announced' /\ OneThread' /\ Accounted'
  BY DEF Thread!DeleteNetworkThread
<1> QED BY <1>1, <1>2 DEF ThreadInv

LEMMA SetShouldCloseStep == ThreadInv /\ Thread!SetShouldClose => ThreadInv'
<1> SUFFICES ASSUME ThreadInv, Thread!SetShouldClose PROVE ThreadInv'
  OBVIOUS
<1>1. Thread!TypeOK'
  BY ZenonT(60) DEF Thread!SetShouldClose
<1>2. Announced' /\ OneThread' /\ Accounted'
  BY DEF Thread!SetShouldClose
<1> QED BY <1>1, <1>2 DEF ThreadInv

LEMMA ClosePipeStep == ThreadInv /\ Thread!ClosePipe => ThreadInv'
<1> SUFFICES ASSUME ThreadInv, Thread!ClosePipe PROVE ThreadInv'
  OBVIOUS
<1>1. Thread!TypeOK'
  BY DEF Thread!ClosePipe
<1>2. Announced' /\ OneThread' /\ Accounted'
  BY DEF Thread!ClosePipe
<1> QED BY <1>1, <1>2 DEF ThreadInv

LEMMA UndefineStep == ThreadInv /\ Thread!UndefineWakeUp => ThreadInv'
<1> SUFFICES ASSUME ThreadInv, Thread!UndefineWakeUp PROVE ThreadInv'
  OBVIOUS
<1>1. Thread!TypeOK'
  BY ZenonT(60) DEF Thread!UndefineWakeUp
<1>2. Announced' /\ OneThread' /\ Accounted'
  BY DEF Thread!UndefineWakeUp
<1> QED BY <1>1, <1>2 DEF ThreadInv

LEMMA FreeStep == ThreadInv /\ Thread!JoinAndFree => ThreadInv'
<1> SUFFICES ASSUME ThreadInv, Thread!JoinAndFree PROVE ThreadInv'
  OBVIOUS
<1>1. Thread!TypeOK'
  BY ZenonT(60) DEF Thread!JoinAndFree
<1>2. Announced' /\ OneThread' /\ Accounted'
  BY DEF Thread!JoinAndFree
<1> QED BY <1>1, <1>2 DEF ThreadInv
-----------------------------------------------------------------------------
(* The loop.                                                               *)

LEMMA AfterIsState ==
  ASSUME ThreadInv, NEW r \in Thread!Result, NEW b \in BOOLEAN
  PROVE  Thread!After(r, b) \in Thread!LoopState
<1>1. (IF r = "ok" /\ b THEN "top" ELSE "sending") \in {"top", "sending"}
  OBVIOUS
<1> QED BY <1>1 DEF Thread!After, ThreadInv, Thread!TypeOK, Thread!LoopState

LEMMA OpenSocketsStep == ThreadInv /\ Thread!OpenSockets => ThreadInv'
<1> SUFFICES ASSUME ThreadInv, Thread!OpenSockets PROVE ThreadInv'
  OBVIOUS
<1>1. Thread!TypeOK'
  <2>1. PICK r \in Thread!Result : /\ loop' = [loop EXCEPT !.at = "top", !.ret = r]
                            /\ ctx' = [ctx EXCEPT !.is_ready = r = "ok"]
                            /\ fault' = IF r = "ok" THEN fault ELSE fault + 1
    BY DEF Thread!OpenSockets, Thread!Result
  <2>2. loop' \in Thread!LoopState
    BY <2>1
  <2>3. ctx' \in Thread!Context
    BY <2>1
  <2> QED BY <2>1, <2>2, <2>3 DEF Thread!OpenSockets, ThreadInv, Thread!TypeOK
<1>2. Announced' /\ OneThread' /\ Accounted'
  BY DEF Thread!OpenSockets, Thread!Result
<1> QED BY <1>1, <1>2 DEF ThreadInv

LEMMA TopStep == ThreadInv /\ Thread!Top => ThreadInv'
<1> SUFFICES ASSUME ThreadInv, Thread!Top PROVE ThreadInv'
  OBVIOUS
<1>1. Thread!TypeOK'
  <2>1. /\ (IF loop.immediate THEN loop.nb_immediate + 1 ELSE 1) \in Nat
        /\ (IF ctx.wake_up_defined THEN 1 ELSE 0) \in 0..1
    OBVIOUS
  <2>2. loop' \in Thread!LoopState
    BY <2>1 DEF Thread!Top
  <2> QED BY <2>2 DEF Thread!Top, Thread!Local, ThreadInv, Thread!TypeOK
<1>2. Announced' /\ OneThread' /\ Accounted'
  BY DEF Thread!Top, Thread!Local
<1> QED BY <1>1, <1>2 DEF ThreadInv

LEMMA SetFdsStep == ThreadInv /\ Thread!SetFds => ThreadInv'
<1> SUFFICES ASSUME ThreadInv, Thread!SetFds PROVE ThreadInv'
  OBVIOUS
<1>1. Thread!TypeOK'
  BY ZenonT(60) DEF Thread!SetFds, Thread!Local
<1>2. Announced' /\ OneThread' /\ Accounted'
  BY DEF Thread!SetFds, Thread!Local
<1> QED BY <1>1, <1>2 DEF ThreadInv

LEMMA PollReturnsStep == ThreadInv /\ Thread!PollReturns => ThreadInv'
<1> SUFFICES ASSUME ThreadInv, Thread!PollReturns PROVE ThreadInv'
  OBVIOUS
<1>1. Thread!TypeOK'
  <2>1. Thread!Events \subseteq {"pipe", "socket"}
    BY DEF Thread!Events
  <2>2. loop' \in Thread!LoopState
    BY <2>1 DEF Thread!PollReturns
  <2> QED BY <2>2 DEF Thread!PollReturns, Thread!Local, ThreadInv, Thread!TypeOK
<1>2. Announced' /\ OneThread' /\ Accounted'
  BY DEF Thread!PollReturns, Thread!Events, Thread!Local
<1> QED BY <1>1, <1>2 DEF ThreadInv

LEMMA PollTimesOutStep == ThreadInv /\ Thread!PollTimesOut => ThreadInv'
<1> SUFFICES ASSUME ThreadInv, Thread!PollTimesOut PROVE ThreadInv'
  OBVIOUS
<1>1. Thread!TypeOK'
  BY ZenonT(60) DEF Thread!PollTimesOut, Thread!Local
<1>2. Announced' /\ OneThread' /\ Accounted'
  BY DEF Thread!PollTimesOut, Thread!Local
<1> QED BY <1>1, <1>2 DEF ThreadInv

LEMMA PollFailsStep == ThreadInv /\ Thread!PollFails => ThreadInv'
<1> SUFFICES ASSUME ThreadInv, Thread!PollFails PROVE ThreadInv'
  OBVIOUS
<1>1. Thread!TypeOK'
  BY DEF Thread!PollFails
<1>2. Announced' /\ OneThread' /\ Accounted'
  BY DEF Thread!PollFails
<1> QED BY <1>1, <1>2 DEF ThreadInv

LEMMA CheckPipeStep == ThreadInv /\ Thread!CheckPipe => ThreadInv'
<1> SUFFICES ASSUME ThreadInv, Thread!CheckPipe PROVE ThreadInv'
  OBVIOUS
<1>1. Thread!TypeOK'
  BY DEF Thread!CheckPipe, Thread!Local
<1>2. Announced' /\ OneThread' /\ Accounted'
  BY DEF Thread!CheckPipe, Thread!Local
<1> QED BY <1>1, <1>2 DEF ThreadInv

LEMMA CheckSocketsStep == ThreadInv /\ Thread!CheckSockets => ThreadInv'
<1> SUFFICES ASSUME ThreadInv, Thread!CheckSockets PROVE ThreadInv'
  OBVIOUS
<1>1. Thread!TypeOK'
  BY ZenonT(60) DEF Thread!CheckSockets
<1>2. Announced' /\ OneThread' /\ Accounted'
  BY DEF Thread!CheckSockets
<1> QED BY <1>1, <1>2 DEF ThreadInv

LEMMA ReadPipeStep == EventBufIsNumber /\ ThreadInv /\ Thread!ReadPipe => ThreadInv'
<1> SUFFICES ASSUME EventBufIsNumber, ThreadInv, Thread!ReadPipe PROVE ThreadInv'
  OBVIOUS
<1>1. Thread!TypeOK'
  <2>1. (IF pipe.bytes > EventBuf THEN pipe.bytes - EventBuf ELSE 0) \in Int
    BY DEF EventBufIsNumber
  <2>2. loop' \in Thread!LoopState
    BY DEF Thread!ReadPipe
  <2>3. pipe' \in [bytes : Int, closed : BOOLEAN]
    BY <2>1 DEF Thread!ReadPipe
  <2> QED BY <2>2, <2>3 DEF Thread!ReadPipe, ThreadInv, Thread!TypeOK
<1>2. Announced' /\ OneThread' /\ Accounted'
  BY DEF Thread!ReadPipe
<1> QED BY <1>1, <1>2 DEF ThreadInv

LEMMA ReadClosedPipeStep == ThreadInv /\ Thread!ReadClosedPipe => ThreadInv'
<1> SUFFICES ASSUME ThreadInv, Thread!ReadClosedPipe PROVE ThreadInv'
  OBVIOUS
<1>1. Thread!TypeOK'
  BY DEF Thread!ReadClosedPipe, Thread!Local
<1>2. Announced' /\ OneThread' /\ Accounted'
  BY DEF Thread!ReadClosedPipe, Thread!Local
<1> QED BY <1>1, <1>2 DEF ThreadInv

LEMMA WaitFailedStep == ThreadInv /\ Thread!WaitFailed => ThreadInv'
<1> SUFFICES ASSUME ThreadInv, Thread!WaitFailed PROVE ThreadInv'
  OBVIOUS
<1>1. Thread!TypeOK'
  <2>1. (IF ctx.should_close THEN "terminate" ELSE "error") \in Thread!Result
    BY DEF Thread!Result
  <2>2. loop' \in Thread!LoopState
    BY <2>1 DEF Thread!WaitFailed
  <2> QED BY <2>2 DEF Thread!WaitFailed, Thread!Local, ThreadInv, Thread!TypeOK
<1>2. Announced' /\ OneThread' /\ Accounted'
  BY DEF Thread!WaitFailed, Thread!Local, Thread!Result
<1> QED BY <1>1, <1>2 DEF ThreadInv

LEMMA QuietStep == ThreadInv /\ Thread!Quiet => ThreadInv'
<1> SUFFICES ASSUME ThreadInv, Thread!Quiet PROVE ThreadInv'
  OBVIOUS
<1>1. Thread!TypeOK'
  <2>1. loop' \in Thread!LoopState
    <3> HIDE DEF ThreadInv, Thread!LoopState
    <3> QED BY AfterIsState DEF Thread!Quiet, Thread!Result
  <2> QED BY <2>1 DEF Thread!Quiet, Thread!Local, ThreadInv, Thread!TypeOK
<1>2. Announced' /\ OneThread' /\ Accounted'
  BY DEF Thread!Quiet, Thread!After, Thread!Local, Thread!Result
<1> QED BY <1>1, <1>2 DEF ThreadInv

LEMMA WakeUpCallbackStep == ThreadInv /\ Thread!WakeUp => ThreadInv'
<1> SUFFICES ASSUME ThreadInv, Thread!WakeUp PROVE ThreadInv'
  OBVIOUS
<1>1. Thread!TypeOK'
  <2>1. fault' \in Nat
    BY DEF Thread!WakeUp, Thread!Faulty
  <2>2. loop' \in Thread!LoopState
    <3> HIDE DEF ThreadInv, Thread!LoopState
    <3> QED BY AfterIsState DEF Thread!WakeUp
  <2>3. app' \in Thread!Application
    BY DEF Thread!WakeUp
  <2>4. to_send' \in Int
    BY DEF Thread!WakeUp
  <2>5. UNCHANGED <<ctx, pipe, inbox>>
    BY DEF Thread!WakeUp
  <2> QED BY <2>1, <2>2, <2>3, <2>4, <2>5 DEF ThreadInv, Thread!TypeOK
<1>2. Announced' /\ OneThread' /\ Accounted'
  BY DEF Thread!WakeUp, Thread!After, Thread!Faulty
<1> QED BY <1>1, <1>2 DEF ThreadInv

LEMMA UdpReceivedStep == ThreadInv /\ Thread!UdpReceived => ThreadInv'
<1> SUFFICES ASSUME ThreadInv, Thread!UdpReceived PROVE ThreadInv'
  OBVIOUS
<1>1. Thread!TypeOK'
  <2>1. fault' \in Nat
    BY DEF Thread!UdpReceived, Thread!Faulty
  <2>2. loop' \in Thread!LoopState
    <3> HIDE DEF ThreadInv, Thread!LoopState
    <3> QED BY AfterIsState DEF Thread!UdpReceived
  <2> QED BY <2>1, <2>2 DEF Thread!UdpReceived, ThreadInv, Thread!TypeOK
<1>2. Announced' /\ OneThread' /\ Accounted'
  BY DEF Thread!UdpReceived, Thread!After, Thread!Faulty
<1> QED BY <1>1, <1>2 DEF ThreadInv

LEMMA SendNextStep == ThreadInv /\ Thread!SendNext => ThreadInv'
<1> SUFFICES ASSUME ThreadInv, Thread!SendNext PROVE ThreadInv'
  OBVIOUS
<1>1. Thread!TypeOK'
  <2>1. loop.sent + 1 \in Nat /\ "ok" \in Thread!Result
    BY DEF Thread!Result
  <2>2. loop' \in Thread!LoopState
    BY <2>1 DEF Thread!SendNext
  <2> QED BY <2>2 DEF Thread!SendNext, ThreadInv, Thread!TypeOK
<1>2. Announced' /\ OneThread' /\ Accounted'
  BY DEF Thread!SendNext, Thread!Sending, Thread!Result
<1> QED BY <1>1, <1>2 DEF ThreadInv

LEMMA AfterSendStep == ThreadInv /\ Thread!AfterSend => ThreadInv'
<1> SUFFICES ASSUME ThreadInv, Thread!AfterSend PROVE ThreadInv'
  OBVIOUS
<1>1. Thread!TypeOK'
  <2>1. fault' \in Nat
    BY DEF Thread!AfterSend
  <2>2. loop' \in Thread!LoopState
    BY ZenonT(60) DEF Thread!AfterSend
  <2> QED BY <2>1, <2>2 DEF Thread!AfterSend, ThreadInv, Thread!TypeOK
<1>2. Announced' /\ OneThread' /\ Accounted'
  BY DEF Thread!AfterSend, Thread!Sending
<1> QED BY <1>1, <1>2 DEF ThreadInv

LEMMA NothingSentStep == ThreadInv /\ Thread!NothingSent => ThreadInv'
<1> SUFFICES ASSUME ThreadInv, Thread!NothingSent PROVE ThreadInv'
  OBVIOUS
<1>1. Thread!TypeOK'
  BY DEF Thread!NothingSent, Thread!Sending, Thread!Local
<1>2. Announced' /\ OneThread' /\ Accounted'
  BY DEF Thread!NothingSent, Thread!Sending, Thread!Local
<1> QED BY <1>1, <1>2 DEF ThreadInv

LEMMA LoopEndsStep == ThreadInv /\ Thread!LoopEnds => ThreadInv'
<1> SUFFICES ASSUME ThreadInv, Thread!LoopEnds PROVE ThreadInv'
  OBVIOUS
<1>1. Thread!TypeOK'
  BY ZenonT(60) DEF Thread!LoopEnds, Thread!Local, Thread!Result
<1>2. Announced' /\ OneThread' /\ Accounted'
  BY DEF Thread!LoopEnds, Thread!Local, Thread!Result
<1> QED BY <1>1, <1>2 DEF ThreadInv
-----------------------------------------------------------------------------
(* The network.                                                            *)

LEMMA PacketArrivesStep == ThreadInv /\ Thread!PacketArrives => ThreadInv'
<1> SUFFICES ASSUME ThreadInv, Thread!PacketArrives PROVE ThreadInv'
  OBVIOUS
<1>1. Thread!TypeOK'
  BY DEF Thread!PacketArrives
<1>2. Announced' /\ OneThread' /\ Accounted'
  BY DEF Thread!PacketArrives
<1> QED BY <1>1, <1>2 DEF ThreadInv

LEMMA PacketIsDueStep == ThreadInv /\ Thread!PacketIsDue => ThreadInv'
<1> SUFFICES ASSUME ThreadInv, Thread!PacketIsDue PROVE ThreadInv'
  OBVIOUS
<1>1. Thread!TypeOK'
  BY DEF Thread!PacketIsDue
<1>2. Announced' /\ OneThread' /\ Accounted'
  BY DEF Thread!PacketIsDue
<1> QED BY <1>1, <1>2 DEF ThreadInv
-----------------------------------------------------------------------------
THEOREM ThreadNextInv == EventBufIsNumber /\ ThreadInv /\ [Thread!Next]_(Thread!vars) => ThreadInv'
<1> SUFFICES ASSUME EventBufIsNumber, ThreadInv, [Thread!Next]_(Thread!vars) PROVE ThreadInv'
  OBVIOUS
<1>1. CASE UNCHANGED Thread!vars
  BY <1>1 DEF Thread!vars
<1>2. CASE Thread!StartNetworkThread \/ Thread!WakeUpNetworkThread \/ Thread!DeleteNetworkThread
  BY <1>2, StartStep, WakeUpStep, DeleteStep
<1>3. CASE Thread!Deletion
  BY <1>3, SetShouldCloseStep, ClosePipeStep, UndefineStep, FreeStep DEF Thread!Deletion
<1>4. CASE Thread!Loop
  BY <1>4, OpenSocketsStep, TopStep, SetFdsStep, PollReturnsStep, PollTimesOutStep,
     PollFailsStep, CheckPipeStep, CheckSocketsStep, ReadPipeStep, ReadClosedPipeStep,
     WaitFailedStep, QuietStep, WakeUpCallbackStep, UdpReceivedStep, SendNextStep,
     AfterSendStep, NothingSentStep, LoopEndsStep DEF Thread!Loop
<1>5. CASE Thread!PacketArrives \/ Thread!PacketIsDue
  BY <1>5, PacketArrivesStep, PacketIsDueStep
<1> QED BY <1>1, <1>2, <1>3, <1>4, <1>5 DEF Thread!Next

HIDE DEF ThreadInv, Thread!TypeOK, Thread!Application, Thread!Context, Thread!LoopState, Announced,
         OneThread, Accounted, Thread!StopIsClean, Thread!Ended

LEMMA ThreadSpecInv == ASSUME EventBufIsNumber PROVE Thread!Spec => []ThreadInv
<1>1. ThreadInv /\ [Thread!Next]_(Thread!vars) => ThreadInv'
  BY ThreadNextInv
<1> QED BY ThreadInitInv, <1>1, PTL DEF Thread!Spec

(* A deletion is never reported as an error: if the loop returns one, poll,*)
(* a socket or a callback has failed (picoquic_packet_loop_v3).            *)
THEOREM CleanStop == ASSUME EventBufIsNumber PROVE Thread!Spec => []StopIsClean
<1>1. ThreadInv => StopIsClean
  BY DEF ThreadInv, Accounted, StopIsClean
<1> QED BY <1>1, ThreadSpecInv, PTL
-----------------------------------------------------------------------------
(* The programs as the instances run them: one at a time, the others at    *)
(* rest.                                                                   *)

LEMMA ProgramsStart ==
  ASSUME LengthIsNumber, ProgramsInit
  PROVE  HelloInv /\ ThreadInv
<1>1. HelloAtRest => HelloInv
  BY DEF HelloAtRest, HelloInv, ServerState, Owned, Hello!NothingLeaks, LengthIsNumber
<1> QED BY <1>1, HelloInitInv, ThreadInitInv DEF ProgramsInit

LEMMA ProgramsStep ==
  ASSUME LengthIsNumber, EventBufIsNumber, HelloInv, ThreadInv, [ProgramsNext]_allVars
  PROVE  HelloInv' /\ ThreadInv'
<1>1. \/ [Hello!Next]_(Hello!vars) /\ UNCHANGED threadVars
      \/ [Thread!Next]_(Thread!vars) /\ UNCHANGED helloVars
  BY DEF ProgramsNext, allVars, helloVars, threadVars, Hello!vars, Thread!vars
<1>2. UNCHANGED threadVars => ThreadInv'
  <2>1. UNCHANGED threadVars => UNCHANGED Thread!vars
    BY DEF threadVars, Thread!vars
  <2> QED BY <2>1, ThreadNextInv
<1>3. UNCHANGED helloVars => HelloInv'
  <2>1. UNCHANGED helloVars => UNCHANGED Hello!vars
    BY DEF helloVars, Hello!vars
  <2> QED BY <2>1, HelloNextInv
<1> QED BY <1>1, <1>2, <1>3, HelloNextInv, ThreadNextInv

LEMMA EchoStart ==
  ASSUME ProgramsInit
  PROVE  IInv /\ Linked(heap, stream_head)
<1>1. heap = [a \in Addresses |-> Free] /\ stream_head = Null
      /\ state \in {"open", "disconnecting", "closed"}
      /\ (stream = [s \in Streams |-> NewStream] \/ stream = [s \in Streams |-> Deleted])
  BY DEF ProgramsInit, Init, EchoAtRest
<1>2. stream \in [Streams -> Stream] /\ \A s \in Streams : StreamOK(s, stream[s], heap, state)
  BY <1>1, EmptyStream
<1>3. IInv
  BY <1>1, <1>2 DEF IInv, HeapOK, Pointers
<1> QED BY <1>1, <1>3, EmptyList

LEMMA EchoProgramsStep ==
  ASSUME IInv, Linked(heap, stream_head), [ProgramsNext]_allVars
  PROVE  IInv' /\ Linked(heap', stream_head')
<1>1. [Next]_vars
  BY DEF ProgramsNext, allVars
<1> QED BY <1>1, EchoStep, StepKeepsList

(* The same properties, of all the programs together.                      *)
THEOREM ProgramsAreSafe ==
  ASSUME LengthIsNumber, EventBufIsNumber
  PROVE  ProgramsSpec => [](/\ NoDanglingContext /\ EchoIsFaithful /\ ListIsSound
                            /\ NothingLeaks /\ StopIsClean)
<1> DEFINE L == Linked(heap, stream_head)
<1>1. ProgramsInit => HelloInv /\ ThreadInv /\ IInv /\ L
  BY ProgramsStart, EchoStart
<1>2. HelloInv /\ ThreadInv /\ IInv /\ L /\ [ProgramsNext]_allVars =>
        HelloInv' /\ ThreadInv' /\ IInv' /\ L'
  BY ProgramsStep, EchoProgramsStep
<1>3. HelloInv /\ ThreadInv => NothingLeaks /\ StopIsClean
  BY DEF HelloInv, ThreadInv, Announced, OneThread, Accounted, NothingLeaks, StopIsClean
<1>4. IInv /\ L => NoDanglingContext /\ EchoIsFaithful /\ ListIsSound
  <2>1. IInv => NoDanglingContext
    BY DEF IInv, StreamOK, Owns, NoDanglingContext, Live
  <2>2. IInv => EchoIsFaithful
    BY DEF IInv, StreamOK, Faithful, EchoIsFaithful
  <2>3. L => ListIsSound
    BY ListedIsLive
  <2> QED BY <2>1, <2>2, <2>3
<1> HIDE DEF L
<1> QED BY <1>1, <1>2, <1>3, <1>4, PTL DEF ProgramsSpec
=============================================================================
