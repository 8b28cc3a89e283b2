-------------------------- MODULE Handshake_proofs --------------------------
(***************************************************************************)
(* Proofs about Handshake for every configuration of the two ends, every   *)
(* number of losses and early timers, and every number of packets on their *)
(* way.                                                                    *)
(***************************************************************************)
EXTENDS Handshake, WellFoundedInduction, TLAPS

Holds(q) == {q[i] : i \in 1 .. Len(q)}

(* What each end may queue, and send; what its states are not.             *)
QueuedBy(e) == IF e = "c" THEN {"CH", "Rc", "CF"} ELSE {"Rs", "SH", "SF1", "SF2", "DONE"}
SentBy(e) == IF e = "c" THEN QueuedBy("c") \cup {"PI", "PH"} ELSE QueuedBy("s")

ServerStates == {"server_none", "server_init", "server_handshake", "server_almost_ready",
                 "server_false_start"}
ClientStates == {"client_init", "client_init_sent", "client_handshake_start",
                 "client_almost_ready", "client_ready_start"}
EarlyStates == (ServerStates \cup ClientStates) \cup {"handshake_failure", "handshake_failure_resend"}

(* A packet of end e.  complete: TLS is complete there.  Only then is there *)
(* a Finished of the client, a HANDSHAKE_DONE, an acknowledgement of data.  *)
From(p, e, complete) ==
  /\ p \in Packet /\ p.src = e
  /\ p.frame \in (SentBy(e) \cap Frames[p.space]) \cup Closes \cup {None}
  /\ p.frame = "app_close" => p.space = "application"
  /\ p.frame \in {"CF", "DONE"} => complete
  /\ p.space = "application" /\ p.ack # {} => complete

Fields == {"end", "state", "queue", "pending", "got", "heard", "ack_needed", "enc", "dec",
           "sooner", "recycle", "complete", "validated", "repeat", "credit", "token",
           "is_ready", "closed", "informed"}

(* A record with the fields of a connection; two that differ in F only.    *)
Whole(k) == DOMAIN k = Fields /\ k = [f \in DOMAIN k |-> k[f]]
SameBut(k, r, F) == Whole(r) /\ \A f \in Fields \ F : r[f] = k[f]

TypesOK(k) ==
  /\ Whole(k)
  /\ k.end \in Ends /\ k.state \in States
  /\ k.queue \in Seq(AllFrames) /\ k.pending \in Seq(AllFrames) /\ k.sooner \in Seq(Packet)
  /\ k.got \subseteq AllFrames /\ k.complete \in BOOLEAN /\ k.token \in BOOLEAN

(* The keys go with TLS, and until the connection is ready it can say why  *)
(* it fails.                                                               *)
KeysOK(k) ==
  /\ "application" \in k.dec => k.complete
  /\ k.complete => "application" \in k.enc
  /\ "handshake" \in k.dec => "handshake" \in k.enc
  /\ k.end = "s" /\ "handshake" \in k.enc => "application" \in k.enc
  /\ k.state \in EarlyStates => "initial" \in k.enc \/ "handshake" \in k.enc \cap k.heard

StateOK(k) ==
  /\ k.end = "c" => k.state \notin ServerStates
  /\ k.end = "s" => k.state \notin ClientStates
  /\ k.state \in {"client_init", "client_init_sent"} => ~k.complete
  /\ k.state \in {"client_almost_ready", "client_ready_start"} => k.complete
  /\ k.state \in {"server_false_start", "ready", "disconnecting", "closing_received", "closing"}
       => "application" \in k.enc
  /\ k.state = "handshake_failure_resend" => "handshake" \in k.enc

QueuesOK(k) ==
  /\ Holds(k.queue) \subseteq QueuedBy(k.end)
  /\ Holds(k.pending) \subseteq SentBy(k.end)
  /\ {"CF", "DONE"} \cap (Holds(k.queue) \cup Holds(k.pending)) # {} => k.complete
  /\ "CF" \in Holds(k.queue) => "handshake" \in k.heard
  /\ k.got \cap Frames["application"] # {} => k.complete

ReportsOK(k) ==
  /\ k.is_ready = 0 \/ (k.is_ready = 1 /\ k.state \notin EarlyStates /\ k.complete)
  /\ k.closed = 0 \/ (k.closed = 1 /\ k.state = "disconnected")
  /\ k.state = "disconnected" => k.informed

(* peer: TLS is complete at the other end.                                 *)
AgreesWith(k, peer) ==
  /\ \A p \in Holds(k.sooner) : From(p, Peer(k.end), peer)
  /\ k.end = "s" /\ k.complete => peer
  /\ k.end = "c" /\ k.is_ready # 0 => peer

Good(k, peer) ==
  /\ TypesOK(k) /\ KeysOK(k) /\ StateOK(k) /\ QueuesOK(k) /\ ReportsOK(k)
  /\ AgreesWith(k, peer)

(* The inductive invariant: ready at one end means complete at the other   *)
(* because of what the packets between them prove, those that came too     *)
(* soon included, and the keys to close with are there because they go     *)
(* when others have come.                                                  *)
IInv ==
  /\ cnx = [e \in Ends |-> cnx[e]]
  /\ \A e \in Ends : cnx[e].end = e /\ Good(cnx[e], cnx[Peer(e)].complete)
  /\ \A p \in net : p = Retry \/ \E e \in Ends : From(p, e, cnx[e].complete)
-----------------------------------------------------------------------------
(* The frames and the states, spelled out.                                 *)
LEMMA FramesAre ==
  /\ Spaces = {"initial", "handshake", "application"}
  /\ Frames["initial"] = {"CH", "SH", "PI"}
  /\ Frames["handshake"] = {"SF1", "SF2", "CF", "PH"}
  /\ Frames["application"] = {"DONE", "Rc", "Rs"}
  /\ AllFrames = {"CH", "SH", "PI", "SF1", "SF2", "CF", "PH", "DONE", "Rc", "Rs"}
  /\ UNION {Crypto[s] : s \in Spaces} = {"CH", "SH", "SF1", "SF2", "CF"}
  BY DEF Spaces, Frames, AllFrames, Crypto

LEMMA StatesAre ==
  /\ States = EarlyStates \cup {"ready", "disconnecting", "closing_received", "closing",
                                "draining", "disconnected"}
  /\ \A state \in {"server_init", "server_handshake", "server_almost_ready",
                    "server_false_start", "client_init_sent", "client_handshake_start",
                    "client_almost_ready", "client_ready_start", "handshake_failure",
                    "handshake_failure_resend", "ready", "disconnecting", "closing_received",
                    "closing", "draining", "disconnected"} : state \in States
  BY DEF States, Rank, ServerStates, ClientStates, EarlyStates

LEMMA RanksAre ==
  ASSUME NEW k, k.state \in States
  PROVE  /\ Before(k, "ready") <=> k.state \in EarlyStates
         /\ Before(k, "disconnecting") <=> k.state \in EarlyStates \cup {"ready"}
         /\ Before(k, "draining") <=> k.state \notin {"draining", "disconnected"}
         /\ Before(k, "server_false_start") <=>
              k.state \in EarlyStates \ {"server_false_start", "server_almost_ready", "client_ready_start"}
         /\ Before(k, "client_ready_start") <=> k.state \in EarlyStates \ {"client_ready_start"}
         /\ Before(k, "client_almost_ready") <=>
              k.state \in EarlyStates \ {"client_almost_ready", "server_false_start",
                                         "server_almost_ready", "client_ready_start"}
         /\ Before(k, "server_almost_ready") <=>
              k.state \in EarlyStates \ {"server_almost_ready", "client_ready_start"}
         /\ Rank[k.state] <= Rank["client_handshake_start"] <=>
              k.state \in {"client_init", "client_init_sent", "server_none", "server_init",
                           "server_handshake", "client_handshake_start"}
         /\ Rank[k.state] <= Rank["ready"] <=> k.state \in EarlyStates \cup {"ready"}
  BY DEF States, Rank, Before, ServerStates, ClientStates, EarlyStates
-----------------------------------------------------------------------------
(* What a set of numbers holds up to m, when it holds 0 and the successor  *)
(* of what it holds.                                                       *)
LEMMA UpTo ==
  ASSUME NEW m \in Nat, NEW S, 0 \in S, \A n \in 1 .. m : n - 1 \in S => n \in S
  PROVE  \A n \in 0 .. m : n \in S
<1> DEFINE out == (0 .. m) \ S
<1>1. out \subseteq Nat
  OBVIOUS
<1>2. ASSUME out # {}
      PROVE  FALSE
  <2> HIDE DEF out
  <2>1. PICK n \in out : \A i \in out : ~(<<i, n>> \in OpToRel(<, Nat))
    BY <1>1, <1>2, NatLessThanWellFounded, WFMin, Zenon
  <2>2. \A i \in out : ~(i < n)
    BY <1>1, <2>1 DEF OpToRel
  <2>3. n \in 0 .. m /\ n \notin S /\ n # 0
    BY DEF out
  <2>4. n \in 1 .. m /\ n - 1 \in 0 .. m /\ n - 1 < n
    BY <2>3
  <2>5. n - 1 \in S
    BY <2>2, <2>4 DEF out
  <2> QED BY <2>3, <2>4, <2>5
<1> QED BY <1>2

(* The function that Of computes with, on its first m values.              *)
Picks(f, m, q, frames) ==
  f = [n \in 0 .. m |-> IF n = 0 THEN <<>>
                        ELSE IF q[n] \in frames THEN Append(f[n - 1], q[n])
                        ELSE f[n - 1]]

LEMMA PicksExists ==
  ASSUME NEW q, NEW frames, NEW m \in Nat
  PROVE  \E f : Picks(f, m, q, frames)
<1> DEFINE S == {n \in 0 .. m : \E f : Picks(f, n, q, frames)}
<1>1. 0 \in S
  <2> DEFINE f == [n \in 0 .. 0 |-> <<>>]
  <2>1. Picks(f, 0, q, frames)
    BY DEF Picks
  <2> QED BY <2>1
<1>2. ASSUME NEW n \in 1 .. m, n - 1 \in S
      PROVE  n \in S
  <2>1. PICK g : Picks(g, n - 1, q, frames)
    BY <1>2
  <2> DEFINE f == [i \in 0 .. n |-> IF i < n THEN g[i]
                                    ELSE IF q[n] \in frames THEN Append(g[n - 1], q[n])
                                    ELSE g[n - 1]]
  <2>2. \A i \in 0 .. n - 1 : f[i] = g[i] /\ g[i] = IF i = 0 THEN <<>>
                              ELSE IF q[i] \in frames THEN Append(g[i - 1], q[i]) ELSE g[i - 1]
    <3>1. \A i \in 0 .. n - 1 : g[i] = IF i = 0 THEN <<>>
                              ELSE IF q[i] \in frames THEN Append(g[i - 1], q[i]) ELSE g[i - 1]
      BY <2>1, Zenon DEF Picks
    <3>2. \A i \in 0 .. n - 1 : i \in 0 .. n /\ i < n
      OBVIOUS
    <3>3. \A i \in 0 .. n - 1 : f[i] = g[i]
      BY <3>2, Zenon
    <3> QED BY <3>1, <3>3, Zenon
  <2>3. f[n] = IF q[n] \in frames THEN Append(g[n - 1], q[n]) ELSE g[n - 1]
    OBVIOUS
  <2>4. f = [i \in 0 .. n |-> f[i]]
    OBVIOUS
  <2> HIDE DEF f
  <2>5. ASSUME NEW i \in 0 .. n
        PROVE  f[i] = IF i = 0 THEN <<>>
                      ELSE IF q[i] \in frames THEN Append(f[i - 1], q[i]) ELSE f[i - 1]
    <3>1. CASE i = n
      <4>1. f[n - 1] = g[n - 1] /\ n # 0
        BY <2>2
      <4> QED BY <2>3, <3>1, <4>1
    <3>2. CASE i # n /\ i # 0
      <4>1. i \in 0 .. n - 1 /\ i - 1 \in 0 .. n - 1
        BY <3>2
      <4>2. f[i - 1] = g[i - 1] /\ f[i] = g[i]
        BY <2>2, <4>1
      <4> QED BY <2>2, <3>2, <4>1, <4>2
    <3>3. CASE i = 0
      <4>1. 0 \in 0 .. n - 1
        OBVIOUS
      <4> QED BY <2>2, <3>3, <4>1
    <3> QED BY <3>1, <3>2, <3>3
  <2>6. Picks(f, n, q, frames)
    BY <2>4, <2>5, Zenon DEF Picks
  <2> QED BY <2>6
<1>3. \A n \in 0 .. m : n \in S
  <2> HIDE DEF S
  <2> QED BY <1>1, <1>2, UpTo
<1> QED BY <1>3

(* Of, by what it computes.                                                *)
LEMMA OfIs ==
  ASSUME NEW q, NEW frames, Len(q) \in Nat
  PROVE  \E f : /\ f[0] = <<>> /\ Of(q, frames) = f[Len(q)]
                /\ \A n \in 1 .. Len(q) :
                     f[n] = IF q[n] \in frames THEN Append(f[n - 1], q[n]) ELSE f[n - 1]
<1> DEFINE f == CHOOSE h : Picks(h, Len(q), q, frames)
<1>1. Picks(f, Len(q), q, frames)
  BY PicksExists, Zenon
<1>2. Of(q, frames) = f[Len(q)]
  BY Zenon DEF Of, Picks
<1> HIDE DEF f
<1>3. f[0] = <<>>
  BY <1>1 DEF Picks
<1>4. ASSUME NEW n \in 1 .. Len(q)
      PROVE  f[n] = IF q[n] \in frames THEN Append(f[n - 1], q[n]) ELSE f[n - 1]
  <2>1. n \in 0 .. Len(q) /\ n # 0
    OBVIOUS
  <2>2. f[n] = IF n = 0 THEN <<>> ELSE IF q[n] \in frames THEN Append(f[n - 1], q[n]) ELSE f[n - 1]
    BY <1>1, <2>1, Zenon DEF Picks
  <2> QED BY <2>1, <2>2, Zenon
<1> QED BY <1>2, <1>3, <1>4

(* What a queue holds after it was added to, and what Of keeps.            *)
LEMMA HoldsNone == Holds(<<>>) = {}
  BY DEF Holds

LEMMA HoldsFew ==
  ASSUME NEW x, NEW y, NEW z
  PROVE  Holds(<<x>>) = {x} /\ Holds(<<x, y>>) = {x, y} /\ Holds(<<x, y, z>>) = {x, y, z}
  BY DEF Holds

LEMMA HoldsAppend ==
  ASSUME NEW T, NEW q \in Seq(T), NEW x \in T
  PROVE  Append(q, x) \in Seq(T) /\ Holds(Append(q, x)) = Holds(q) \cup {x}
<1>1. \A i \in 1 .. Len(q) : Append(q, x)[i] = q[i]
  OBVIOUS
<1>2. Append(q, x)[Len(q) + 1] = x /\ Len(Append(q, x)) = Len(q) + 1 /\ Len(q) \in Nat
  OBVIOUS
<1>3. 1 .. Len(q) + 1 = (1 .. Len(q)) \cup {Len(q) + 1}
  BY <1>2
<1> QED BY <1>1, <1>2, <1>3 DEF Holds

LEMMA HoldsConcat ==
  ASSUME NEW T, NEW p \in Seq(T), NEW q \in Seq(T)
  PROVE  p \o q \in Seq(T) /\ Holds(p \o q) = Holds(p) \cup Holds(q)
<1> DEFINE r == p \o q
<1>1. /\ Len(r) = Len(p) + Len(q) /\ Len(p) \in Nat /\ Len(q) \in Nat /\ r \in Seq(T)
      /\ \A i \in 1 .. Len(p) : r[i] = p[i]
      /\ \A i \in 1 .. Len(q) : r[i + Len(p)] = q[i]
  OBVIOUS
<1> HIDE DEF r
<1>2. \A i \in 1 .. Len(r) : i \in 1 .. Len(p)
                             \/ (i - Len(p) \in 1 .. Len(q) /\ r[i] = q[i - Len(p)])
  <2>1. \A i \in 1 .. Len(r) : i \in 1 .. Len(p)
                               \/ (i - Len(p) \in 1 .. Len(q) /\ (i - Len(p)) + Len(p) = i)
    BY <1>1
  <2> QED BY <1>1, <2>1
<1>3. \A i \in 1 .. Len(p) : i \in 1 .. Len(r)
  BY <1>1
<1>4. \A i \in 1 .. Len(q) : i + Len(p) \in 1 .. Len(r)
  BY <1>1
<1>5. \A y \in Holds(r) : y \in Holds(p) \cup Holds(q)
  BY <1>1, <1>2 DEF Holds
<1>6. \A y \in Holds(p) : y \in Holds(r)
  BY <1>1, <1>3 DEF Holds
<1>7. \A y \in Holds(q) : y \in Holds(r)
  BY <1>1, <1>4 DEF Holds
<1>8. Holds(r) = Holds(p) \cup Holds(q)
  BY <1>5, <1>6, <1>7
<1> QED BY <1>1, <1>8 DEF r

LEMMA HoldsIn ==
  ASSUME NEW T, NEW q \in Seq(T)
  PROVE  Holds(q) \subseteq T /\ (q # <<>> => Head(q) \in Holds(q))
<1>1. q # <<>> => 1 \in 1 .. Len(q) /\ Head(q) = q[1]
  OBVIOUS
<1> QED BY <1>1 DEF Holds

LEMMA OfHolds ==
  ASSUME NEW T, NEW q \in Seq(T), NEW frames
  PROVE  Of(q, frames) \in Seq(T) /\ Holds(Of(q, frames)) \subseteq Holds(q) \cap frames
<1>1. Len(q) \in Nat
  OBVIOUS
<1>2. PICK f : /\ f[0] = <<>> /\ Of(q, frames) = f[Len(q)]
               /\ \A n \in 1 .. Len(q) :
                    f[n] = IF q[n] \in frames THEN Append(f[n - 1], q[n]) ELSE f[n - 1]
  BY <1>1, OfIs
<1> DEFINE S == {n \in 0 .. Len(q) : f[n] \in Seq(T) /\ Holds(f[n]) \subseteq Holds(q) \cap frames}
<1>3. 0 \in S
  <2>1. f[0] \in Seq(T) /\ Holds(f[0]) = {}
    BY <1>2 DEF Holds
  <2>2. 0 \in 0 .. Len(q)
    BY <1>1
  <2> QED BY <2>1, <2>2, Zenon
<1>4. ASSUME NEW n \in 1 .. Len(q), n - 1 \in S
      PROVE  n \in S
  <2>1. f[n - 1] \in Seq(T) /\ Holds(f[n - 1]) \subseteq Holds(q) \cap frames
    BY <1>4
  <2>2. q[n] \in T /\ q[n] \in Holds(q)
    BY DEF Holds
  <2>3. CASE q[n] \in frames
    <3>1. f[n] = Append(f[n - 1], q[n])
      BY <1>2, <2>3
    <3>2. /\ Append(f[n - 1], q[n]) \in Seq(T)
          /\ Holds(Append(f[n - 1], q[n])) = Holds(f[n - 1]) \cup {q[n]}
      BY <2>1, <2>2, HoldsAppend
    <3>3. n \in 0 .. Len(q)
      OBVIOUS
    <3> HIDE DEF S
    <3>4. f[n] \in Seq(T) /\ Holds(f[n]) \subseteq Holds(q) \cap frames
      BY <2>1, <2>2, <2>3, <3>1, <3>2
    <3> QED BY <3>3, <3>4 DEF S
  <2>4. CASE q[n] \notin frames
    <3>1. f[n] = f[n - 1]
      BY <1>2, <2>4
    <3> QED BY <2>1, <3>1
  <2> QED BY <2>3, <2>4
<1>5. \A n \in 0 .. Len(q) : n \in S
  <2> HIDE DEF S
  <2> QED BY <1>1, <1>3, <1>4, UpTo
<1>6. Len(q) \in 0 .. Len(q)
  OBVIOUS
<1> QED BY <1>2, <1>5, <1>6

LEMMA OfAll ==
  ASSUME NEW q \in Seq(AllFrames)
  PROVE  Without(q, {}) = q
<1>1. Len(q) \in Nat
  OBVIOUS
<1>2. PICK f : /\ f[0] = <<>> /\ Of(q, AllFrames) = f[Len(q)]
               /\ \A n \in 1 .. Len(q) :
                    f[n] = IF q[n] \in AllFrames THEN Append(f[n - 1], q[n]) ELSE f[n - 1]
  BY <1>1, OfIs
<1> DEFINE S == {n \in 0 .. Len(q) : f[n] = SubSeq(q, 1, n)}
<1>3. 0 \in S
  <2>1. f[0] = SubSeq(q, 1, 0)
    BY <1>2
  <2>2. 0 \in 0 .. Len(q)
    BY <1>1
  <2> QED BY <2>1, <2>2, Zenon
<1>4. ASSUME NEW n \in 1 .. Len(q), n - 1 \in S
      PROVE  n \in S
  <2>1. f[n - 1] = SubSeq(q, 1, n - 1)
    BY <1>4, Zenon
  <2>2. q[n] \in AllFrames
    OBVIOUS
  <2>3. f[n] = Append(SubSeq(q, 1, n - 1), q[n])
    BY <1>2, <2>1, <2>2
  <2>4. Append(SubSeq(q, 1, n - 1), q[n]) = SubSeq(q, 1, n)
    OBVIOUS
  <2>5. n \in 0 .. Len(q)
    OBVIOUS
  <2> HIDE DEF S
  <2> QED BY <2>3, <2>4, <2>5, Zenon DEF S
<1>5. \A n \in 0 .. Len(q) : n \in S
  <2> HIDE DEF S
  <2> QED BY <1>1, <1>3, <1>4, UpTo
<1>6. Len(q) \in 0 .. Len(q) /\ SubSeq(q, 1, Len(q)) = q
  OBVIOUS
<1>7. AllFrames \ {} = AllFrames
  OBVIOUS
<1> QED BY <1>2, <1>5, <1>6, <1>7 DEF Without

LEMMA WithoutHolds ==
  ASSUME NEW q \in Seq(AllFrames), NEW frames
  PROVE  /\ Without(q, frames) \in Seq(AllFrames)
         /\ Holds(Without(q, frames)) \subseteq Holds(q) \ frames
<1>1. /\ Of(q, AllFrames \ frames) \in Seq(AllFrames)
      /\ Holds(Of(q, AllFrames \ frames)) \subseteq Holds(q) \cap (AllFrames \ frames)
  BY OfHolds
<1> QED BY <1>1 DEF Without

LEMMA WithinHolds ==
  ASSUME NEW q \in Seq(AllFrames), NEW space
  PROVE  /\ Within(q, space) \in Seq(AllFrames)
         /\ Holds(Within(q, space)) \subseteq Holds(q) \cap Frames[space]
         /\ Within(q, space) # <<>> => Head(Within(q, space)) \in Holds(q) \cap Frames[space]
<1>1. /\ Of(q, Frames[space]) \in Seq(AllFrames)
      /\ Holds(Of(q, Frames[space])) \subseteq Holds(q) \cap Frames[space]
  BY OfHolds
<1>2. Of(q, Frames[space]) # <<>> => Head(Of(q, Frames[space])) \in Holds(Of(q, Frames[space]))
  BY <1>1, HoldsIn
<1> QED BY <1>1, <1>2 DEF Within
-----------------------------------------------------------------------------
(* A handler leaves a connection as good as it was, at the same end, and   *)
(* TLS complete if it was.                                                 *)
Becomes(k, r, peer) == Good(r, peer) /\ r.end = k.end /\ (k.complete => r.complete)

LEMMA BecomesNothing ==
  ASSUME NEW k, NEW peer, Good(k, peer)
  PROVE  Becomes(k, k, peer)
  BY DEF Becomes

LEMMA BecomesMore ==
  ASSUME NEW k, NEW r, NEW t, NEW peer, Becomes(k, r, peer), Becomes(r, t, peer)
  PROVE  Becomes(k, t, peer)
  BY DEF Becomes, Good, TypesOK

(* What the other end completed, it has completed for good.                *)
LEMMA GoodForMore ==
  ASSUME NEW k, NEW peer \in BOOLEAN, NEW after \in BOOLEAN, peer => after, Good(k, peer)
  PROVE  Good(k, after)
  BY DEF Good, AgreesWith, From

LEMMA DisconnectIsGood ==
  ASSUME NEW k, NEW peer \in BOOLEAN, Good(k, peer)
  PROVE  /\ Becomes(k, Disconnect(k), peer)
         /\ Disconnect(k).state = "disconnected"
<1> SUFFICES ASSUME NEW r, r = Disconnect(k)
             PROVE  /\ Becomes(k, r, peer)
                    /\ r.state = "disconnected"
  OBVIOUS
<1>1. /\ SameBut(k, r, {"state", "closed", "informed"})
      /\ r.state = "disconnected"
      /\ r.informed = TRUE \/ r = k
      /\ r.closed = IF k.state = "disconnected" THEN k.closed ELSE k.closed + 1
  BY DEF Disconnect, Good, TypesOK, SameBut, Whole, Fields
<1>2. /\ TypesOK(k) /\ KeysOK(k) /\ StateOK(k) /\ QueuesOK(k) /\ ReportsOK(k)
      /\ AgreesWith(k, peer)
  BY DEF Good
<1>3. r.end = k.end /\ (k.complete => r.complete)
  BY <1>1, <1>2 DEF TypesOK, SameBut, Fields
<1>4. /\ r.state \in EarlyStates => k.state \in EarlyStates
      /\ k.state = "disconnected" => r.state = "disconnected"
  BY <1>1 DEF SameBut, Fields, EarlyStates, ServerStates, ClientStates
<1>5. TypesOK(r)
  BY <1>1, <1>2, StatesAre DEF TypesOK, SameBut, Fields
<1>6. KeysOK(r)
  BY <1>1, <1>2, <1>4 DEF KeysOK, StateOK, SameBut, Fields
<1>7. StateOK(r)
  BY <1>1, <1>2 DEF StateOK, KeysOK, SameBut, Fields, EarlyStates, ServerStates, ClientStates
<1>8. QueuesOK(r)
  BY <1>1, <1>2 DEF QueuesOK, SameBut, Fields
<1>9. ReportsOK(r)
  BY <1>1, <1>2, <1>4 DEF ReportsOK, SameBut, Fields
<1>10. AgreesWith(r, peer)
  BY <1>1, <1>2 DEF AgreesWith, SameBut, Fields
<1> QED BY <1>1, <1>3, <1>5, <1>6, <1>7, <1>8, <1>9, <1>10 DEF Becomes, Good

LEMMA ConnectionErrorIsGood ==
  ASSUME NEW k, NEW peer \in BOOLEAN, Good(k, peer)
  PROVE  Becomes(k, ConnectionError(k), peer)
<1> SUFFICES ASSUME NEW r, r = ConnectionError(k)
             PROVE  Becomes(k, r, peer)
  OBVIOUS
<1>1. /\ SameBut(k, r, {"state"})
      /\ r.state = IF k.state \in {"ready", "client_ready_start", "server_false_start"}
                   THEN "disconnecting"
                   ELSE IF Before(k, "server_false_start")
                           /\ k.state \notin {"handshake_failure", "handshake_failure_resend"}
                   THEN "handshake_failure" ELSE k.state
  BY DEF ConnectionError, Failing, Good, TypesOK, SameBut, Whole, Fields
<1>2. k.state # r.state =>
        \/ r.state = "handshake_failure" /\ k.state \in EarlyStates
        \/ /\ r.state = "disconnecting"
           /\ k.state \in {"ready", "client_ready_start", "server_false_start"}
  BY <1>1, RanksAre DEF Good, TypesOK
<1>3. /\ TypesOK(k) /\ KeysOK(k) /\ StateOK(k) /\ QueuesOK(k) /\ ReportsOK(k)
      /\ AgreesWith(k, peer)
  BY DEF Good
<1>4. r.end = k.end /\ (k.complete => r.complete)
  BY <1>1, <1>2, <1>3 DEF TypesOK, SameBut, Fields
<1>5. /\ r.state \in EarlyStates => k.state \in EarlyStates
      /\ k.state = "disconnected" => r.state = "disconnected"
  BY <1>1, <1>2 DEF SameBut, Fields, EarlyStates, ServerStates, ClientStates
<1>6. TypesOK(r)
  BY <1>1, <1>2, <1>3, StatesAre DEF TypesOK, SameBut, Fields
<1>7. KeysOK(r)
  BY <1>1, <1>2, <1>3, <1>5 DEF KeysOK, StateOK, SameBut, Fields
<1>8. StateOK(r)
  BY <1>1, <1>2, <1>3 DEF StateOK, KeysOK, SameBut, Fields, EarlyStates, ServerStates, ClientStates
<1>9. QueuesOK(r)
  BY <1>1, <1>2, <1>3 DEF QueuesOK, SameBut, Fields
<1>10. ReportsOK(r)
  BY <1>1, <1>2, <1>3, <1>5 DEF ReportsOK, SameBut, Fields
<1>11. AgreesWith(r, peer)
  BY <1>1, <1>2, <1>3 DEF AgreesWith, SameBut, Fields
<1> QED BY <1>1, <1>4, <1>6, <1>7, <1>8, <1>9, <1>10, <1>11, <1>2 DEF Becomes, Good

LEMMA ImplicitAckIsGood ==
  ASSUME NEW k, NEW peer \in BOOLEAN, Good(k, peer),
         NEW space
  PROVE  /\ Becomes(k, ImplicitAck(k, space), peer)
         /\ SameBut(k, ImplicitAck(k, space), {"pending"})
<1> SUFFICES ASSUME NEW r, r = ImplicitAck(k, space)
             PROVE  /\ Becomes(k, r, peer)
                    /\ SameBut(k, r, {"pending"})
  OBVIOUS
<1>1. /\ SameBut(k, r, {"pending"})
      /\ r.pending = Without(k.pending, Frames[space])
  BY DEF ImplicitAck, Good, TypesOK, SameBut, Whole, Fields
<1>2. r.pending \in Seq(AllFrames) /\ Holds(r.pending) \subseteq Holds(k.pending)
  BY <1>1, WithoutHolds DEF Good, TypesOK
<1>3. /\ TypesOK(k) /\ KeysOK(k) /\ StateOK(k) /\ QueuesOK(k) /\ ReportsOK(k)
      /\ AgreesWith(k, peer)
  BY DEF Good
<1>4. r.end = k.end /\ (k.complete => r.complete)
  BY <1>1, <1>2, <1>3 DEF TypesOK, SameBut, Fields
<1>5. /\ r.state \in EarlyStates => k.state \in EarlyStates
      /\ k.state = "disconnected" => r.state = "disconnected"
  BY <1>1, <1>2 DEF SameBut, Fields, EarlyStates, ServerStates, ClientStates
<1>6. TypesOK(r)
  BY <1>1, <1>2, <1>3, StatesAre DEF TypesOK, SameBut, Fields
<1>7. KeysOK(r)
  BY <1>1, <1>2, <1>3, <1>5 DEF KeysOK, StateOK, SameBut, Fields
<1>8. StateOK(r)
  BY <1>1, <1>2, <1>3 DEF StateOK, KeysOK, SameBut, Fields, EarlyStates, ServerStates, ClientStates
<1>9. QueuesOK(r)
  BY <1>1, <1>2, <1>3 DEF QueuesOK, SameBut, Fields
<1>10. ReportsOK(r)
  BY <1>1, <1>2, <1>3, <1>5 DEF ReportsOK, SameBut, Fields
<1>11. AgreesWith(r, peer)
  BY <1>1, <1>2, <1>3 DEF AgreesWith, SameBut, Fields
<1> QED BY <1>1, <1>4, <1>6, <1>7, <1>8, <1>9, <1>10, <1>11, <1>2 DEF Becomes, Good

LEMMA FreeInitialIsGood ==
  ASSUME NEW k, NEW peer \in BOOLEAN, Good(k, peer),
         "handshake" \in k.enc \cap k.heard
  PROVE  /\ Becomes(k, FreeKeys(k, {"initial"}), peer)
         /\ SameBut(k, FreeKeys(k, {"initial"}), {"enc", "dec", "ack_needed"})
         /\ FreeKeys(k, {"initial"}).dec = k.dec \ {"initial"}
<1> SUFFICES ASSUME NEW r, r = FreeKeys(k, {"initial"})
             PROVE  /\ Becomes(k, r, peer)
                    /\ SameBut(k, r, {"enc", "dec", "ack_needed"})
                    /\ r.dec = k.dec \ {"initial"}
  OBVIOUS
<1>1. /\ SameBut(k, r, {"enc", "dec", "ack_needed"})
      /\ r.enc = k.enc \ {"initial"} /\ r.dec = k.dec \ {"initial"}
  BY DEF FreeKeys, Good, TypesOK, SameBut, Whole, Fields
<1>2. /\ TypesOK(k) /\ KeysOK(k) /\ StateOK(k) /\ QueuesOK(k) /\ ReportsOK(k)
      /\ AgreesWith(k, peer)
  BY DEF Good
<1>3. r.end = k.end /\ (k.complete => r.complete)
  BY <1>1, <1>2 DEF TypesOK, SameBut, Fields
<1>4. /\ r.state \in EarlyStates => k.state \in EarlyStates
      /\ k.state = "disconnected" => r.state = "disconnected"
  BY <1>1 DEF SameBut, Fields, EarlyStates, ServerStates, ClientStates
<1>5. TypesOK(r)
  BY <1>1, <1>2, StatesAre DEF TypesOK, SameBut, Fields
<1>6. KeysOK(r)
  BY <1>1, <1>2, <1>4 DEF KeysOK, StateOK, SameBut, Fields
<1>7. StateOK(r)
  BY <1>1, <1>2 DEF StateOK, KeysOK, SameBut, Fields, EarlyStates, ServerStates, ClientStates
<1>8. QueuesOK(r)
  BY <1>1, <1>2 DEF QueuesOK, SameBut, Fields
<1>9. ReportsOK(r)
  BY <1>1, <1>2, <1>4 DEF ReportsOK, SameBut, Fields
<1>10. AgreesWith(r, peer)
  BY <1>1, <1>2 DEF AgreesWith, SameBut, Fields
<1> QED BY <1>1, <1>3, <1>5, <1>6, <1>7, <1>8, <1>9, <1>10 DEF Becomes, Good

LEMMA FalseStartIsGood ==
  ASSUME NEW k, NEW peer \in BOOLEAN, Good(k, peer),
         k.state \in ServerStates,
         "application" \in k.enc
  PROVE  Becomes(k, FalseStartTransition(k), peer)
<1> SUFFICES ASSUME NEW r, r = FalseStartTransition(k)
             PROVE  Becomes(k, r, peer)
  OBVIOUS
<1>1. /\ SameBut(k, r, {"state"})
      /\ r.state = "server_false_start"
  BY DEF FalseStartTransition, Good, TypesOK, SameBut, Whole, Fields
<1>2. /\ TypesOK(k) /\ KeysOK(k) /\ StateOK(k) /\ QueuesOK(k) /\ ReportsOK(k)
      /\ AgreesWith(k, peer)
  BY DEF Good
<1>3. r.end = k.end /\ (k.complete => r.complete)
  BY <1>1, <1>2 DEF TypesOK, SameBut, Fields
<1>4. /\ r.state \in EarlyStates => k.state \in EarlyStates
      /\ k.state = "disconnected" => r.state = "disconnected"
  BY <1>1 DEF SameBut, Fields, EarlyStates, ServerStates, ClientStates
<1>5. TypesOK(r)
  BY <1>1, <1>2, StatesAre DEF TypesOK, SameBut, Fields
<1>6. KeysOK(r)
  BY <1>1, <1>2, <1>4 DEF KeysOK, StateOK, SameBut, Fields
<1>7. StateOK(r)
  BY <1>1, <1>2 DEF StateOK, KeysOK, SameBut, Fields, EarlyStates, ServerStates, ClientStates
<1>8. QueuesOK(r)
  BY <1>1, <1>2 DEF QueuesOK, SameBut, Fields
<1>9. ReportsOK(r)
  BY <1>1, <1>2, <1>4 DEF ReportsOK, SameBut, Fields
<1>10. AgreesWith(r, peer)
  BY <1>1, <1>2 DEF AgreesWith, SameBut, Fields
<1> QED BY <1>1, <1>3, <1>5, <1>6, <1>7, <1>8, <1>9, <1>10 DEF Becomes, Good

LEMMA ResetIsGood ==
  ASSUME NEW k, NEW peer \in BOOLEAN, Good(k, peer),
         k.state = "client_init_sent"
  PROVE  Becomes(k, ResetCnx(k), peer)
<1> SUFFICES ASSUME NEW r, r = ResetCnx(k)
             PROVE  Becomes(k, r, peer)
  OBVIOUS
<1>1. /\ Whole(r)
      /\ r.end = k.end /\ r.state = k.state /\ r.token = TRUE
      /\ r.queue = IF k.end = "c" THEN <<"CH", "Rc">> ELSE <<"Rs">>
      /\ r.pending = <<>> /\ r.sooner = <<>> /\ r.got = {}
      /\ r.enc = {"initial"} /\ r.dec = {"initial"} /\ r.complete = FALSE
      /\ r.is_ready = 0 /\ r.closed = 0
  BY DEF ResetCnx, Created, Good, TypesOK, SameBut, Whole, Fields
<1>2. /\ r.queue \in Seq(AllFrames) /\ r.pending \in Seq(AllFrames) /\ r.sooner \in Seq(Packet)
      /\ r.got \subseteq AllFrames
      /\ Holds(r.queue) = IF r.end = "c" THEN {"CH", "Rc"} ELSE {"Rs"}
      /\ Holds(r.queue) \subseteq QueuedBy(r.end) /\ Holds(r.pending) = {} /\ Holds(r.sooner) = {}
  <2>1. Holds(r.queue) = IF r.end = "c" THEN {"CH", "Rc"} ELSE {"Rs"}
    <3>1. Holds(<<"CH", "Rc">>) = {"CH", "Rc"} /\ Holds(<<"Rs">>) = {"Rs"}
      BY HoldsFew, Zenon
    <3> QED BY <1>1, <3>1
  <2>2. Holds(r.pending) = {} /\ Holds(r.sooner) = {}
    BY <1>1, HoldsNone
  <2>3. /\ r.queue \in Seq(AllFrames) /\ r.pending \in Seq(AllFrames) /\ r.sooner \in Seq(Packet)
        /\ r.got \subseteq AllFrames
    <3>1. "CH" \in AllFrames /\ "Rc" \in AllFrames /\ "Rs" \in AllFrames
      BY FramesAre
    <3>2. r.queue \in Seq(AllFrames)
      BY <1>1, <3>1
    <3>3. r.pending \in Seq(AllFrames) /\ r.sooner \in Seq(Packet) /\ r.got \subseteq AllFrames
      BY <1>1
    <3> QED BY <3>2, <3>3
  <2>4. Holds(r.queue) \subseteq QueuedBy(r.end)
    BY <1>1, <2>1 DEF QueuedBy
  <2> QED BY <2>1, <2>2, <2>3, <2>4
<1>3. /\ TypesOK(k) /\ KeysOK(k) /\ StateOK(k) /\ QueuesOK(k) /\ ReportsOK(k)
      /\ AgreesWith(k, peer)
  BY DEF Good
<1>4. r.end = k.end /\ (k.complete => r.complete)
  BY <1>1, <1>2, <1>3 DEF TypesOK, StateOK, SameBut, Fields
<1>5. /\ r.state \in EarlyStates => k.state \in EarlyStates
      /\ k.state = "disconnected" => r.state = "disconnected"
  BY <1>1, <1>2 DEF SameBut, Fields, EarlyStates, ServerStates, ClientStates
<1>6. TypesOK(r)
  BY <1>1, <1>2, <1>3, StatesAre DEF TypesOK, SameBut, Fields
<1>7. KeysOK(r)
  BY <1>1, <1>2, <1>3, <1>5 DEF KeysOK, StateOK, SameBut, Fields
<1>8. StateOK(r)
  BY <1>1, <1>2, <1>3 DEF StateOK, KeysOK, SameBut, Fields, EarlyStates, ServerStates, ClientStates
<1>9. QueuesOK(r)
  BY <1>1, <1>2, <1>3 DEF QueuesOK, SameBut, Fields
<1>10. ReportsOK(r)
  BY <1>1, <1>2, <1>3, <1>5 DEF ReportsOK, SameBut, Fields
<1>11. AgreesWith(r, peer)
  BY <1>1, <1>2, <1>3 DEF AgreesWith, SameBut, Fields
<1> QED BY <1>1, <1>4, <1>6, <1>7, <1>8, <1>9, <1>10, <1>11, <1>2 DEF Becomes, Good

LEMMA FreeKeysSame ==
  ASSUME NEW k, Whole(k), NEW spaces
  PROVE  /\ SameBut(k, FreeKeys(k, spaces), {"enc", "dec", "ack_needed"})
         /\ FreeKeys(k, spaces).enc = k.enc \ spaces /\ FreeKeys(k, spaces).dec = k.dec \ spaces
  BY DEF FreeKeys, SameBut, Whole, Fields

LEMMA KeysSame ==
  ASSUME NEW k, Whole(k), NEW enc, NEW dec
  PROVE  /\ SameBut(k, Keys(k, enc, dec), {"enc", "dec", "recycle"})
         /\ Keys(k, enc, dec).enc = k.enc \cup enc /\ Keys(k, enc, dec).dec = k.dec \cup dec
  BY DEF Keys, SameBut, Whole, Fields

LEMMA ReadyIsGood ==
  ASSUME NEW k, NEW peer \in BOOLEAN, Good(k, peer),
         k.state \in EarlyStates,
         k.complete,
         peer
  PROVE  /\ Becomes(k, ReadyStateTransition(k), peer)
         /\ ReadyStateTransition(k).state = "ready"
<1> SUFFICES ASSUME NEW r, r = ReadyStateTransition(k)
             PROVE  /\ Becomes(k, r, peer)
                    /\ r.state = "ready"
  OBVIOUS
<1>1. /\ SameBut(k, r, {"state", "is_ready", "queue", "pending", "enc", "dec", "ack_needed"})
      /\ r.state = "ready" /\ r.is_ready = k.is_ready + 1
      /\ r.queue = (IF k.end = "c" THEN <<>> ELSE <<"DONE">>) \o Within(k.queue, "application")
      /\ r.pending = Without(Without(k.pending, Frames["initial"]), Frames["handshake"])
      /\ r.enc = k.enc \ {"initial", "handshake"} /\ r.dec = k.dec \ {"initial", "handshake"}
  <2> DEFINE acked == ImplicitAck(ImplicitAck(k, "initial"), "handshake")
             done == IF k.end = "c" THEN <<>> ELSE <<"DONE">>
             at == [acked EXCEPT !.state = "ready", !.is_ready = @ + 1,
                                 !.queue = done \o Within(@, "application")]
  <2>1. Whole(k)
    BY DEF Good, TypesOK
  <2>2. /\ SameBut(k, acked, {"pending"})
        /\ acked.pending = Without(Without(k.pending, Frames["initial"]), Frames["handshake"])
    BY <2>1 DEF ImplicitAck, SameBut, Whole, Fields
  <2>3. r = FreeKeys(at, {"initial", "handshake"})
    BY DEF ReadyStateTransition, IsClient
  <2> HIDE DEF acked, done
  <2>4. /\ SameBut(acked, at, {"state", "is_ready", "queue"})
        /\ at.state = "ready" /\ at.is_ready = acked.is_ready + 1
        /\ at.queue = done \o Within(acked.queue, "application")
    BY <2>2 DEF SameBut, Whole, Fields
  <2> HIDE DEF at
  <2>5. /\ SameBut(at, r, {"enc", "dec", "ack_needed"})
        /\ r.enc = at.enc \ {"initial", "handshake"} /\ r.dec = at.dec \ {"initial", "handshake"}
    BY <2>3, <2>4, FreeKeysSame DEF SameBut
  <2>6. r.queue = done \o Within(k.queue, "application")
    BY <2>2, <2>4, <2>5 DEF SameBut, Fields
  <2> QED BY <2>2, <2>4, <2>5, <2>6 DEF SameBut, Fields, done
<1>2. /\ r.queue \in Seq(AllFrames) /\ r.pending \in Seq(AllFrames)
      /\ Holds(r.queue) \subseteq (IF k.end = "c" THEN {} ELSE {"DONE"}) \cup (Holds(k.queue) \cap Frames["application"])
      /\ Holds(r.pending) \subseteq Holds(k.pending)
      /\ k.is_ready = 0 /\ r.state \notin EarlyStates /\ k.state # "disconnected"
  <2>1. k.is_ready = 0 /\ r.state \notin EarlyStates /\ k.state # "disconnected"
    BY <1>1 DEF Good, ReportsOK, EarlyStates, ServerStates, ClientStates
  <2>2. /\ k.queue \in Seq(AllFrames) /\ k.pending \in Seq(AllFrames)
    BY DEF Good, TypesOK
  <2>3. /\ Within(k.queue, "application") \in Seq(AllFrames)
        /\ Holds(Within(k.queue, "application")) \subseteq Holds(k.queue) \cap Frames["application"]
    BY <2>2, WithinHolds, Zenon
  <2>4. /\ (IF k.end = "c" THEN <<>> ELSE <<"DONE">>) \in Seq(AllFrames)
        /\ Holds(IF k.end = "c" THEN <<>> ELSE <<"DONE">>) = IF k.end = "c" THEN {} ELSE {"DONE"}
    <3>1. Holds(<<"DONE">>) = {"DONE"} /\ "DONE" \in AllFrames
      BY HoldsFew, FramesAre, Zenon
    <3>2. <<"DONE">> \in Seq(AllFrames) /\ <<>> \in Seq(AllFrames)
      BY <3>1
    <3> QED BY <3>1, <3>2, HoldsNone
  <2>5. /\ r.queue \in Seq(AllFrames)
        /\ Holds(r.queue) = Holds(IF k.end = "c" THEN <<>> ELSE <<"DONE">>)
                            \cup Holds(Within(k.queue, "application"))
    <3> DEFINE done == IF k.end = "c" THEN <<>> ELSE <<"DONE">>
               rest == Within(k.queue, "application")
    <3>1. r.queue = done \o rest /\ done \in Seq(AllFrames) /\ rest \in Seq(AllFrames)
      BY <1>1, <2>3, <2>4
    <3> HIDE DEF done, rest
    <3>2. r.queue \in Seq(AllFrames) /\ Holds(r.queue) = Holds(done) \cup Holds(rest)
      BY <3>1, HoldsConcat
    <3> QED BY <3>2 DEF done, rest
  <2>6. /\ Without(k.pending, Frames["initial"]) \in Seq(AllFrames)
        /\ Holds(Without(k.pending, Frames["initial"])) \subseteq Holds(k.pending)
    BY <2>2, WithoutHolds
  <2>7. /\ r.pending \in Seq(AllFrames)
        /\ Holds(r.pending) \subseteq Holds(Without(k.pending, Frames["initial"]))
    BY <1>1, <2>6, WithoutHolds
  <2> QED BY <2>1, <2>3, <2>4, <2>5, <2>6, <2>7
<1>3. /\ TypesOK(k) /\ KeysOK(k) /\ StateOK(k) /\ QueuesOK(k) /\ ReportsOK(k)
      /\ AgreesWith(k, peer)
  BY DEF Good
<1>4. r.end = k.end /\ (k.complete => r.complete)
  BY <1>1, <1>2, <1>3 DEF TypesOK, SameBut, Fields
<1>5. /\ r.state \in EarlyStates => k.state \in EarlyStates
      /\ k.state = "disconnected" => r.state = "disconnected"
  BY <1>1, <1>2 DEF SameBut, Fields, EarlyStates, ServerStates, ClientStates
<1>6. TypesOK(r)
  <2>1. Whole(r) /\ r.end = k.end /\ r.got = k.got /\ r.complete = k.complete /\ r.token = k.token
        /\ r.sooner = k.sooner
    BY <1>1 DEF SameBut, Fields
  <2>2. r.state \in States
    BY <1>1, StatesAre
  <2> QED BY <1>2, <1>3, <2>1, <2>2 DEF TypesOK
<1>7. KeysOK(r)
  BY <1>1, <1>2, <1>3, <1>5 DEF KeysOK, StateOK, SameBut, Fields
<1>8. StateOK(r)
  BY <1>1, <1>2, <1>3 DEF StateOK, KeysOK, SameBut, Fields, EarlyStates, ServerStates, ClientStates
<1>9. QueuesOK(r)
  BY <1>1, <1>2, <1>3, FramesAre DEF QueuesOK, SameBut, Fields, QueuedBy
<1>10. ReportsOK(r)
  BY <1>1, <1>2, <1>3, <1>5 DEF ReportsOK, SameBut, Fields
<1>11. AgreesWith(r, peer)
  BY <1>1, <1>2, <1>3 DEF AgreesWith, SameBut, Fields
<1> QED BY <1>1, <1>4, <1>6, <1>7, <1>8, <1>9, <1>10, <1>11, <1>2 DEF Becomes, Good

LEMMA ServerHelloIsGood ==
  ASSUME NEW k, NEW peer \in BOOLEAN, Good(k, peer),
         k.end = "s"
  PROVE  Becomes(k, ServerHello(k), peer)
<1> SUFFICES ASSUME NEW r, r = ServerHello(k)
             PROVE  Becomes(k, r, peer)
  OBVIOUS
<1>1. /\ SameBut(k, r, {"enc", "dec", "recycle", "queue", "state"})
      /\ r.enc = k.enc \cup {"handshake", "application"} /\ r.dec = k.dec \cup {"handshake"}
      /\ r.queue = <<"SH", "SF1", "SF2">> \o k.queue
      /\ r.state = IF k.state \in {"server_init", "server_handshake"}
                   THEN "server_almost_ready" ELSE k.state
  <2>1. Whole(k)
    BY DEF Good, TypesOK
  <2>2. PICK keyed : keyed = Keys(k, {"handshake", "application"}, {"handshake"})
    OBVIOUS
  <2>3. /\ SameBut(k, keyed, {"enc", "dec", "recycle"})
        /\ keyed.enc = k.enc \cup {"handshake", "application"} /\ keyed.dec = k.dec \cup {"handshake"}
    BY <2>1, <2>2, KeysSame
  <2>4. r = [keyed EXCEPT !.queue = <<"SH", "SF1", "SF2">> \o @,
                          !.state = IF @ \in {"server_init", "server_handshake"}
                                    THEN "server_almost_ready" ELSE @]
    BY <2>2, Zenon DEF ServerHello
  <2>5. PICK q, s : /\ q = <<"SH", "SF1", "SF2">> \o keyed.queue
                    /\ s = IF keyed.state \in {"server_init", "server_handshake"}
                           THEN "server_almost_ready" ELSE keyed.state
    OBVIOUS
  <2>6. r = [keyed EXCEPT !.queue = q, !.state = s]
    BY <2>4, <2>5
  <2>7. SameBut(keyed, r, {"queue", "state"}) /\ r.queue = q /\ r.state = s
    <3>1. Whole(keyed)
      BY <2>3 DEF SameBut
    <3>2. PICK h : h = [keyed EXCEPT !.queue = q]
      OBVIOUS
    <3>3. SameBut(keyed, h, {"queue"}) /\ h.queue = q
      BY <3>1, <3>2 DEF SameBut, Whole, Fields
    <3>4. r = [h EXCEPT !.state = s]
      BY <2>6, <3>2
    <3>5. SameBut(h, r, {"state"}) /\ r.state = s
      BY <3>3, <3>4 DEF SameBut, Whole, Fields
    <3> QED BY <3>3, <3>5 DEF SameBut, Fields
  <2> QED BY <2>3, <2>5, <2>7 DEF SameBut, Fields
<1>2. /\ r.queue \in Seq(AllFrames)
      /\ Holds(r.queue) = {"SH", "SF1", "SF2"} \cup Holds(k.queue)
  <2>1. k.queue \in Seq(AllFrames)
    BY DEF Good, TypesOK
  <2>2. Holds(<<"SH", "SF1", "SF2">>) = {"SH", "SF1", "SF2"}
    BY DEF Holds
  <2>3. "SH" \in AllFrames /\ "SF1" \in AllFrames /\ "SF2" \in AllFrames
    BY FramesAre
  <2>4. <<"SH", "SF1", "SF2">> \in Seq(AllFrames)
    BY <2>3
  <2> DEFINE flight == <<"SH", "SF1", "SF2">>
  <2>5. flight \in Seq(AllFrames) /\ r.queue = flight \o k.queue
    BY <1>1, <2>4
  <2> HIDE DEF flight
  <2>6. r.queue \in Seq(AllFrames) /\ Holds(r.queue) = Holds(flight) \cup Holds(k.queue)
    BY <2>1, <2>5, HoldsConcat
  <2> QED BY <2>2, <2>6 DEF flight
<1>3. /\ TypesOK(k) /\ KeysOK(k) /\ StateOK(k) /\ QueuesOK(k) /\ ReportsOK(k)
      /\ AgreesWith(k, peer)
  BY DEF Good
<1>4. r.end = k.end /\ (k.complete => r.complete)
  BY <1>1, <1>2, <1>3 DEF TypesOK, SameBut, Fields
<1>5. /\ r.state \in EarlyStates => k.state \in EarlyStates
      /\ k.state = "disconnected" => r.state = "disconnected"
  BY <1>1, <1>2 DEF SameBut, Fields, EarlyStates, ServerStates, ClientStates
<1>6. TypesOK(r)
  BY <1>1, <1>2, <1>3, StatesAre DEF TypesOK, SameBut, Fields
<1>7. KeysOK(r)
  BY <1>1, <1>2, <1>3, <1>5 DEF KeysOK, StateOK, SameBut, Fields
<1>8. StateOK(r)
  BY <1>1, <1>2, <1>3 DEF StateOK, KeysOK, SameBut, Fields, EarlyStates, ServerStates, ClientStates
<1>9. QueuesOK(r)
  BY <1>1, <1>2, <1>3 DEF QueuesOK, SameBut, Fields, QueuedBy
<1>10. ReportsOK(r)
  BY <1>1, <1>2, <1>3, <1>5 DEF ReportsOK, SameBut, Fields
<1>11. AgreesWith(r, peer)
  BY <1>1, <1>2, <1>3 DEF AgreesWith, SameBut, Fields
<1> QED BY <1>1, <1>4, <1>6, <1>7, <1>8, <1>9, <1>10, <1>11, <1>2 DEF Becomes, Good

LEMMA HandshakeKeysAreGood ==
  ASSUME NEW k, NEW peer \in BOOLEAN, Good(k, peer),
         k.end = "c"
  PROVE  Becomes(k, Keys(k, {"handshake"}, {"handshake"}), peer)
<1> SUFFICES ASSUME NEW r, r = Keys(k, {"handshake"}, {"handshake"})
             PROVE  Becomes(k, r, peer)
  OBVIOUS
<1>1. /\ SameBut(k, r, {"enc", "dec", "recycle"})
      /\ r.enc = k.enc \cup {"handshake"} /\ r.dec = k.dec \cup {"handshake"}
  BY DEF Keys, Good, TypesOK, SameBut, Whole, Fields
<1>2. /\ TypesOK(k) /\ KeysOK(k) /\ StateOK(k) /\ QueuesOK(k) /\ ReportsOK(k)
      /\ AgreesWith(k, peer)
  BY DEF Good
<1>3. r.end = k.end /\ (k.complete => r.complete)
  BY <1>1, <1>2 DEF TypesOK, SameBut, Fields
<1>4. /\ r.state \in EarlyStates => k.state \in EarlyStates
      /\ k.state = "disconnected" => r.state = "disconnected"
  BY <1>1 DEF SameBut, Fields, EarlyStates, ServerStates, ClientStates
<1>5. TypesOK(r)
  BY <1>1, <1>2, StatesAre DEF TypesOK, SameBut, Fields
<1>6. KeysOK(r)
  BY <1>1, <1>2, <1>4 DEF KeysOK, StateOK, SameBut, Fields
<1>7. StateOK(r)
  BY <1>1, <1>2 DEF StateOK, KeysOK, SameBut, Fields, EarlyStates, ServerStates, ClientStates
<1>8. QueuesOK(r)
  BY <1>1, <1>2 DEF QueuesOK, SameBut, Fields
<1>9. ReportsOK(r)
  BY <1>1, <1>2, <1>4 DEF ReportsOK, SameBut, Fields
<1>10. AgreesWith(r, peer)
  BY <1>1, <1>2 DEF AgreesWith, SameBut, Fields
<1> QED BY <1>1, <1>3, <1>5, <1>6, <1>7, <1>8, <1>9, <1>10 DEF Becomes, Good

LEMMA ClientFinishedIsGood ==
  ASSUME NEW k, NEW peer \in BOOLEAN, Good(k, peer),
         k.end = "s",
         "handshake" \in k.dec,
         peer
  PROVE  Becomes(k, ClientFinished(k), peer)
<1> SUFFICES ASSUME NEW r, r = ClientFinished(k)
             PROVE  Becomes(k, r, peer)
  OBVIOUS
<1>1. /\ SameBut(k, r, {"enc", "dec", "recycle", "complete", "state"})
      /\ r.complete = TRUE /\ r.enc = k.enc /\ r.dec = k.dec \cup {"application"}
      /\ r.state = k.state \/ (k.state \in ServerStates /\ r.state = "server_false_start")
  <2> DEFINE done == [k EXCEPT !.complete = TRUE]
             keyed == Keys(done, {}, {"application"})
  <2>1. Whole(k)
    BY DEF Good, TypesOK
  <2>2. SameBut(k, done, {"complete"}) /\ done.complete = TRUE
    BY <2>1 DEF SameBut, Whole, Fields
  <2>3. r = IF ~setup.auth \/ k.state \notin {"server_init", "server_handshake"} THEN keyed
            ELSE FalseStartTransition(keyed)
    BY DEF ClientFinished
  <2> HIDE DEF done
  <2>4. /\ SameBut(done, keyed, {"enc", "dec", "recycle"})
        /\ keyed.enc = done.enc \cup {} /\ keyed.dec = done.dec \cup {"application"}
    <3>1. Whole(done)
      BY <2>2 DEF SameBut
    <3> QED BY <3>1 DEF Keys, SameBut, Whole, Fields
  <2> HIDE DEF keyed
  <2>5. /\ SameBut(k, keyed, {"enc", "dec", "recycle", "complete"})
        /\ keyed.complete = TRUE /\ keyed.enc = k.enc /\ keyed.dec = k.dec \cup {"application"}
    BY <2>2, <2>4 DEF SameBut, Fields
  <2>6. /\ SameBut(keyed, FalseStartTransition(keyed), {"state"})
        /\ FalseStartTransition(keyed).state = "server_false_start"
    BY <2>5 DEF FalseStartTransition, SameBut, Whole, Fields
  <2>7. CASE ~setup.auth \/ k.state \notin {"server_init", "server_handshake"}
    BY <2>3, <2>5, <2>7 DEF SameBut, Fields
  <2>8. CASE ~(~setup.auth \/ k.state \notin {"server_init", "server_handshake"})
    BY <2>3, <2>5, <2>6, <2>8 DEF SameBut, Fields, ServerStates
  <2> QED BY <2>7, <2>8
<1>2. /\ TypesOK(k) /\ KeysOK(k) /\ StateOK(k) /\ QueuesOK(k) /\ ReportsOK(k)
      /\ AgreesWith(k, peer)
  BY DEF Good
<1>3. r.end = k.end /\ (k.complete => r.complete)
  BY <1>1, <1>2 DEF TypesOK, SameBut, Fields
<1>4. /\ r.state \in EarlyStates => k.state \in EarlyStates
      /\ k.state = "disconnected" => r.state = "disconnected"
  BY <1>1 DEF SameBut, Fields, EarlyStates, ServerStates, ClientStates
<1>5. TypesOK(r)
  BY <1>1, <1>2, StatesAre DEF TypesOK, SameBut, Fields
<1>6. KeysOK(r)
  BY <1>1, <1>2, <1>4 DEF KeysOK, StateOK, SameBut, Fields
<1>7. StateOK(r)
  BY <1>1, <1>2 DEF StateOK, KeysOK, SameBut, Fields, EarlyStates, ServerStates, ClientStates
<1>8. QueuesOK(r)
  BY <1>1, <1>2 DEF QueuesOK, SameBut, Fields
<1>9. ReportsOK(r)
  BY <1>1, <1>2, <1>4 DEF ReportsOK, SameBut, Fields
<1>10. AgreesWith(r, peer)
  BY <1>1, <1>2 DEF AgreesWith, SameBut, Fields
<1> QED BY <1>1, <1>3, <1>5, <1>6, <1>7, <1>8, <1>9, <1>10 DEF Becomes, Good

LEMMA ServerFinishedIsGood ==
  ASSUME NEW k, NEW peer \in BOOLEAN, Good(k, peer),
         k.end = "c",
         "handshake" \in k.heard,
         k.state \notin {"client_init", "client_init_sent"}
  PROVE  Becomes(k, ServerFinished(k), peer)
<1> SUFFICES ASSUME NEW r, r = ServerFinished(k)
             PROVE  Becomes(k, r, peer)
  OBVIOUS
<1>1. /\ SameBut(k, r, {"enc", "dec", "recycle", "queue", "complete", "state"})
      /\ r.complete = TRUE /\ r.enc = k.enc \cup {"application"} /\ r.dec = k.dec \cup {"application"}
      /\ r.queue = <<"CF">> \o k.queue
      /\ r.state = IF k.state = "client_handshake_start" THEN "client_almost_ready" ELSE k.state
  <2>1. Whole(k)
    BY DEF Good, TypesOK
  <2>2. PICK done : done = [k EXCEPT !.complete = TRUE]
    OBVIOUS
  <2>3. SameBut(k, done, {"complete"}) /\ done.complete = TRUE
    BY <2>1, <2>2 DEF SameBut, Whole, Fields
  <2>4. PICK keyed : keyed = Keys(done, {"application"}, {"application"})
    OBVIOUS
  <2>5. /\ SameBut(done, keyed, {"enc", "dec", "recycle"})
        /\ keyed.enc = done.enc \cup {"application"} /\ keyed.dec = done.dec \cup {"application"}
    <3>1. Whole(done)
      BY <2>3 DEF SameBut
    <3> QED BY <2>4, <3>1 DEF Keys, SameBut, Whole, Fields
  <2>6. r = [keyed EXCEPT !.queue = <<"CF">> \o @,
                          !.state = IF @ = "client_handshake_start" THEN "client_almost_ready" ELSE @]
    BY <2>2, <2>4, Zenon DEF ServerFinished
  <2>7. /\ SameBut(keyed, r, {"queue", "state"})
        /\ r.queue = <<"CF">> \o keyed.queue
        /\ r.state = IF keyed.state = "client_handshake_start" THEN "client_almost_ready"
                     ELSE keyed.state
    <3>1. Whole(keyed)
      BY <2>5 DEF SameBut
    <3>2. PICK q, s : /\ q = <<"CF">> \o keyed.queue
                      /\ s = IF keyed.state = "client_handshake_start" THEN "client_almost_ready"
                             ELSE keyed.state
      OBVIOUS
    <3>3. r = [keyed EXCEPT !.queue = q, !.state = s]
      BY <2>6, <3>2
    <3>4. SameBut(keyed, r, {"queue", "state"}) /\ r.queue = q /\ r.state = s
      <4>1. PICK h : h = [keyed EXCEPT !.queue = q]
        OBVIOUS
      <4>2. SameBut(keyed, h, {"queue"}) /\ h.queue = q
        BY <3>1, <4>1 DEF SameBut, Whole, Fields
      <4>3. r = [h EXCEPT !.state = s]
        BY <3>3, <4>1
      <4>4. SameBut(h, r, {"state"}) /\ r.state = s
        BY <4>2, <4>3 DEF SameBut, Whole, Fields
      <4> QED BY <4>2, <4>4 DEF SameBut, Fields
    <3> QED BY <3>2, <3>4
  <2> QED BY <2>3, <2>5, <2>7 DEF SameBut, Fields
<1>2. r.queue \in Seq(AllFrames) /\ Holds(r.queue) = {"CF"} \cup Holds(k.queue)
  <2>1. k.queue \in Seq(AllFrames)
    BY DEF Good, TypesOK
  <2>2. Holds(<<"CF">>) = {"CF"}
    BY HoldsFew, Zenon
  <2>3. "CF" \in AllFrames
    BY FramesAre
  <2>4. <<"CF">> \in Seq(AllFrames)
    BY <2>3
  <2> DEFINE flight == <<"CF">>
  <2>5. flight \in Seq(AllFrames) /\ r.queue = flight \o k.queue
    BY <1>1, <2>4
  <2> HIDE DEF flight
  <2>6. r.queue \in Seq(AllFrames) /\ Holds(r.queue) = Holds(flight) \cup Holds(k.queue)
    BY <2>1, <2>5, HoldsConcat
  <2> QED BY <2>2, <2>6 DEF flight
<1>3. /\ TypesOK(k) /\ KeysOK(k) /\ StateOK(k) /\ QueuesOK(k) /\ ReportsOK(k)
      /\ AgreesWith(k, peer)
  BY DEF Good
<1>4. r.end = k.end /\ (k.complete => r.complete)
  BY <1>1, <1>2, <1>3 DEF TypesOK, SameBut, Fields
<1>5. /\ r.state \in EarlyStates => k.state \in EarlyStates
      /\ k.state = "disconnected" => r.state = "disconnected"
  BY <1>1, <1>2 DEF SameBut, Fields, EarlyStates, ServerStates, ClientStates
<1>6. TypesOK(r)
  BY <1>1, <1>2, <1>3, StatesAre DEF TypesOK, SameBut, Fields
<1>7. KeysOK(r)
  BY <1>1, <1>2, <1>3, <1>5 DEF KeysOK, StateOK, SameBut, Fields
<1>8. StateOK(r)
  BY <1>1, <1>2, <1>3 DEF StateOK, KeysOK, SameBut, Fields, EarlyStates, ServerStates, ClientStates
<1>9. QueuesOK(r)
  BY <1>1, <1>2, <1>3 DEF QueuesOK, SameBut, Fields, QueuedBy
<1>10. ReportsOK(r)
  BY <1>1, <1>2, <1>3, <1>5 DEF ReportsOK, SameBut, Fields
<1>11. AgreesWith(r, peer)
  BY <1>1, <1>2, <1>3 DEF AgreesWith, SameBut, Fields
<1> QED BY <1>1, <1>4, <1>6, <1>7, <1>8, <1>9, <1>10, <1>11, <1>2 DEF Becomes, Good

(* A connection whose TLS, keys, queues and reports are as they were, and  *)
(* that moved to another state.                                            *)
LEMMA MovesIsGood ==
  ASSUME NEW k, NEW peer \in BOOLEAN, Good(k, peer), NEW r,
         SameBut(k, r, {"state", "heard", "got", "ack_needed", "recycle", "validated", "repeat",
                        "credit", "informed"}),
         k.heard \subseteq r.heard, r.got \subseteq AllFrames,
         r.got \cap Frames["application"] # {} => k.complete,
         r.state \in States, r.state \in EarlyStates => k.state \in EarlyStates,
         k.state = "disconnected" => r.state = "disconnected",
         r.state = "disconnected" => r.informed,
         StateOK(r)
  PROVE  Becomes(k, r, peer)
<1>1. /\ TypesOK(k) /\ KeysOK(k) /\ StateOK(k) /\ QueuesOK(k) /\ ReportsOK(k)
      /\ AgreesWith(k, peer)
  BY DEF Good
<1>2. r.end = k.end /\ (k.complete => r.complete)
  BY DEF SameBut, Fields
<1>3. TypesOK(r)
  BY <1>1 DEF TypesOK, SameBut, Fields
<1>4. KeysOK(r)
  BY <1>1 DEF KeysOK, SameBut, Fields
<1>5. QueuesOK(r)
  BY <1>1 DEF QueuesOK, SameBut, Fields
<1>6. ReportsOK(r)
  BY <1>1 DEF ReportsOK, SameBut, Fields
<1>7. AgreesWith(r, peer)
  BY <1>1 DEF AgreesWith, SameBut, Fields
<1> QED BY <1>2, <1>3, <1>4, <1>5, <1>6, <1>7 DEF Becomes, Good

LEMMA HearsIsGood ==
  ASSUME NEW k, NEW peer \in BOOLEAN, Good(k, peer), NEW r,
         SameBut(k, r, {"heard", "got", "ack_needed", "recycle", "validated", "repeat", "credit"}),
         k.heard \subseteq r.heard, r.got \subseteq AllFrames,
         r.got \cap Frames["application"] # {} => k.complete
  PROVE  Becomes(k, r, peer)
<1>1. TypesOK(k) /\ StateOK(k) /\ ReportsOK(k)
  BY DEF Good
<1>2. /\ r.state = k.state /\ r.complete = k.complete /\ r.end = k.end /\ r.enc = k.enc
      /\ r.informed = k.informed
  BY DEF SameBut, Fields
<1>3. /\ SameBut(k, r, {"state", "heard", "got", "ack_needed", "recycle", "validated", "repeat",
                        "credit", "informed"})
  BY DEF SameBut
<1>4. StateOK(r)
  BY <1>1, <1>2 DEF StateOK
<1>5. r.state \in States /\ (r.state = "disconnected" => r.informed)
  BY <1>1, <1>2 DEF TypesOK, ReportsOK
<1> QED BY <1>2, <1>3, <1>4, <1>5, MovesIsGood

(* A packet was acknowledged.                                              *)
LEMMA PendingIsGood ==
  ASSUME NEW k, NEW peer \in BOOLEAN, Good(k, peer), NEW r,
         SameBut(k, r, {"pending"}), r.pending \in Seq(AllFrames),
         Holds(r.pending) \subseteq Holds(k.pending)
  PROVE  Becomes(k, r, peer)
<1>1. /\ TypesOK(k) /\ KeysOK(k) /\ StateOK(k) /\ QueuesOK(k) /\ ReportsOK(k)
      /\ AgreesWith(k, peer)
  BY DEF Good
<1>2. r.end = k.end /\ (k.complete => r.complete)
  BY DEF SameBut, Fields
<1>3. TypesOK(r)
  BY <1>1 DEF TypesOK, SameBut, Fields
<1>4. KeysOK(r)
  BY <1>1 DEF KeysOK, SameBut, Fields
<1>5. StateOK(r)
  BY <1>1 DEF StateOK, SameBut, Fields
<1>6. QueuesOK(r)
  BY <1>1 DEF QueuesOK, SameBut, Fields
<1>7. ReportsOK(r)
  BY <1>1 DEF ReportsOK, SameBut, Fields
<1>8. AgreesWith(r, peer)
  BY <1>1 DEF AgreesWith, SameBut, Fields
<1> QED BY <1>2, <1>3, <1>4, <1>5, <1>6, <1>7, <1>8 DEF Becomes, Good

(* What TLS relies on when the frame f reaches it.                         *)
Speaks(k, f, peer) ==
  /\ f \in {"CH", "CF"} => k.end = "s"
  /\ f \in {"SH", "SF1", "SF2"} => k.end = "c"
  /\ f \in {"SF1", "SF2", "CF"} => "handshake" \in k.dec \cap k.heard
  /\ f = "CF" => peer
  /\ f \in {"SF1", "SF2"} => k.state \notin {"client_init", "client_init_sent"}

LEMMA TlsIsGood ==
  ASSUME NEW k, NEW peer \in BOOLEAN, Good(k, peer), NEW f, NEW ok, Speaks(k, f, peer)
  PROVE  Becomes(k, TlsStreamProcess(k, f, ok), peer)
<1>1. CASE f \notin {"CH", "SH", "SF1", "SF2", "CF"}
  <2>1. TlsStreamProcess(k, f, ok) = k
    BY <1>1, FramesAre, Zenon DEF TlsStreamProcess
  <2> QED BY <2>1, BecomesNothing
<1>2. CASE f \in {"CH", "SH", "SF1", "SF2", "CF"} /\ ~ok
  <2>1. TlsStreamProcess(k, f, ok) = ConnectionError(k)
    BY <1>2, FramesAre, Zenon DEF TlsStreamProcess
  <2> QED BY <2>1, ConnectionErrorIsGood
<1>3. CASE f = "CH" /\ ok
  <2>1. TlsStreamProcess(k, f, ok) = ServerHello(k)
    BY <1>3, FramesAre DEF TlsStreamProcess
  <2> QED BY <1>3, <2>1, ServerHelloIsGood DEF Speaks
<1>4. CASE f = "SH" /\ ok
  <2>1. TlsStreamProcess(k, f, ok) = Keys(k, {"handshake"}, {"handshake"})
    BY <1>4, FramesAre DEF TlsStreamProcess
  <2> QED BY <1>4, <2>1, HandshakeKeysAreGood DEF Speaks
<1>5. CASE f = "CF" /\ ok
  <2>1. TlsStreamProcess(k, f, ok) = ClientFinished(k)
    BY <1>5, FramesAre DEF TlsStreamProcess
  <2> QED BY <1>5, <2>1, ClientFinishedIsGood DEF Speaks
<1>6. CASE f \in {"SF1", "SF2"} /\ ok
  <2>1. \/ TlsStreamProcess(k, f, ok) = ServerFinished(k)
        \/ TlsStreamProcess(k, f, ok) = k
    BY <1>6, FramesAre DEF TlsStreamProcess
  <2>2. Becomes(k, ServerFinished(k), peer)
    BY <1>6, ServerFinishedIsGood DEF Speaks
  <2> QED BY <2>1, <2>2, BecomesNothing
<1> QED BY <1>1, <1>2, <1>3, <1>4, <1>5, <1>6

(* What a packet of the end e tells by its frame.                          *)
LEMMA FrameTells ==
  ASSUME NEW p, NEW e \in Ends, NEW complete \in BOOLEAN, From(p, e, complete)
  PROVE  /\ p.space \in Spaces
         /\ p.frame \notin Closes \cup {None} => p.frame \in AllFrames
         /\ p.frame \in Frames["application"] \cup {"app_close"} => p.space = "application"
         /\ p.frame \in {"SF1", "SF2", "CF"} => p.space = "handshake"
         /\ p.frame \in {"CH", "CF"} => e = "c"
         /\ p.frame \in {"SH", "SF1", "SF2", "DONE"} => e = "s"
         /\ p.frame \in {"CF", "DONE"} => complete
<1>1. p.space \in Spaces
  BY DEF From, Packet
<1>2. p.frame \in Closes \cup {None} \/ p.frame \in SentBy(e) \cap Frames[p.space]
  BY DEF From
<1>3. p.frame = "app_close" => p.space = "application"
  BY DEF From
<1>4. p.frame \in {"CF", "DONE"} => complete
  BY DEF From
<1>5. CASE p.frame \in Closes \cup {None}
  BY <1>1, <1>3, <1>5, FramesAre DEF Closes, None
<1>6. CASE p.frame \in SentBy(e) \cap Frames[p.space]
  BY <1>1, <1>4, <1>6, FramesAre DEF SentBy, QueuedBy, Ends, Closes, None
<1> QED BY <1>2, <1>5, <1>6

LEMMA PeerIs ==
  ASSUME NEW k, NEW peer, Good(k, peer)
  PROVE  /\ k.end \in Ends /\ Peer(k.end) \in Ends
         /\ Peer(k.end) = "s" <=> k.end = "c"
         /\ Peer(k.end) = "c" <=> k.end = "s"
  BY DEF Good, TypesOK, Ends, Peer

LEMMA DecodeAckIsGood ==
  ASSUME NEW k, NEW peer \in BOOLEAN, Good(k, peer),
         NEW p, From(p, Peer(k.end), peer), p.space \in k.dec
  PROVE  /\ Becomes(k, DecodeAck(k, p), peer)
         /\ \/ SameBut(k, DecodeAck(k, p), {"pending"})
            \/ /\ p.space = "application" /\ k.state \in EarlyStates
               /\ DecodeAck(k, p).state = "ready"
<1>1. PICK acked : acked = [k EXCEPT !.pending = Without(@, p.ack)]
  OBVIOUS
<1>2. TypesOK(k) /\ KeysOK(k) /\ StateOK(k)
  BY DEF Good
<1>3. SameBut(k, acked, {"pending"}) /\ acked.pending = Without(k.pending, p.ack)
  BY <1>1, <1>2 DEF TypesOK, SameBut, Whole, Fields
<1>4. Becomes(k, acked, peer)
  <2>1. acked.pending \in Seq(AllFrames) /\ Holds(acked.pending) \subseteq Holds(k.pending)
    BY <1>2, <1>3, WithoutHolds DEF TypesOK
  <2> QED BY <1>3, <2>1, PendingIsGood
<1>5. DecodeAck(k, p) = IF acked # k /\ p.space = "application"
                           /\ k.state \in {"client_ready_start", "server_false_start"}
                        THEN ReadyStateTransition(acked) ELSE acked
  BY <1>1 DEF DecodeAck
<1>6. CASE /\ acked # k /\ p.space = "application"
           /\ k.state \in {"client_ready_start", "server_false_start"}
  <2>1. p.ack # {}
    <3>1. SUFFICES ASSUME p.ack = {}
                   PROVE  FALSE
      OBVIOUS
    <3>2. acked.pending = k.pending
      BY <1>2, <1>3, <3>1, OfAll DEF TypesOK
    <3>3. \A f \in Fields : acked[f] = k[f]
      BY <1>3, <3>2 DEF SameBut
    <3>4. Whole(acked) /\ Whole(k)
      BY <1>2, <1>3 DEF SameBut, TypesOK
    <3>5. acked = k
      <4>1. /\ acked = [f \in Fields |-> acked[f]] /\ k = [f \in Fields |-> k[f]]
        BY <3>4, Zenon DEF Whole
      <4> QED BY <3>3, <4>1
    <3> QED BY <1>6, <3>5
  <2>2. peer
    BY <1>6, <2>1 DEF From
  <2>3. acked.complete
    BY <1>2, <1>3, <1>6 DEF KeysOK, SameBut, Fields
  <2>4. k.state \in EarlyStates /\ acked.state \in EarlyStates
    BY <1>3, <1>6 DEF SameBut, Fields, EarlyStates, ClientStates, ServerStates
  <2>5. Good(acked, peer)
    BY <1>4 DEF Becomes
  <2>6. /\ Becomes(acked, ReadyStateTransition(acked), peer)
        /\ ReadyStateTransition(acked).state = "ready"
    BY <2>2, <2>3, <2>4, <2>5, ReadyIsGood
  <2> QED BY <1>4, <1>5, <1>6, <2>4, <2>6, BecomesMore
<1>7. CASE ~(/\ acked # k /\ p.space = "application"
             /\ k.state \in {"client_ready_start", "server_false_start"})
  BY <1>3, <1>4, <1>5, <1>7
<1> QED BY <1>6, <1>7

LEMMA ConnectionCloseIsGood ==
  ASSUME NEW k, NEW peer \in BOOLEAN, Good(k, peer), k.state \in EarlyStates \cup {"ready"}
  PROVE  /\ Becomes(k, DecodeConnectionClose(k), peer)
         /\ SameBut(k, DecodeConnectionClose(k), {"state", "closed", "informed"})
<1>1. TypesOK(k) /\ KeysOK(k) /\ StateOK(k)
  BY DEF Good
<1>2. CASE Before(k, "client_ready_start") \/ "application" \notin k.dec
  <2>1. DecodeConnectionClose(k) = Disconnect(k)
    BY <1>2 DEF DecodeConnectionClose
  <2>2. SameBut(k, Disconnect(k), {"state", "closed", "informed"})
    BY <1>1 DEF Disconnect, TypesOK, SameBut, Whole, Fields
  <2> QED BY <2>1, <2>2, DisconnectIsGood
<1>3. CASE ~(Before(k, "client_ready_start") \/ "application" \notin k.dec)
  <2>1. PICK r : r = [k EXCEPT !.state = "closing_received"]
    OBVIOUS
  <2>2. DecodeConnectionClose(k) = r
    BY <1>3, <2>1 DEF DecodeConnectionClose
  <2>3. SameBut(k, r, {"state"}) /\ r.state = "closing_received"
    BY <1>1, <2>1 DEF TypesOK, SameBut, Whole, Fields
  <2>4. StateOK(r)
    BY <1>1, <1>3, <2>3 DEF StateOK, KeysOK, SameBut, Fields, ServerStates, ClientStates
  <2>5. Becomes(k, r, peer)
    <3>1. /\ SameBut(k, r, {"state", "heard", "got", "ack_needed", "recycle", "validated", "repeat",
                            "credit", "informed"})
          /\ r.heard = k.heard /\ r.got = k.got
      BY <2>3 DEF SameBut, Fields
    <3>2. k.got \subseteq AllFrames /\ (k.got \cap Frames["application"] # {} => k.complete)
      BY <1>1 DEF TypesOK, Good, QueuesOK
    <3>3. r.state \in States /\ r.state \notin EarlyStates /\ k.state # "disconnected"
      BY <2>3, StatesAre DEF EarlyStates, ServerStates, ClientStates
    <3> QED BY <2>3, <2>4, <3>1, <3>2, <3>3, MovesIsGood
  <2> QED BY <2>2, <2>3, <2>5 DEF SameBut
<1> QED BY <1>2, <1>3

LEMMA ApplicationCloseIsGood ==
  ASSUME NEW k, NEW peer \in BOOLEAN, Good(k, peer), k.state \in EarlyStates \cup {"ready"},
         k.complete
  PROVE  Becomes(k, DecodeApplicationClose(k), peer)
<1>1. TypesOK(k) /\ KeysOK(k) /\ StateOK(k)
  BY DEF Good
<1>2. PICK r : r = DecodeApplicationClose(k)
  OBVIOUS
<1>3. /\ SameBut(k, r, {"state", "informed"}) /\ r.informed = TRUE
      /\ r.state \in {"disconnected", "closing_received"}
  BY <1>1, <1>2 DEF DecodeApplicationClose, TypesOK, SameBut, Whole, Fields
<1>4. StateOK(r)
  BY <1>1, <1>3 DEF StateOK, KeysOK, SameBut, Fields, ServerStates, ClientStates
<1>5. /\ SameBut(k, r, {"state", "heard", "got", "ack_needed", "recycle", "validated", "repeat",
                        "credit", "informed"})
      /\ r.heard = k.heard /\ r.got = k.got
  BY <1>3 DEF SameBut, Fields
<1>6. k.got \subseteq AllFrames /\ (k.got \cap Frames["application"] # {} => k.complete)
  BY <1>1 DEF TypesOK, Good, QueuesOK
<1>7. r.state \in States /\ r.state \notin EarlyStates /\ k.state # "disconnected"
  BY <1>3, StatesAre DEF EarlyStates, ServerStates, ClientStates
<1>8. Becomes(k, r, peer)
  BY <1>3, <1>4, <1>5, <1>6, <1>7, MovesIsGood
<1> QED BY <1>2, <1>8

LEMMA HandshakeDoneIsGood ==
  ASSUME NEW k, NEW peer \in BOOLEAN, Good(k, peer), peer
  PROVE  Becomes(k, DecodeHandshakeDone(k), peer)
<1>1. CASE k.state = "client_ready_start"
  <2>1. k.complete /\ k.state \in EarlyStates
    BY <1>1 DEF Good, StateOK, EarlyStates, ClientStates
  <2>2. DecodeHandshakeDone(k) = ReadyStateTransition(k)
    BY <1>1 DEF DecodeHandshakeDone
  <2> QED BY <2>1, <2>2, ReadyIsGood
<1>2. CASE k.state # "client_ready_start"
  <2>1. DecodeHandshakeDone(k) = ConnectionError(k) \/ DecodeHandshakeDone(k) = k
    BY <1>2 DEF DecodeHandshakeDone
  <2> QED BY <2>1, ConnectionErrorIsGood, BecomesNothing
<1> QED BY <1>1, <1>2

(* A connection reads a packet of its peer that it has the keys of.  In    *)
(* the spaces of the handshake the keys stay, and the state too unless the *)
(* packet closes.                                                          *)
LEMMA FramesAreGood ==
  ASSUME NEW k, NEW peer \in BOOLEAN, Good(k, peer), k.state \in EarlyStates \cup {"ready"},
         NEW p, From(p, Peer(k.end), peer), p.space \in k.dec
  PROVE  /\ Becomes(k, DecodeFrames(k, p), peer)
         /\ p.space # "application" =>
              /\ DecodeFrames(k, p).enc = k.enc /\ DecodeFrames(k, p).dec = k.dec
              /\ p.space \in DecodeFrames(k, p).heard
              /\ p.frame \notin Closes => DecodeFrames(k, p).state = k.state
<1> DEFINE Ok(r) == /\ Becomes(k, r, peer)
                    /\ p.space # "application" =>
                         /\ r.enc = k.enc /\ r.dec = k.dec /\ p.space \in r.heard
                         /\ p.frame \notin Closes => r.state = k.state
<1> SUFFICES Ok(DecodeFrames(k, p))
  OBVIOUS
<1>1. TypesOK(k) /\ KeysOK(k) /\ QueuesOK(k)
  BY DEF Good
<1>2. PICK h : h = [k EXCEPT !.heard = @ \cup {p.space}]
  OBVIOUS
<1>3. SameBut(k, h, {"heard"}) /\ h.heard = k.heard \cup {p.space}
  BY <1>1, <1>2 DEF TypesOK, SameBut, Whole, Fields
<1>4. Becomes(k, h, peer)
  <2>1. /\ SameBut(k, h, {"heard", "got", "ack_needed", "recycle", "validated", "repeat", "credit"})
        /\ h.got = k.got
    BY <1>3 DEF SameBut, Fields
  <2>2. k.got \subseteq AllFrames /\ (k.got \cap Frames["application"] # {} => k.complete)
    BY <1>1 DEF TypesOK, QueuesOK
  <2> QED BY <1>3, <2>1, <2>2, HearsIsGood
<1>5. PICK a : a = DecodeAck(h, p)
  OBVIOUS
<1>6. h.end = k.end /\ h.dec = k.dec /\ h.state = k.state /\ h.enc = k.enc /\ h.complete = k.complete
  BY <1>3 DEF SameBut, Fields
<1>7. /\ Becomes(h, a, peer)
      /\ SameBut(h, a, {"pending"}) \/ (p.space = "application" /\ a.state = "ready")
  <2>1. Good(h, peer) /\ From(p, Peer(h.end), peer) /\ p.space \in h.dec
    BY <1>4, <1>6 DEF Becomes
  <2> QED BY <1>5, <2>1, DecodeAckIsGood
<1>8. Good(a, peer) /\ Becomes(k, a, peer) /\ a.end = k.end
  BY <1>4, <1>7, BecomesMore DEF Becomes
<1>9. /\ p.space # "application" =>
           a.enc = k.enc /\ a.dec = k.dec /\ p.space \in a.heard /\ a.state = k.state
      /\ a.state \in EarlyStates \cup {"ready"}
  BY <1>3, <1>6, <1>7 DEF SameBut, Fields
<1>10. p.space = "application" => k.complete /\ a.complete
  BY <1>1, <1>8 DEF KeysOK, Becomes
<1>11. DecodeFrames(k, p) =
         CASE p.frame = None -> a
           [] p.frame = "conn_close" -> DecodeConnectionClose(a)
           [] p.frame = "app_close" -> DecodeApplicationClose(a)
           [] OTHER ->
                LET b == [a EXCEPT !.got = @ \cup {p.frame},
                                   !.ack_needed = @ \cup {p.space}]
                IN  IF p.frame = "DONE" THEN DecodeHandshakeDone(b) ELSE b
  BY <1>2, <1>5, Zenon DEF DecodeFrames
<1>12. Peer(k.end) \in Ends
  BY PeerIs
<1>13. CASE p.frame = None
  <2>1. DecodeFrames(k, p) = a
    BY <1>11, <1>13 DEF None
  <2> QED BY <1>8, <1>9, <2>1
<1>14. CASE p.frame = "conn_close"
  <2>1. DecodeFrames(k, p) = DecodeConnectionClose(a)
    BY <1>11, <1>14 DEF None
  <2>2. /\ Becomes(a, DecodeConnectionClose(a), peer)
        /\ SameBut(a, DecodeConnectionClose(a), {"state", "closed", "informed"})
    BY <1>8, <1>9, ConnectionCloseIsGood
  <2>3. Becomes(k, DecodeFrames(k, p), peer)
    BY <1>8, <2>1, <2>2, BecomesMore
  <2>4. /\ DecodeFrames(k, p).enc = a.enc /\ DecodeFrames(k, p).dec = a.dec
        /\ DecodeFrames(k, p).heard = a.heard
    BY <2>1, <2>2 DEF SameBut, Fields
  <2> QED BY <1>9, <1>14, <2>3, <2>4 DEF Closes
<1>15. CASE p.frame = "app_close"
  <2>1. DecodeFrames(k, p) = DecodeApplicationClose(a)
    BY <1>11, <1>15 DEF None
  <2>2. p.space = "application"
    BY <1>12, <1>15, FrameTells
  <2>3. Becomes(a, DecodeApplicationClose(a), peer)
    BY <1>8, <1>9, <1>10, <2>2, ApplicationCloseIsGood
  <2> QED BY <1>8, <2>1, <2>2, <2>3, BecomesMore
<1>16. CASE p.frame \notin Closes \cup {None}
  <2>1. PICK b : b = [a EXCEPT !.got = @ \cup {p.frame}, !.ack_needed = @ \cup {p.space}]
    OBVIOUS
  <2>2. DecodeFrames(k, p) = IF p.frame = "DONE" THEN DecodeHandshakeDone(b) ELSE b
    <3>1. p.frame # None /\ p.frame # "conn_close" /\ p.frame # "app_close"
      BY <1>16 DEF Closes
    <3> QED BY <1>11, <2>1, <3>1, Zenon
  <2>3. TypesOK(a) /\ QueuesOK(a)
    BY <1>8 DEF Good
  <2>4. SameBut(a, b, {"got", "ack_needed"}) /\ b.got = a.got \cup {p.frame}
    BY <2>1, <2>3 DEF TypesOK, SameBut, Whole, Fields
  <2>5. p.frame \in AllFrames /\ (p.frame \in Frames["application"] => a.complete)
    BY <1>10, <1>12, <1>16, FrameTells
  <2>6. Becomes(a, b, peer)
    <3>1. /\ SameBut(a, b, {"heard", "got", "ack_needed", "recycle", "validated", "repeat", "credit"})
          /\ b.heard = a.heard
      BY <2>4 DEF SameBut, Fields
    <3>2. b.got \subseteq AllFrames /\ (b.got \cap Frames["application"] # {} => a.complete)
      BY <2>3, <2>4, <2>5 DEF TypesOK, QueuesOK
    <3> QED BY <1>8, <3>1, <3>2, HearsIsGood
  <2>7. CASE p.frame = "DONE"
    <3>1. p.space = "application" /\ peer
      BY <1>12, <2>7, FrameTells, FramesAre
    <3>2. Becomes(b, DecodeHandshakeDone(b), peer)
      BY <2>6, <3>1, HandshakeDoneIsGood DEF Becomes
    <3>3. Becomes(k, DecodeHandshakeDone(b), peer)
      BY <1>8, <2>6, <3>2, BecomesMore
    <3> QED BY <2>2, <2>7, <3>1, <3>3
  <2>8. CASE p.frame # "DONE"
    <3>1. DecodeFrames(k, p) = b
      BY <2>2, <2>8
    <3>2. b.enc = a.enc /\ b.dec = a.dec /\ b.heard = a.heard /\ b.state = a.state
      BY <2>4 DEF SameBut, Fields
    <3>3. Becomes(k, b, peer)
      BY <1>8, <2>6, BecomesMore
    <3> QED BY <1>9, <3>1, <3>2, <3>3
  <2> QED BY <2>7, <2>8
<1> QED BY <1>13, <1>14, <1>15, <1>16 DEF Closes

LEMMA IgnoreIsGood ==
  ASSUME NEW k, NEW peer \in BOOLEAN, Good(k, peer), NEW p, From(p, Peer(k.end), peer),
         p.space # "application"
  PROVE  Becomes(k, IgnoreIncomingHandshake(k, p), peer)
<1>1. TypesOK(k) /\ QueuesOK(k)
  BY DEF Good
<1>2. Peer(k.end) \in Ends
  BY PeerIs
<1>3. PICK r : r = IgnoreIncomingHandshake(k, p)
  OBVIOUS
<1>4. /\ SameBut(k, r, {"heard", "got", "ack_needed"})
      /\ r.heard = k.heard \cup {p.space}
      /\ r.got = k.got \cup (IF p.frame = None THEN {} ELSE {p.frame} \ Closes)
  <2>1. Whole(k)
    BY <1>1 DEF TypesOK
  <2>2. CASE p.frame = None
    BY <1>3, <2>1, <2>2 DEF IgnoreIncomingHandshake, SameBut, Whole, Fields
  <2>3. CASE p.frame # None
    BY <1>3, <2>1, <2>3 DEF IgnoreIncomingHandshake, SameBut, Whole, Fields
  <2> QED BY <2>2, <2>3
<1>5. r.got \subseteq k.got \cup (AllFrames \ Frames["application"])
  BY <1>2, <1>4, FrameTells
<1>6. r.got \subseteq AllFrames /\ (r.got \cap Frames["application"] # {} => k.complete)
  BY <1>1, <1>5 DEF TypesOK, QueuesOK
<1>7. SameBut(k, r, {"heard", "got", "ack_needed", "recycle", "validated", "repeat", "credit"})
  BY <1>4 DEF SameBut
<1> QED BY <1>3, <1>4, <1>6, <1>7, HearsIsGood

LEMMA ProcessIsGood ==
  ASSUME NEW k, NEW peer \in BOOLEAN, Good(k, peer), k.state \in EarlyStates \cup {"ready"},
         NEW p, From(p, Peer(k.end), peer), p.space \in k.dec, p.space # "application", NEW ok,
         p.frame \in {"SF1", "SF2"} => k.state \notin {"client_init", "client_init_sent"}
  PROVE  Becomes(k, Process(k, p, ok), peer)
<1>1. PICK d : d = DecodeFrames(k, p)
  OBVIOUS
<1>2. /\ Becomes(k, d, peer) /\ d.dec = k.dec /\ p.space \in d.heard
      /\ p.frame \notin Closes => d.state = k.state
  BY <1>1, FramesAreGood
<1>3. Process(k, p, ok) = IF p.frame \in k.got THEN d ELSE TlsStreamProcess(d, p.frame, ok)
  BY <1>1 DEF Process
<1>4. Speaks(d, p.frame, peer)
  <2>1. /\ p.frame \in {"SF1", "SF2", "CF"} => p.space = "handshake"
        /\ p.frame \in {"CH", "CF"} => k.end = "s"
        /\ p.frame \in {"SH", "SF1", "SF2"} => k.end = "c"
        /\ p.frame = "CF" => peer
    BY PeerIs, FrameTells
  <2> QED BY <1>2, <2>1 DEF Speaks, Becomes, Closes
<1>5. Becomes(d, TlsStreamProcess(d, p.frame, ok), peer)
  BY <1>2, <1>4, TlsIsGood DEF Becomes
<1>6. Becomes(k, TlsStreamProcess(d, p.frame, ok), peer)
  BY <1>2, <1>5, BecomesMore
<1> QED BY <1>2, <1>3, <1>6

(* The handlers, one for each kind of packet.                              *)
LEMMA ClientInitialIsGood ==
  ASSUME NEW k, NEW peer \in BOOLEAN, Good(k, peer), NEW p, From(p, Peer(k.end), peer),
         p.space \in k.dec, p.space = "initial", k.end = "s", NEW ok
  PROVE  Becomes(k, IncomingClientInitial(k, p, ok), peer)
<1>1. TypesOK(k) /\ KeysOK(k) /\ StateOK(k) /\ QueuesOK(k) /\ ReportsOK(k)
  BY DEF Good
<1>2. PICK r, s, c, x : /\ s = IF k.state = "server_none" THEN "server_init" ELSE k.state
                        /\ c = IF k.credit + 3 > MaxCredit THEN MaxCredit ELSE k.credit + 3
                        /\ r = [k EXCEPT !.state = s, !.credit = c]
                        /\ x = (r.repeat \/ (/\ ~r.validated /\ Within(r.pending, "initial") # <<>>
                                             /\ p.frame \in r.got \cup {None, "PI"}))
  OBVIOUS
<1>3. PICK t : t = [r EXCEPT !.repeat = x]
  OBVIOUS
<1>4. IncomingClientInitial(k, p, ok) =
        IF Before(t, "server_almost_ready") THEN Process(t, p, ok)
        ELSE IF Before(t, "ready") THEN IgnoreIncomingHandshake(t, p)
        ELSE t
  BY <1>2, <1>3, Zenon DEF IncomingClientInitial
<1>5. SameBut(k, t, {"state", "credit", "repeat"}) /\ t.state = s
  <2>1. SameBut(k, r, {"state", "credit"}) /\ r.state = s
    BY <1>1, <1>2 DEF TypesOK, SameBut, Whole, Fields
  <2>2. SameBut(r, t, {"repeat"})
    BY <1>3, <2>1 DEF SameBut, Whole, Fields
  <2> QED BY <2>1, <2>2 DEF SameBut, Fields
<1>6. Becomes(k, t, peer)
  <2>1. /\ SameBut(k, t, {"state", "heard", "got", "ack_needed", "recycle", "validated", "repeat",
                          "credit", "informed"})
        /\ t.heard = k.heard /\ t.got = k.got /\ t.informed = k.informed
    BY <1>5 DEF SameBut, Fields
  <2>2. k.got \subseteq AllFrames /\ (k.got \cap Frames["application"] # {} => k.complete)
    BY <1>1 DEF TypesOK, QueuesOK
  <2>3. /\ t.state \in States /\ (t.state \in EarlyStates => k.state \in EarlyStates)
        /\ k.state = "disconnected" => t.state = "disconnected"
        /\ t.state = "disconnected" => k.informed
    BY <1>1, <1>2, <1>5, StatesAre DEF TypesOK, ReportsOK, EarlyStates, ServerStates
  <2>4. StateOK(t)
    BY <1>1, <1>2, <1>5 DEF StateOK, SameBut, Fields, ServerStates, ClientStates
  <2> QED BY <2>1, <2>2, <2>3, <2>4, MovesIsGood
<1>7. /\ Good(t, peer) /\ From(p, Peer(t.end), peer) /\ p.space \in t.dec /\ t.state \in States
      /\ p.frame \notin {"SF1", "SF2"}
  <2>1. p.frame \notin {"SF1", "SF2"}
    BY PeerIs, FrameTells
  <2> QED BY <1>5, <1>6, <2>1 DEF Becomes, Good, TypesOK, SameBut, Fields
<1>8. CASE Before(t, "server_almost_ready")
  <2>1. t.state \in EarlyStates
    BY <1>7, <1>8, RanksAre
  <2>2. Becomes(t, Process(t, p, ok), peer)
    BY <1>7, <2>1, ProcessIsGood
  <2> QED BY <1>4, <1>6, <1>8, <2>2, BecomesMore
<1>9. CASE ~Before(t, "server_almost_ready") /\ Before(t, "ready")
  <2>1. Becomes(t, IgnoreIncomingHandshake(t, p), peer)
    BY <1>7, IgnoreIsGood
  <2> QED BY <1>4, <1>6, <1>9, <2>1, BecomesMore
<1>10. CASE ~Before(t, "server_almost_ready") /\ ~Before(t, "ready")
  BY <1>4, <1>6, <1>10
<1> QED BY <1>8, <1>9, <1>10

LEMMA ServerInitialIsGood ==
  ASSUME NEW k, NEW peer \in BOOLEAN, Good(k, peer), NEW p, From(p, Peer(k.end), peer),
         p.space \in k.dec, p.space = "initial", k.end = "c", NEW ok
  PROVE  Becomes(k, IncomingServerInitial(k, p, ok), peer)
<1>1. TypesOK(k) /\ KeysOK(k) /\ StateOK(k) /\ QueuesOK(k) /\ ReportsOK(k)
  BY DEF Good
<1>2. PICK t : t = [k EXCEPT !.state = IF @ = "client_init_sent"
                                       THEN "client_handshake_start" ELSE @]
  OBVIOUS
<1>3. IncomingServerInitial(k, p, ok) =
        IF Rank[t.state] <= Rank["client_handshake_start"] THEN Process(t, p, ok)
        ELSE IF Before(t, "ready") THEN IgnoreIncomingHandshake(t, p)
        ELSE t
  BY <1>2, Zenon DEF IncomingServerInitial
<1>4. /\ SameBut(k, t, {"state"})
      /\ t.state = IF k.state = "client_init_sent" THEN "client_handshake_start" ELSE k.state
  BY <1>1, <1>2 DEF TypesOK, SameBut, Whole, Fields
<1>5. Becomes(k, t, peer)
  <2>1. /\ SameBut(k, t, {"state", "heard", "got", "ack_needed", "recycle", "validated", "repeat",
                          "credit", "informed"})
        /\ t.heard = k.heard /\ t.got = k.got /\ t.informed = k.informed
    BY <1>4 DEF SameBut, Fields
  <2>2. k.got \subseteq AllFrames /\ (k.got \cap Frames["application"] # {} => k.complete)
    BY <1>1 DEF TypesOK, QueuesOK
  <2>3. /\ t.state \in States /\ (t.state \in EarlyStates => k.state \in EarlyStates)
        /\ k.state = "disconnected" => t.state = "disconnected"
        /\ t.state = "disconnected" => k.informed
    BY <1>1, <1>4, StatesAre DEF TypesOK, ReportsOK, EarlyStates, ClientStates
  <2>4. StateOK(t)
    BY <1>1, <1>4 DEF StateOK, SameBut, Fields, ServerStates, ClientStates
  <2> QED BY <2>1, <2>2, <2>3, <2>4, MovesIsGood
<1>6. /\ Good(t, peer) /\ From(p, Peer(t.end), peer) /\ p.space \in t.dec /\ t.state \in States
      /\ p.frame \notin {"SF1", "SF2"}
  <2>1. p.frame \notin {"SF1", "SF2"}
    BY PeerIs, FrameTells
  <2> QED BY <1>4, <1>5, <2>1 DEF Becomes, Good, TypesOK, SameBut, Fields
<1>7. CASE Rank[t.state] <= Rank["client_handshake_start"]
  <2>1. t.state \in EarlyStates
    BY <1>6, <1>7, RanksAre DEF EarlyStates, ClientStates, ServerStates
  <2>2. Becomes(t, Process(t, p, ok), peer)
    BY <1>6, <2>1, ProcessIsGood
  <2> QED BY <1>3, <1>5, <1>7, <2>2, BecomesMore
<1>8. CASE ~(Rank[t.state] <= Rank["client_handshake_start"]) /\ Before(t, "ready")
  <2>1. Becomes(t, IgnoreIncomingHandshake(t, p), peer)
    BY <1>6, IgnoreIsGood
  <2> QED BY <1>3, <1>5, <1>8, <2>1, BecomesMore
<1>9. CASE ~(Rank[t.state] <= Rank["client_handshake_start"]) /\ ~Before(t, "ready")
  BY <1>3, <1>5, <1>9
<1> QED BY <1>7, <1>8, <1>9

LEMMA ServerHandshakeIsGood ==
  ASSUME NEW k, NEW peer \in BOOLEAN, Good(k, peer), NEW p, From(p, Peer(k.end), peer),
         p.space \in k.dec, p.space = "handshake", NEW ok
  PROVE  Becomes(k, IncomingServerHandshake(k, p, ok), peer)
<1>1. k.state \in States
  BY DEF Good, TypesOK
<1>2. CASE ~Before(k, "ready")
  BY <1>2, BecomesNothing DEF IncomingServerHandshake
<1>3. CASE Before(k, "ready")
  <2>1. k.state \in EarlyStates
    BY <1>1, <1>3, RanksAre
  <2>2. Becomes(k, DecodeFrames(k, p), peer)
    BY <2>1, FramesAreGood
  <2>3. k.state = "client_handshake_start" => Becomes(k, Process(k, p, ok), peer)
    BY <2>1, ProcessIsGood
  <2> QED BY <1>3, <2>2, <2>3 DEF IncomingServerHandshake
<1> QED BY <1>2, <1>3

(* The server hears the keys of the handshake: it frees the first ones.    *)
LEMMA ClientHandshakeIsGood ==
  ASSUME NEW k, NEW peer \in BOOLEAN, Good(k, peer), NEW p, From(p, Peer(k.end), peer),
         p.space \in k.dec, p.space = "handshake", k.end = "s", NEW ok
  PROVE  Becomes(k, IncomingClientHandshake(k, p, ok), peer)
<1>1. TypesOK(k) /\ KeysOK(k) /\ QueuesOK(k)
  BY DEF Good
<1>2. PICK h : h = [k EXCEPT !.validated = TRUE, !.repeat = FALSE]
  OBVIOUS
<1>3. SameBut(k, h, {"validated", "repeat"})
  BY <1>1, <1>2 DEF TypesOK, SameBut, Whole, Fields
<1>4. Becomes(k, h, peer)
  <2>1. /\ SameBut(k, h, {"heard", "got", "ack_needed", "recycle", "validated", "repeat", "credit"})
        /\ h.heard = k.heard /\ h.got = k.got
    BY <1>3 DEF SameBut, Fields
  <2>2. k.got \subseteq AllFrames /\ (k.got \cap Frames["application"] # {} => k.complete)
    BY <1>1 DEF TypesOK, QueuesOK
  <2> QED BY <2>1, <2>2, HearsIsGood
<1>5. /\ Good(h, peer) /\ From(p, Peer(h.end), peer) /\ p.space \in h.dec /\ h.end = "s"
      /\ h.state \in States
  BY <1>1, <1>3, <1>4 DEF Becomes, TypesOK, SameBut, Fields
<1>6. PICK d, freed, t :
        /\ d = DecodeFrames(h, p)
        /\ freed = FreeKeys(ImplicitAck(d, "initial"), {"initial"})
        /\ t = IF p.frame \in k.got THEN freed ELSE TlsStreamProcess(freed, p.frame, ok)
  OBVIOUS
<1>7. IncomingClientHandshake(k, p, ok) =
        IF Before(h, "server_almost_ready")
        THEN IF Before(t, "ready") /\ t.complete THEN ReadyStateTransition(t) ELSE t
        ELSE IF Rank[h.state] <= Rank["ready"] THEN IgnoreIncomingHandshake(h, p)
        ELSE h
  BY <1>2, <1>6, Zenon DEF IncomingClientHandshake
<1>8. ASSUME Before(h, "server_almost_ready")
      PROVE  Becomes(h, t, peer)
  <2>1. h.state \in EarlyStates
    BY <1>5, <1>8, RanksAre
  <2>2. Becomes(h, d, peer) /\ d.enc = h.enc /\ d.dec = h.dec /\ "handshake" \in d.heard
    BY <1>5, <1>6, <2>1, FramesAreGood
  <2>3. "handshake" \in d.enc
    BY <1>5, <2>2 DEF Good, KeysOK
  <2>4. PICK a : a = ImplicitAck(d, "initial")
    OBVIOUS
  <2>5. Becomes(d, a, peer) /\ SameBut(d, a, {"pending"})
    BY <2>2, <2>4, ImplicitAckIsGood DEF Becomes
  <2>6. Good(a, peer) /\ "handshake" \in a.enc \cap a.heard /\ a.dec = d.dec /\ a.heard = d.heard
    BY <2>2, <2>3, <2>5 DEF Becomes, SameBut, Fields
  <2>7. /\ Becomes(a, freed, peer) /\ SameBut(a, freed, {"enc", "dec", "ack_needed"})
        /\ freed.dec = a.dec \ {"initial"}
    BY <1>6, <2>4, <2>6, FreeInitialIsGood
  <2>8. "handshake" \in freed.dec \cap freed.heard
    BY <1>5, <2>2, <2>6, <2>7 DEF SameBut, Fields
  <2>9. freed.end = "s" /\ Good(freed, peer)
    BY <1>5, <2>2, <2>5, <2>7 DEF Becomes
  <2>10. Becomes(h, freed, peer)
    <3>1. Becomes(h, a, peer)
      BY <2>2, <2>5, BecomesMore
    <3> QED BY <2>7, <3>1, BecomesMore
  <2>11. Speaks(freed, p.frame, peer)
    <3>1. p.frame \notin {"SH", "SF1", "SF2"} /\ (p.frame = "CF" => peer)
      BY PeerIs, FrameTells
    <3> QED BY <2>8, <2>9, <3>1 DEF Speaks
  <2>12. Becomes(freed, TlsStreamProcess(freed, p.frame, ok), peer)
    BY <2>9, <2>11, TlsIsGood
  <2> QED BY <1>6, <2>10, <2>12, BecomesMore
<1>9. CASE Before(h, "server_almost_ready") /\ Before(t, "ready") /\ t.complete
  <2>1. Becomes(h, t, peer)
    BY <1>8, <1>9
  <2>2. Good(t, peer) /\ t.end = "s" /\ t.state \in States
    BY <1>5, <2>1 DEF Becomes, Good, TypesOK
  <2>3. t.state \in EarlyStates
    BY <1>9, <2>2, RanksAre
  <2>4. peer
    BY <1>9, <2>2 DEF Good, AgreesWith
  <2>5. Becomes(t, ReadyStateTransition(t), peer)
    BY <1>9, <2>2, <2>3, <2>4, ReadyIsGood
  <2>6. Becomes(h, ReadyStateTransition(t), peer)
    BY <2>1, <2>5, BecomesMore
  <2> QED BY <1>4, <1>7, <1>9, <2>6, BecomesMore
<1>10. CASE Before(h, "server_almost_ready") /\ ~(Before(t, "ready") /\ t.complete)
  BY <1>4, <1>7, <1>8, <1>10, BecomesMore
<1>11. CASE ~Before(h, "server_almost_ready")
  <2>1. Becomes(h, IgnoreIncomingHandshake(h, p), peer)
    BY <1>5, IgnoreIsGood
  <2>2. Becomes(k, IgnoreIncomingHandshake(h, p), peer)
    BY <1>4, <2>1, BecomesMore
  <2> QED BY <1>4, <1>7, <1>11, <2>2
<1> QED BY <1>9, <1>10, <1>11

LEMMA OneRttIsGood ==
  ASSUME NEW k, NEW peer \in BOOLEAN, Good(k, peer), NEW p, From(p, Peer(k.end), peer),
         p.space \in k.dec, p.space = "application"
  PROVE  Becomes(k, Incoming1rtt(k, p), peer)
<1>1. TypesOK(k) /\ KeysOK(k) /\ StateOK(k) /\ QueuesOK(k)
  BY DEF Good
<1>2. k.got \subseteq AllFrames /\ (k.got \cap Frames["application"] # {} => k.complete)
  BY <1>1 DEF TypesOK, QueuesOK
<1>3. CASE k.state \in {"closing", "disconnecting"} /\ p.frame \notin Closes
  <2>1. PICK r : r = [k EXCEPT !.ack_needed = @ \cup {"application"}]
    OBVIOUS
  <2>2. SameBut(k, r, {"ack_needed"})
    BY <1>1, <2>1 DEF TypesOK, SameBut, Whole, Fields
  <2>3. /\ SameBut(k, r, {"heard", "got", "ack_needed", "recycle", "validated", "repeat", "credit"})
        /\ r.heard = k.heard /\ r.got = k.got
    BY <2>2 DEF SameBut, Fields
  <2>4. Incoming1rtt(k, p) = r
    BY <1>3, <2>1 DEF Incoming1rtt
  <2> QED BY <1>2, <2>3, <2>4, HearsIsGood
<1>4. CASE k.state \in {"closing", "disconnecting"} /\ p.frame \in Closes /\ IsClient(k)
  <2>1. Incoming1rtt(k, p) = Disconnect(k)
    BY <1>4 DEF Incoming1rtt
  <2> QED BY <2>1, DisconnectIsGood
<1>5. CASE k.state \in {"closing", "disconnecting"} /\ p.frame \in Closes /\ ~IsClient(k)
  <2>1. PICK r : r = [k EXCEPT !.state = "draining"]
    OBVIOUS
  <2>2. SameBut(k, r, {"state"}) /\ r.state = "draining"
    BY <1>1, <2>1 DEF TypesOK, SameBut, Whole, Fields
  <2>3. /\ SameBut(k, r, {"state", "heard", "got", "ack_needed", "recycle", "validated", "repeat",
                          "credit", "informed"})
        /\ r.heard = k.heard /\ r.got = k.got
    BY <2>2 DEF SameBut, Fields
  <2>4. StateOK(r) /\ r.state \in States /\ r.state \notin EarlyStates
    BY <1>1, <2>2, StatesAre DEF StateOK, SameBut, Fields, EarlyStates, ServerStates, ClientStates
  <2>5. Becomes(k, r, peer)
    BY <1>2, <1>5, <2>2, <2>3, <2>4, MovesIsGood
  <2>6. Incoming1rtt(k, p) = r
    BY <1>5, <2>1 DEF Incoming1rtt
  <2> QED BY <2>5, <2>6
<1>6. CASE /\ k.state \notin {"closing", "disconnecting"}
           /\ Before(k, "client_almost_ready") \/ ~Before(k, "disconnecting")
  <2>1. Incoming1rtt(k, p) = k
    BY <1>6 DEF Incoming1rtt
  <2> QED BY <2>1, BecomesNothing
<1>7. CASE /\ k.state \notin {"closing", "disconnecting"}
           /\ ~(Before(k, "client_almost_ready") \/ ~Before(k, "disconnecting"))
  <2>1. k.state \in EarlyStates \cup {"ready"}
    BY <1>1, <1>7, RanksAre DEF TypesOK
  <2>2. Incoming1rtt(k, p) = DecodeFrames(k, p)
    BY <1>7 DEF Incoming1rtt
  <2> QED BY <2>1, <2>2, FramesAreGood
<1> QED BY <1>3, <1>4, <1>5, <1>6, <1>7

(* A packet is kept, or those that were kept are taken again.              *)
LEMMA SoonerIsGood ==
  ASSUME NEW k, NEW peer \in BOOLEAN, Good(k, peer), NEW r,
         SameBut(k, r, {"sooner", "recycle"}), r.sooner \in Seq(Packet),
         \A p \in Holds(r.sooner) : From(p, Peer(k.end), peer)
  PROVE  Becomes(k, r, peer)
<1>1. /\ TypesOK(k) /\ KeysOK(k) /\ StateOK(k) /\ QueuesOK(k) /\ ReportsOK(k)
      /\ AgreesWith(k, peer)
  BY DEF Good
<1>2. r.end = k.end /\ (k.complete => r.complete)
  BY DEF SameBut, Fields
<1>3. TypesOK(r)
  BY <1>1 DEF TypesOK, SameBut, Fields
<1>4. KeysOK(r)
  BY <1>1 DEF KeysOK, SameBut, Fields
<1>5. StateOK(r)
  BY <1>1 DEF StateOK, SameBut, Fields
<1>6. QueuesOK(r)
  BY <1>1 DEF QueuesOK, SameBut, Fields
<1>7. ReportsOK(r)
  BY <1>1 DEF ReportsOK, SameBut, Fields
<1>8. AgreesWith(r, peer)
  BY <1>1 DEF AgreesWith, SameBut, Fields
<1> QED BY <1>2, <1>3, <1>4, <1>5, <1>6, <1>7, <1>8 DEF Becomes, Good

LEMMA NotDecryptedIsGood ==
  ASSUME NEW k, NEW peer \in BOOLEAN, Good(k, peer), NEW p, From(p, Peer(k.end), peer)
  PROVE  Becomes(k, IncomingNotDecrypted(k, p), peer)
<1>1. TypesOK(k) /\ AgreesWith(k, peer)
  BY DEF Good
<1>2. PICK q, r : q = <<p>> \o k.sooner /\ r = [k EXCEPT !.sooner = q]
  OBVIOUS
<1>3. IncomingNotDecrypted(k, p) = r \/ IncomingNotDecrypted(k, p) = k
  BY <1>2 DEF IncomingNotDecrypted
<1>4. SameBut(k, r, {"sooner"}) /\ r.sooner = q
  BY <1>1, <1>2 DEF TypesOK, SameBut, Whole, Fields
<1>5. q \in Seq(Packet) /\ Holds(q) = {p} \cup Holds(k.sooner)
  <2>1. p \in Packet /\ k.sooner \in Seq(Packet)
    BY <1>1 DEF From, TypesOK
  <2>2. PICK f : f = <<p>>
    OBVIOUS
  <2>3. f \in Seq(Packet) /\ Holds(f) = {p}
    BY <2>1, <2>2 DEF Holds
  <2>4. q = f \o k.sooner
    BY <1>2, <2>2
  <2> QED BY <2>1, <2>3, <2>4, HoldsConcat
<1>6. \A x \in Holds(r.sooner) : From(x, Peer(k.end), peer)
  BY <1>1, <1>4, <1>5 DEF AgreesWith
<1>7. SameBut(k, r, {"sooner", "recycle"})
  BY <1>4 DEF SameBut
<1>8. Becomes(k, r, peer)
  BY <1>4, <1>5, <1>6, <1>7, SoonerIsGood
<1> QED BY <1>3, <1>8, BecomesNothing

LEMMA SegmentIsGood ==
  ASSUME NEW k, NEW peer \in BOOLEAN, Good(k, peer), NEW p,
         p = Retry \/ From(p, Peer(k.end), peer), NEW ok
  PROVE  Becomes(k, IncomingSegment(k, p, ok), peer)
<1>1. CASE p = Retry
  <2>1. \/ k.state = "client_init_sent" /\ IncomingSegment(k, p, ok) = ResetCnx(k)
        \/ IncomingSegment(k, p, ok) = k
    BY <1>1 DEF IncomingSegment, IncomingRetry
  <2> QED BY <2>1, ResetIsGood, BecomesNothing
<1>2. CASE p # Retry /\ p.space \notin k.dec
  <2>1. IncomingSegment(k, p, ok) = IncomingNotDecrypted(k, p)
    BY <1>2 DEF IncomingSegment
  <2> QED BY <1>2, <2>1, NotDecryptedIsGood
<1>3. CASE p # Retry /\ p.space \in k.dec
  <2>1. p.space \in Spaces /\ k.end \in Ends
    BY <1>3, PeerIs, FrameTells
  <2>2. IncomingSegment(k, p, ok) =
          CASE p.space = "application" -> Incoming1rtt(k, p)
            [] p.space = "initial" /\ IsClient(k) -> IncomingServerInitial(k, p, ok)
            [] p.space = "initial" /\ ~IsClient(k) -> IncomingClientInitial(k, p, ok)
            [] p.space = "handshake" /\ IsClient(k) -> IncomingServerHandshake(k, p, ok)
            [] OTHER -> IncomingClientHandshake(k, p, ok)
    BY <1>3, Zenon DEF IncomingSegment
  <2>3. CASE p.space = "application"
    BY <1>3, <2>2, <2>3, OneRttIsGood
  <2>4. CASE p.space = "initial" /\ k.end = "c"
    BY <1>3, <2>2, <2>4, ServerInitialIsGood DEF IsClient
  <2>5. CASE p.space = "initial" /\ k.end = "s"
    BY <1>3, <2>2, <2>5, ClientInitialIsGood DEF IsClient
  <2>6. CASE p.space = "handshake" /\ k.end = "c"
    BY <1>3, <2>2, <2>6, ServerHandshakeIsGood DEF IsClient
  <2>7. CASE p.space = "handshake" /\ k.end = "s"
    BY <1>3, <2>2, <2>7, ClientHandshakeIsGood DEF IsClient
  <2> QED BY <2>1, <2>3, <2>4, <2>5, <2>6, <2>7 DEF Spaces, Ends
<1> QED BY <1>1, <1>2, <1>3

(* The function that ProcessSooner computes with, on its first m values.   *)
Tries(f, m, k, ok) ==
  f = [n \in 0 .. m |-> IF n = 0 THEN [k EXCEPT !.sooner = <<>>, !.recycle = FALSE]
                        ELSE TryAgain(f[n - 1], k.sooner[n], ok)]

LEMMA TriesExists ==
  ASSUME NEW k, NEW ok, NEW m \in Nat
  PROVE  \E f : Tries(f, m, k, ok)
<1> DEFINE first == [k EXCEPT !.sooner = <<>>, !.recycle = FALSE]
           S == {n \in 0 .. m : \E f : Tries(f, n, k, ok)}
<1>1. 0 \in S
  <2> DEFINE f == [n \in 0 .. 0 |-> first]
  <2> HIDE DEF first
  <2>1. f = [n \in 0 .. 0 |-> IF n = 0 THEN first ELSE TryAgain(f[n - 1], k.sooner[n], ok)]
    OBVIOUS
  <2>2. Tries(f, 0, k, ok)
    BY <2>1, Zenon DEF Tries, first
  <2> QED BY <2>2
<1>2. ASSUME NEW n \in 1 .. m, n - 1 \in S
      PROVE  n \in S
  <2>1. PICK g : Tries(g, n - 1, k, ok)
    BY <1>2
  <2> DEFINE f == [i \in 0 .. n |-> IF i < n THEN g[i] ELSE TryAgain(g[n - 1], k.sooner[n], ok)]
  <2>2. \A i \in 0 .. n - 1 : f[i] = g[i] /\ g[i] = IF i = 0 THEN first
                                                   ELSE TryAgain(g[i - 1], k.sooner[i], ok)
    <3>1. \A i \in 0 .. n - 1 : g[i] = IF i = 0 THEN first
                                      ELSE TryAgain(g[i - 1], k.sooner[i], ok)
      BY <2>1, Zenon DEF Tries
    <3>2. \A i \in 0 .. n - 1 : i \in 0 .. n /\ i < n
      OBVIOUS
    <3>3. \A i \in 0 .. n - 1 : f[i] = g[i]
      BY <3>2, Zenon
    <3> QED BY <3>1, <3>3, Zenon
  <2> HIDE DEF first
  <2>3. f[n] = TryAgain(g[n - 1], k.sooner[n], ok)
    OBVIOUS
  <2>4. f = [i \in 0 .. n |-> f[i]]
    OBVIOUS
  <2> HIDE DEF f
  <2>5. ASSUME NEW i \in 0 .. n
        PROVE  f[i] = IF i = 0 THEN first ELSE TryAgain(f[i - 1], k.sooner[i], ok)
    <3>1. CASE i = n
      <4>1. f[n - 1] = g[n - 1] /\ n # 0
        BY <2>2
      <4> QED BY <2>3, <3>1, <4>1
    <3>2. CASE i # n /\ i # 0
      <4>1. i \in 0 .. n - 1 /\ i - 1 \in 0 .. n - 1
        BY <3>2
      <4>2. f[i - 1] = g[i - 1] /\ f[i] = g[i]
        BY <2>2, <4>1
      <4> QED BY <2>2, <3>2, <4>1, <4>2
    <3>3. CASE i = 0
      <4>1. 0 \in 0 .. n - 1
        OBVIOUS
      <4> QED BY <2>2, <3>3, <4>1
    <3> QED BY <3>1, <3>2, <3>3
  <2>6. Tries(f, n, k, ok)
    BY <2>4, <2>5, Zenon DEF Tries, first
  <2> QED BY <2>6
<1>3. \A n \in 0 .. m : n \in S
  <2> HIDE DEF S
  <2> QED BY <1>1, <1>2, UpTo
<1> QED BY <1>3

LEMMA TryAgainIsGood ==
  ASSUME NEW k, NEW peer \in BOOLEAN, Good(k, peer), NEW p, From(p, Peer(k.end), peer), NEW ok
  PROVE  Becomes(k, TryAgain(k, p, ok), peer)
<1>1. CASE p.space \in k.dec
  <2>1. TryAgain(k, p, ok) = IncomingSegment(k, p, ok)
    BY <1>1 DEF TryAgain
  <2> QED BY <2>1, SegmentIsGood
<1>2. CASE p.space \notin k.dec
  <2>1. TypesOK(k) /\ AgreesWith(k, peer)
    BY DEF Good
  <2>2. PICK q, r : q = Append(k.sooner, p) /\ r = [k EXCEPT !.sooner = q]
    OBVIOUS
  <2>3. TryAgain(k, p, ok) = r
    BY <1>2, <2>2 DEF TryAgain
  <2>4. SameBut(k, r, {"sooner"}) /\ r.sooner = q
    BY <2>1, <2>2 DEF TypesOK, SameBut, Whole, Fields
  <2>5. q \in Seq(Packet) /\ Holds(q) = Holds(k.sooner) \cup {p}
    BY <2>1, <2>2, HoldsAppend DEF From, TypesOK
  <2>6. \A x \in Holds(r.sooner) : From(x, Peer(k.end), peer)
    BY <2>1, <2>4, <2>5 DEF AgreesWith
  <2>7. SameBut(k, r, {"sooner", "recycle"})
    BY <2>4 DEF SameBut
  <2> QED BY <2>3, <2>4, <2>5, <2>6, <2>7, SoonerIsGood
<1> QED BY <1>1, <1>2

LEMMA ProcessSoonerIsGood ==
  ASSUME NEW k, NEW peer \in BOOLEAN, Good(k, peer), NEW ok
  PROVE  Becomes(k, ProcessSooner(k, ok), peer)
<1>1. TypesOK(k) /\ AgreesWith(k, peer)
  BY DEF Good
<1>2. Len(k.sooner) \in Nat
  BY <1>1 DEF TypesOK
<1>3. PICK f : /\ f = CHOOSE h : Tries(h, Len(k.sooner), k, ok)
  OBVIOUS
<1>4. Tries(f, Len(k.sooner), k, ok)
  BY <1>2, <1>3, TriesExists, Zenon
<1>5. ProcessSooner(k, ok) = f[Len(k.sooner)]
  BY <1>3, Zenon DEF ProcessSooner, Tries
<1>6. \A n \in 0 .. Len(k.sooner) :
        f[n] = IF n = 0 THEN [k EXCEPT !.sooner = <<>>, !.recycle = FALSE]
               ELSE TryAgain(f[n - 1], k.sooner[n], ok)
  BY <1>4, Zenon DEF Tries
<1> DEFINE S == {n \in 0 .. Len(k.sooner) : Becomes(k, f[n], peer)}
<1>7. 0 \in S
  <2>1. 0 \in 0 .. Len(k.sooner)
    BY <1>2
  <2>2. PICK r : r = [k EXCEPT !.sooner = <<>>, !.recycle = FALSE]
    OBVIOUS
  <2>3. f[0] = r
    BY <1>6, <2>1, <2>2, Zenon
  <2>4. SameBut(k, r, {"sooner", "recycle"}) /\ r.sooner = <<>>
    BY <1>1, <2>2 DEF TypesOK, SameBut, Whole, Fields
  <2>5. r.sooner \in Seq(Packet) /\ Holds(r.sooner) = {}
    BY <2>4, HoldsNone
  <2>6. Becomes(k, r, peer)
    BY <2>4, <2>5, SoonerIsGood
  <2> QED BY <2>1, <2>3, <2>6
<1>8. ASSUME NEW n \in 1 .. Len(k.sooner), n - 1 \in S
      PROVE  n \in S
  <2>1. n \in 0 .. Len(k.sooner) /\ n # 0
    OBVIOUS
  <2>2. f[n] = TryAgain(f[n - 1], k.sooner[n], ok)
    BY <1>6, <2>1, Zenon
  <2>3. Becomes(k, f[n - 1], peer)
    BY <1>8
  <2>4. From(k.sooner[n], Peer(k.end), peer)
    BY <1>1 DEF AgreesWith, Holds
  <2>5. Good(f[n - 1], peer) /\ From(k.sooner[n], Peer(f[n - 1].end), peer)
    BY <2>3, <2>4 DEF Becomes
  <2>6. Becomes(f[n - 1], f[n], peer)
    BY <2>2, <2>5, TryAgainIsGood
  <2>7. Becomes(k, f[n], peer)
    BY <2>3, <2>6, BecomesMore
  <2> QED BY <2>1, <2>7
<1>9. \A n \in 0 .. Len(k.sooner) : n \in S
  <2> HIDE DEF S
  <2> QED BY <1>2, <1>7, <1>8, UpTo
<1>10. Len(k.sooner) \in 0 .. Len(k.sooner)
  BY <1>2
<1> QED BY <1>5, <1>9, <1>10
-----------------------------------------------------------------------------
(* What a step of prepare leaves, and what it sends.                       *)
Passes(k, r, peer) ==
  /\ Becomes(k, r.cnx, peer)
  /\ \A p \in r.sent : From(p, k.end, r.cnx.complete)

LEMMA PassesNothing ==
  ASSUME NEW k, NEW peer, Good(k, peer)
  PROVE  Passes(k, Nothing(k), peer)
  BY BecomesNothing DEF Passes, Nothing

(* The connection moves on after it sent, or before it sends.              *)
LEMMA PassesOn ==
  ASSUME NEW k, NEW r, NEW t, NEW peer, Passes(k, r, peer), Becomes(r.cnx, t.cnx, peer),
         t.sent = r.sent
  PROVE  Passes(k, t, peer)
<1>1. Becomes(k, t.cnx, peer)
  BY BecomesMore DEF Passes
<1>2. r.cnx.complete => t.cnx.complete
  BY DEF Becomes
<1> QED BY <1>1, <1>2 DEF Passes, From

LEMMA PassesAfter ==
  ASSUME NEW k, NEW h, NEW r, NEW peer, Becomes(k, h, peer), Passes(h, r, peer)
  PROVE  Passes(k, r, peer)
<1>1. Becomes(k, r.cnx, peer)
  BY BecomesMore DEF Passes
<1>2. h.end = k.end
  BY DEF Becomes
<1> QED BY <1>1, <1>2 DEF Passes

LEMMA SendIsGood ==
  ASSUME NEW k, NEW peer \in BOOLEAN, Good(k, peer), NEW space \in Spaces, NEW frame,
         frame \in (SentBy(k.end) \cap Frames[space]) \cup Closes \cup {None},
         frame = "app_close" => space = "application",
         frame \in {"CF", "DONE"} => k.complete, NEW with_ack
  PROVE  /\ Passes(k, Send(k, space, frame, with_ack), peer)
         /\ SameBut(k, Send(k, space, frame, with_ack).cnx, {"pending", "ack_needed", "queue"})
<1>1. /\ TypesOK(k) /\ KeysOK(k) /\ StateOK(k) /\ QueuesOK(k) /\ ReportsOK(k)
      /\ AgreesWith(k, peer)
  BY DEF Good
<1>2. PICK p, q, n, r :
        /\ p = [src |-> k.end, space |-> space, frame |-> frame,
                ack |-> IF with_ack THEN k.got \cap Frames[space] ELSE {},
                token |-> frame = "CH" /\ k.token]
        /\ q = IF frame \in {None} \cup Closes THEN k.pending
               ELSE Append(Without(k.pending, {frame}), frame)
        /\ n = IF with_ack THEN k.ack_needed \ {space} ELSE k.ack_needed
        /\ r = [k EXCEPT !.pending = q, !.ack_needed = n, !.queue = Without(@, {frame})]
  OBVIOUS
<1>3. Send(k, space, frame, with_ack) = [cnx |-> r, sent |-> {p}]
  <2>1. r = [k EXCEPT !.pending = q,
                      !.ack_needed = IF with_ack THEN @ \ {space} ELSE @,
                      !.queue = Without(@, {frame})]
    BY <1>1, <1>2 DEF TypesOK, Whole, Fields
  <2> QED BY <1>2, <2>1, Zenon DEF Send
<1>4. /\ SameBut(k, r, {"pending", "ack_needed", "queue"})
      /\ r.pending = q /\ r.queue = Without(k.queue, {frame})
  BY <1>1, <1>2 DEF TypesOK, SameBut, Whole, Fields
<1>5. frame \notin {None} \cup Closes => frame \in SentBy(k.end) /\ frame \in AllFrames
  BY FramesAre DEF SentBy, QueuedBy
<1>6. r.queue \in Seq(AllFrames) /\ Holds(r.queue) \subseteq Holds(k.queue)
  BY <1>1, <1>4, WithoutHolds DEF TypesOK
<1>7. /\ r.pending \in Seq(AllFrames)
      /\ Holds(r.pending) \subseteq Holds(k.pending)
                                   \cup (IF frame \in {None} \cup Closes THEN {} ELSE {frame})
  <2>1. CASE frame \in {None} \cup Closes
    BY <1>1, <1>2, <1>4, <2>1 DEF TypesOK
  <2>2. CASE frame \notin {None} \cup Closes
    <3>1. PICK w : w = Without(k.pending, {frame})
      OBVIOUS
    <3>2. w \in Seq(AllFrames) /\ Holds(w) \subseteq Holds(k.pending)
      BY <1>1, <3>1, WithoutHolds DEF TypesOK
    <3>3. Append(w, frame) \in Seq(AllFrames) /\ Holds(Append(w, frame)) = Holds(w) \cup {frame}
      BY <1>5, <2>2, <3>2, HoldsAppend
    <3>4. r.pending = Append(w, frame)
      BY <1>2, <1>4, <2>2, <3>1
    <3> QED BY <2>2, <3>2, <3>3, <3>4
  <2> QED BY <2>1, <2>2
<1>8. r.end = k.end /\ (k.complete => r.complete) /\ r.complete = k.complete
  BY <1>4 DEF SameBut, Fields
<1>9. TypesOK(r)
  BY <1>1, <1>4, <1>6, <1>7 DEF TypesOK, SameBut, Fields
<1>10. KeysOK(r)
  BY <1>1, <1>4 DEF KeysOK, SameBut, Fields
<1>11. StateOK(r)
  BY <1>1, <1>4 DEF StateOK, SameBut, Fields
<1>12. QueuesOK(r)
  <2>1. r.got = k.got /\ r.heard = k.heard
    BY <1>4 DEF SameBut, Fields
  <2> QED BY <1>1, <1>5, <1>6, <1>7, <1>8, <2>1 DEF QueuesOK
<1>13. ReportsOK(r)
  BY <1>1, <1>4 DEF ReportsOK, SameBut, Fields
<1>14. AgreesWith(r, peer)
  BY <1>1, <1>4 DEF AgreesWith, SameBut, Fields
<1>15. Becomes(k, r, peer)
  BY <1>8, <1>9, <1>10, <1>11, <1>12, <1>13, <1>14 DEF Becomes, Good
<1>16. From(p, k.end, k.complete)
  <2>1. /\ p.src = k.end /\ p.space = space /\ p.frame = frame /\ p.ack \subseteq k.got \cap Frames[space]
        /\ p.token = (frame = "CH" /\ k.token)
    BY <1>2
  <2>2. p \in Packet
    <3>1. /\ k.end \in Ends /\ frame \in AllFrames \cup Closes \cup {None}
          /\ (IF with_ack THEN k.got \cap Frames[space] ELSE {}) \in SUBSET AllFrames
          /\ (frame = "CH" /\ k.token) \in BOOLEAN
      BY <1>1, <1>5 DEF TypesOK
    <3> QED BY <1>2, <3>1, Zenon DEF Packet
  <2>3. p.space = "application" /\ p.ack # {} => k.complete
    BY <1>1, <2>1 DEF QueuesOK
  <2> QED BY <2>1, <2>2, <2>3 DEF From
<1> QED BY <1>3, <1>4, <1>8, <1>15, <1>16 DEF Passes

(* A connection sends a frame of its queues, or one more acknowledgement.  *)
LEMMA SendQueuedIsGood ==
  ASSUME NEW k, NEW peer \in BOOLEAN, Good(k, peer), NEW space \in Spaces,
         Queued(k, space) # <<>>, NEW with_ack
  PROVE  /\ Head(Queued(k, space)) \in Holds(k.queue) \cap Frames[space]
         /\ Passes(k, Send(k, space, Head(Queued(k, space)), with_ack), peer)
         /\ SameBut(k, Send(k, space, Head(Queued(k, space)), with_ack).cnx,
                    {"pending", "ack_needed", "queue"})
<1>1. TypesOK(k) /\ QueuesOK(k)
  BY DEF Good
<1>2. PICK f : f = Head(Queued(k, space))
  OBVIOUS
<1>3. f \in Holds(k.queue) \cap Frames[space]
  BY <1>1, <1>2, WithinHolds DEF TypesOK, Queued
<1>4. f \in SentBy(k.end) \cap Frames[space] /\ (f \in {"CF", "DONE"} => k.complete)
  BY <1>1, <1>3 DEF QueuesOK, SentBy, QueuedBy
<1>5. f # "app_close"
  BY <1>3, FramesAre DEF Spaces
<1>6. /\ Passes(k, Send(k, space, f, with_ack), peer)
      /\ SameBut(k, Send(k, space, f, with_ack).cnx, {"pending", "ack_needed", "queue"})
  BY <1>4, <1>5, SendIsGood
<1> QED BY <1>2, <1>3, <1>6

LEMMA SendNoneIsGood ==
  ASSUME NEW k, NEW peer \in BOOLEAN, Good(k, peer), NEW space \in Spaces, NEW with_ack
  PROVE  Passes(k, Send(k, space, None, with_ack), peer)
<1>1. None \notin {"app_close", "CF", "DONE"}
  BY DEF None
<1> QED BY <1>1, SendIsGood

LEMMA RetransmitIsGood ==
  ASSUME NEW k, NEW peer \in BOOLEAN, Good(k, peer), NEW space \in Spaces,
         Lost(k, space) # <<>>
  PROVE  Passes(k, Retransmit(k, space), peer)
<1>1. TypesOK(k) /\ QueuesOK(k)
  BY DEF Good
<1>2. PICK f, h : f = Head(Lost(k, space)) /\ h = [k EXCEPT !.repeat = FALSE]
  OBVIOUS
<1>3. SameBut(k, h, {"repeat"})
  BY <1>1, <1>2 DEF TypesOK, SameBut, Whole, Fields
<1>4. Becomes(k, h, peer)
  <2>1. /\ SameBut(k, h, {"heard", "got", "ack_needed", "recycle", "validated", "repeat", "credit"})
        /\ h.heard = k.heard /\ h.got = k.got
    BY <1>3 DEF SameBut, Fields
  <2>2. k.got \subseteq AllFrames /\ (k.got \cap Frames["application"] # {} => k.complete)
    BY <1>1 DEF TypesOK, QueuesOK
  <2> QED BY <2>1, <2>2, HearsIsGood
<1>5. f \in Holds(k.pending) \cap Frames[space]
  BY <1>1, <1>2, WithinHolds DEF TypesOK, Lost
<1>6. f \in SentBy(k.end) \cap Frames[space] /\ (f \in {"CF", "DONE"} => k.complete)
  BY <1>1, <1>5 DEF QueuesOK
<1>7. f # "app_close"
  BY <1>5, FramesAre DEF Spaces
<1>8. h.end = k.end /\ h.complete = k.complete /\ Good(h, peer)
  BY <1>3, <1>4 DEF Becomes, SameBut, Fields
<1>9. Passes(h, Send(h, space, f, TRUE), peer)
  BY <1>6, <1>7, <1>8, SendIsGood
<1>10. Retransmit(k, space) = Send(h, space, f, TRUE)
  BY <1>2, Zenon DEF Retransmit
<1> QED BY <1>4, <1>9, <1>10, PassesAfter

LEMMA OldContextIsGood ==
  ASSUME NEW k, NEW peer \in BOOLEAN, Good(k, peer), NEW space \in Spaces, NEW expired
  PROVE  Passes(k, OldContext(k, space, expired), peer)
<1>1. CASE Retransmits(k, space, expired)
  BY <1>1, RetransmitIsGood DEF OldContext, Retransmits
<1>2. CASE ~Retransmits(k, space, expired)
  BY <1>2, SendNoneIsGood DEF OldContext
<1> QED BY <1>1, <1>2

(* The step that follows a packet, when it only touches what is sent back. *)
LEMMA SpendIsGood ==
  ASSUME NEW k, NEW peer \in BOOLEAN, NEW r, r = [cnx |-> r.cnx, sent |-> r.sent],
         Passes(k, r, peer)
  PROVE  Passes(k, Spend(r), peer)
<1>1. CASE r.cnx.validated \/ r.sent = {}
  BY <1>1 DEF Spend
<1>2. CASE ~(r.cnx.validated \/ r.sent = {})
  <2>1. PICK c, h : c = r.cnx /\ h = [c EXCEPT !.credit = @ - 1]
    OBVIOUS
  <2>2. Spend(r) = [cnx |-> h, sent |-> r.sent]
    BY <1>2, <2>1 DEF Spend
  <2>3. Good(c, peer)
    BY <2>1 DEF Passes, Becomes
  <2>4. TypesOK(c) /\ QueuesOK(c)
    BY <2>3 DEF Good
  <2>5. SameBut(c, h, {"credit"})
    BY <2>1, <2>4 DEF TypesOK, SameBut, Whole, Fields
  <2>6. Becomes(c, h, peer)
    <3>1. /\ SameBut(c, h, {"heard", "got", "ack_needed", "recycle", "validated", "repeat", "credit"})
          /\ h.heard = c.heard /\ h.got = c.got
      BY <2>5 DEF SameBut, Fields
    <3>2. c.got \subseteq AllFrames /\ (c.got \cap Frames["application"] # {} => c.complete)
      BY <2>4 DEF TypesOK, QueuesOK
    <3> QED BY <2>3, <3>1, <3>2, HearsIsGood
  <2>7. PICK t : t = [cnx |-> h, sent |-> r.sent]
    OBVIOUS
  <2>8. t.cnx = h /\ t.sent = r.sent
    BY <2>7
  <2>9. Passes(k, t, peer)
    BY <2>1, <2>6, <2>8, PassesOn
  <2> QED BY <2>2, <2>7, <2>9
<1> QED BY <1>1, <1>2

(* What is sent comes with the connection after.                           *)
LEMMA SentIsPair ==
  ASSUME NEW k, NEW space, NEW frame, NEW with_ack, NEW expired
  PROVE  /\ Send(k, space, frame, with_ack) = [cnx |-> Send(k, space, frame, with_ack).cnx,
                                               sent |-> Send(k, space, frame, with_ack).sent]
         /\ Retransmit(k, space) = [cnx |-> Retransmit(k, space).cnx,
                                    sent |-> Retransmit(k, space).sent]
         /\ OldContext(k, space, expired) = [cnx |-> OldContext(k, space, expired).cnx,
                                             sent |-> OldContext(k, space, expired).sent]
         /\ Nothing(k) = [cnx |-> Nothing(k).cnx, sent |-> Nothing(k).sent]
<1>1. ASSUME NEW h, NEW s, NEW f, NEW a
      PROVE  Send(h, s, f, a) = [cnx |-> Send(h, s, f, a).cnx, sent |-> Send(h, s, f, a).sent]
  BY DEF Send
<1>2. Retransmit(k, space) = [cnx |-> Retransmit(k, space).cnx, sent |-> Retransmit(k, space).sent]
  BY <1>1, Zenon DEF Retransmit
<1>3. OldContext(k, space, expired) = [cnx |-> OldContext(k, space, expired).cnx,
                                       sent |-> OldContext(k, space, expired).sent]
  <2>1. CASE Retransmits(k, space, expired)
    BY <1>2, <2>1, Zenon DEF OldContext
  <2>2. CASE ~Retransmits(k, space, expired)
    BY <1>1, <2>2, Zenon DEF OldContext
  <2> QED BY <2>1, <2>2
<1>4. Nothing(k) = [cnx |-> Nothing(k).cnx, sent |-> Nothing(k).sent]
  BY DEF Nothing
<1> QED BY <1>1, <1>2, <1>3, <1>4, Zenon

LEMMA ClientProgressIsGood ==
  ASSUME NEW k, NEW peer \in BOOLEAN, Good(k, peer), NEW space
  PROVE  Becomes(k, ClientProgress(k, space), peer)
<1>1. /\ TypesOK(k) /\ StateOK(k) /\ QueuesOK(k)
  BY DEF Good
<1>2. CASE Queued(k, space) # <<>> \/ k.state \notin {"client_init", "client_almost_ready"}
  <2>1. ClientProgress(k, space) = k
    BY <1>2 DEF ClientProgress
  <2> QED BY <2>1, BecomesNothing
<1>3. CASE Queued(k, space) = <<>> /\ k.state \in {"client_init", "client_almost_ready"}
  <2>1. PICK s, r : /\ s = IF k.state = "client_init" THEN "client_init_sent" ELSE "client_ready_start"
                    /\ r = [k EXCEPT !.state = s]
    OBVIOUS
  <2>2. ClientProgress(k, space) = r
    BY <1>3, <2>1 DEF ClientProgress
  <2>3. SameBut(k, r, {"state"}) /\ r.state = s
    BY <1>1, <2>1 DEF TypesOK, SameBut, Whole, Fields
  <2>4. /\ SameBut(k, r, {"state", "heard", "got", "ack_needed", "recycle", "validated", "repeat",
                          "credit", "informed"})
        /\ r.heard = k.heard /\ r.got = k.got
    BY <2>3 DEF SameBut, Fields
  <2>5. k.got \subseteq AllFrames /\ (k.got \cap Frames["application"] # {} => k.complete)
    BY <1>1 DEF TypesOK, QueuesOK
  <2>6. /\ r.state \in States /\ k.state \in EarlyStates /\ k.state # "disconnected"
        /\ r.state # "disconnected"
    BY <1>3, <2>1, <2>3, StatesAre DEF EarlyStates, ClientStates
  <2>7. StateOK(r)
    BY <1>1, <1>3, <2>1, <2>3 DEF StateOK, SameBut, Fields, ServerStates, ClientStates
  <2> QED BY <2>2, <2>4, <2>5, <2>6, <2>7, MovesIsGood
<1> QED BY <1>2, <1>3

LEMMA ServerProgressIsGood ==
  ASSUME NEW k, NEW peer \in BOOLEAN, Good(k, peer), k.end = "s",
         k.state \in {"server_init", "server_handshake", "server_almost_ready"}, NEW epoch,
         epoch = "handshake" => "handshake" \in k.enc
  PROVE  Becomes(k, ServerProgress(k, epoch), peer)
<1>1. TypesOK(k) /\ KeysOK(k) /\ StateOK(k) /\ QueuesOK(k)
  BY DEF Good
<1>2. CASE Queued(k, epoch) # <<>>
  <2>1. ServerProgress(k, epoch) = k
    BY <1>2 DEF ServerProgress
  <2> QED BY <2>1, BecomesNothing
<1>3. CASE Queued(k, epoch) = <<>> /\ epoch = "handshake" /\ ~setup.auth
  <2>1. ServerProgress(k, epoch) = FalseStartTransition(k)
    BY <1>3 DEF ServerProgress
  <2>2. k.state \in ServerStates /\ "application" \in k.enc
    BY <1>1, <1>3 DEF ServerStates, KeysOK
  <2> QED BY <2>1, <2>2, FalseStartIsGood
<1>4. CASE Queued(k, epoch) = <<>> /\ ~(epoch = "handshake" /\ ~setup.auth)
  <2>1. PICK r : r = [k EXCEPT !.state = "server_handshake"]
    OBVIOUS
  <2>2. ServerProgress(k, epoch) = r
    BY <1>4, <2>1 DEF ServerProgress
  <2>3. SameBut(k, r, {"state"}) /\ r.state = "server_handshake"
    BY <1>1, <2>1 DEF TypesOK, SameBut, Whole, Fields
  <2>4. /\ SameBut(k, r, {"state", "heard", "got", "ack_needed", "recycle", "validated", "repeat",
                          "credit", "informed"})
        /\ r.heard = k.heard /\ r.got = k.got
    BY <2>3 DEF SameBut, Fields
  <2>5. k.got \subseteq AllFrames /\ (k.got \cap Frames["application"] # {} => k.complete)
    BY <1>1 DEF TypesOK, QueuesOK
  <2>6. /\ r.state \in States /\ k.state \in EarlyStates /\ k.state # "disconnected"
        /\ r.state # "disconnected"
    BY <2>3, StatesAre DEF EarlyStates, ServerStates
  <2>7. StateOK(r)
    BY <1>1, <2>3 DEF StateOK, SameBut, Fields, ServerStates, ClientStates
  <2> QED BY <2>2, <2>4, <2>5, <2>6, <2>7, MovesIsGood
<1> QED BY <1>2, <1>3, <1>4

(* The two steps of PrepareClientInit that follow a packet.                *)
Settled(r, epoch) ==
  IF epoch = "handshake" THEN [r EXCEPT !.cnx.ack_needed = @ \ {"initial"}] ELSE r

Terminated(r, epoch) ==
  IF epoch = "handshake"
  THEN [r EXCEPT !.cnx = FreeKeys(ImplicitAck(@, "initial"), {"initial"})]
  ELSE r

Pair(r) == r = [cnx |-> r.cnx, sent |-> r.sent]

LEMMA SettledIsGood ==
  ASSUME NEW k, NEW peer \in BOOLEAN, NEW r, Pair(r), Passes(k, r, peer), NEW epoch
  PROVE  /\ Passes(k, Settled(r, epoch), peer) /\ Pair(Settled(r, epoch))
         /\ Settled(r, epoch).cnx.enc = r.cnx.enc /\ Settled(r, epoch).cnx.heard = r.cnx.heard
<1>1. CASE epoch # "handshake"
  BY <1>1 DEF Settled
<1>2. CASE epoch = "handshake"
  <2>1. PICK c, h, t : /\ c = r.cnx /\ h = [c EXCEPT !.ack_needed = @ \ {"initial"}]
                       /\ t = [cnx |-> h, sent |-> r.sent]
    OBVIOUS
  <2>2. Settled(r, epoch) = t
    <3>1. r = [cnx |-> c, sent |-> r.sent]
      BY <2>1 DEF Pair
    <3>2. [r EXCEPT !.cnx.ack_needed = @ \ {"initial"}] = [cnx |-> h, sent |-> r.sent]
      BY <2>1, <3>1
    <3> QED BY <1>2, <2>1, <3>2, Zenon DEF Settled
  <2>3. Good(c, peer) /\ TypesOK(c) /\ QueuesOK(c)
    BY <2>1 DEF Passes, Becomes, Good
  <2>4. SameBut(c, h, {"ack_needed"})
    BY <2>1, <2>3 DEF TypesOK, SameBut, Whole, Fields
  <2>5. Becomes(c, h, peer) /\ h.enc = c.enc /\ h.heard = c.heard
    <3>1. /\ SameBut(c, h, {"heard", "got", "ack_needed", "recycle", "validated", "repeat", "credit"})
          /\ h.heard = c.heard /\ h.got = c.got /\ h.enc = c.enc
      BY <2>4 DEF SameBut, Fields
    <3>2. c.got \subseteq AllFrames /\ (c.got \cap Frames["application"] # {} => c.complete)
      BY <2>3 DEF TypesOK, QueuesOK
    <3> QED BY <2>3, <3>1, <3>2, HearsIsGood
  <2>6. t.cnx = h /\ t.sent = r.sent /\ Pair(t)
    BY <2>1 DEF Pair
  <2> QED BY <2>1, <2>2, <2>5, <2>6, PassesOn
<1> QED BY <1>1, <1>2

LEMMA TerminatedIsGood ==
  ASSUME NEW k, NEW peer \in BOOLEAN, NEW r, Pair(r), Passes(k, r, peer), NEW epoch,
         epoch = "handshake" => "handshake" \in r.cnx.enc \cap r.cnx.heard
  PROVE  Passes(k, Terminated(r, epoch), peer) /\ Pair(Terminated(r, epoch))
<1>1. CASE epoch # "handshake"
  BY <1>1 DEF Terminated
<1>2. CASE epoch = "handshake"
  <2>1. PICK c, a, h, t : /\ c = r.cnx /\ a = ImplicitAck(c, "initial") /\ h = FreeKeys(a, {"initial"})
                          /\ t = [cnx |-> h, sent |-> r.sent]
    OBVIOUS
  <2>2. Terminated(r, epoch) = t
    <3>1. r = [cnx |-> c, sent |-> r.sent]
      BY <2>1 DEF Pair
    <3>2. [r EXCEPT !.cnx = FreeKeys(ImplicitAck(@, "initial"), {"initial"})]
            = [cnx |-> h, sent |-> r.sent]
      BY <2>1, <3>1
    <3> QED BY <1>2, <2>1, <3>2, Zenon DEF Terminated
  <2>3. Good(c, peer)
    BY <2>1 DEF Passes, Becomes
  <2>4. Becomes(c, a, peer) /\ SameBut(c, a, {"pending"})
    BY <2>1, <2>3, ImplicitAckIsGood
  <2>5. Good(a, peer) /\ "handshake" \in a.enc \cap a.heard
    BY <1>2, <2>1, <2>4 DEF Becomes, SameBut, Fields
  <2>6. Becomes(a, h, peer)
    BY <2>1, <2>5, FreeInitialIsGood
  <2>7. Becomes(c, h, peer)
    BY <2>4, <2>6, BecomesMore
  <2>8. t.cnx = h /\ t.sent = r.sent /\ Pair(t)
    BY <2>1 DEF Pair
  <2> QED BY <2>1, <2>2, <2>7, <2>8, PassesOn
<1> QED BY <1>1, <1>2

LEMMA EpochIs ==
  ASSUME NEW k
  PROVE  /\ ClientEpoch(k) \in {"initial", "handshake"} /\ ClientEpoch(k) \in Spaces
         /\ ClientEpoch(k) = "handshake" => "handshake" \in k.enc
  BY DEF ClientEpoch, Spaces

LEMMA ClientInitIsGood ==
  ASSUME NEW k, NEW peer \in BOOLEAN, Good(k, peer), k.state \in ClientStates, NEW expired
  PROVE  Passes(k, PrepareClientInit(k, expired), peer)
<1>1. TypesOK(k) /\ StateOK(k) /\ QueuesOK(k)
  BY DEF Good
<1>2. k.end = "c"
  BY <1>1 DEF TypesOK, StateOK, Ends
<1>3. PICK epoch : epoch = ClientEpoch(k)
  OBVIOUS
<1>4. /\ epoch \in {"initial", "handshake"} /\ epoch \in Spaces
      /\ epoch = "handshake" => "handshake" \in k.enc
  BY <1>3, EpochIs
<1>5. PICK ping, f : /\ ping = IF epoch = "initial" THEN "PI" ELSE "PH"
                     /\ f = Head(Queued(k, epoch))
  OBVIOUS
<1>6. PrepareClientInit(k, expired) =
        IF /\ k.state \in {"client_init_sent", "client_handshake_start"}
           /\ Retransmits(k, epoch, expired)
        THEN Retransmit(k, epoch)
        ELSE IF Queued(k, epoch) # <<>>
        THEN [Terminated(Settled(Send(k, epoch, f, epoch \in k.ack_needed), epoch), epoch)
                EXCEPT !.cnx = ClientProgress(@, epoch)]
        ELSE IF ForcePing(k, expired) THEN Settled(Send(k, epoch, ping, TRUE), epoch)
        ELSE IF epoch \in k.ack_needed THEN Settled(Send(k, epoch, None, TRUE), epoch)
        ELSE Nothing(k)
  BY <1>3, <1>5, Zenon DEF PrepareClientInit, Settled, Terminated
<1>7. Retransmits(k, epoch, expired) => Passes(k, Retransmit(k, epoch), peer)
  BY <1>4, RetransmitIsGood DEF Retransmits
<1>8. ASSUME Queued(k, epoch) # <<>>
      PROVE  Passes(k, [Terminated(Settled(Send(k, epoch, f, epoch \in k.ack_needed), epoch), epoch)
                          EXCEPT !.cnx = ClientProgress(@, epoch)], peer)
  <2>1. PICK r, s, u, c, t :
          /\ r = Send(k, epoch, f, epoch \in k.ack_needed)
          /\ s = Settled(r, epoch) /\ u = Terminated(s, epoch)
          /\ c = ClientProgress(u.cnx, epoch) /\ t = [cnx |-> c, sent |-> u.sent]
    OBVIOUS
  <2>2. /\ f \in Holds(k.queue) \cap Frames[epoch]
        /\ Passes(k, r, peer) /\ SameBut(k, r.cnx, {"pending", "ack_needed", "queue"})
    BY <1>4, <1>5, <1>8, <2>1, SendQueuedIsGood
  <2>3. epoch = "handshake" => "handshake" \in k.enc \cap k.heard
    <3>1. SUFFICES ASSUME epoch = "handshake"
                   PROVE  "handshake" \in k.enc \cap k.heard
      OBVIOUS
    <3>2. f = "CF"
      BY <1>1, <1>2, <2>2, <3>1, FramesAre DEF QueuesOK, QueuedBy
    <3> QED BY <1>1, <1>4, <2>2, <3>1, <3>2 DEF QueuesOK
  <2>4. r.cnx.enc = k.enc /\ r.cnx.heard = k.heard
    BY <2>2 DEF SameBut, Fields
  <2>5. Pair(r)
    BY <2>1, SentIsPair, Zenon DEF Pair
  <2>6. /\ Passes(k, s, peer) /\ Pair(s)
        /\ s.cnx.enc = k.enc /\ s.cnx.heard = k.heard
    BY <2>1, <2>2, <2>4, <2>5, SettledIsGood
  <2>7. Passes(k, u, peer) /\ Pair(u)
    BY <2>1, <2>3, <2>6, TerminatedIsGood
  <2>8. Becomes(u.cnx, c, peer)
    BY <2>1, <2>7, ClientProgressIsGood DEF Passes, Becomes
  <2>9. t.cnx = c /\ t.sent = u.sent
    BY <2>1
  <2>10. Passes(k, t, peer)
    BY <2>7, <2>8, <2>9, PassesOn
  <2>11. [u EXCEPT !.cnx = ClientProgress(@, epoch)] = t
    <3>1. PICK d, n : d = u.cnx /\ n = u.sent
      OBVIOUS
    <3>2. u = [cnx |-> d, sent |-> n]
      BY <2>7, <3>1 DEF Pair
    <3> QED BY <2>1, <3>1, <3>2
  <2> QED BY <2>1, <2>10, <2>11
<1>9. Passes(k, Settled(Send(k, epoch, ping, TRUE), epoch), peer)
  <2>1. /\ ping \in SentBy("c") \cap Frames[epoch]
        /\ ping \notin {"app_close", "CF", "DONE"}
    BY <1>4, <1>5, FramesAre DEF SentBy
  <2>2. Passes(k, Send(k, epoch, ping, TRUE), peer)
    BY <1>2, <1>4, <2>1, SendIsGood
  <2>3. Pair(Send(k, epoch, ping, TRUE))
    BY SentIsPair, Zenon DEF Pair
  <2> QED BY <2>2, <2>3, SettledIsGood
<1>10. Passes(k, Settled(Send(k, epoch, None, TRUE), epoch), peer)
  <2>1. Passes(k, Send(k, epoch, None, TRUE), peer)
    BY <1>4, SendNoneIsGood
  <2>2. Pair(Send(k, epoch, None, TRUE))
    BY SentIsPair, Zenon DEF Pair
  <2> QED BY <2>1, <2>2, SettledIsGood
<1>11. Passes(k, Nothing(k), peer)
  BY PassesNothing
<1> QED BY <1>6, <1>7, <1>8, <1>9, <1>10, <1>11

LEMMA ServerInitIsGood ==
  ASSUME NEW k, NEW peer \in BOOLEAN, Good(k, peer),
         k.state \in {"server_init", "server_handshake", "server_almost_ready"}, NEW expired
  PROVE  Passes(k, PrepareServerInit(k, expired), peer)
<1>1. TypesOK(k) /\ StateOK(k) /\ QueuesOK(k)
  BY DEF Good
<1>2. k.end = "s"
  BY <1>1 DEF TypesOK, StateOK, Ends, ServerStates
<1>3. PICK epoch, f : epoch = ClientEpoch(k) /\ f = Head(Queued(k, epoch))
  OBVIOUS
<1>4. /\ epoch \in {"initial", "handshake"} /\ epoch \in Spaces /\ "initial" \in Spaces
      /\ epoch = "handshake" => "handshake" \in k.enc
  BY <1>3, EpochIs DEF Spaces
<1>5. PrepareServerInit(k, expired) =
        IF ~MaySend(k) THEN Nothing(k)
        ELSE IF epoch = "handshake" /\ OldContextNeeded(k, "initial", expired)
        THEN Spend(OldContext(k, "initial", expired))
        ELSE IF Queued(k, epoch) # <<>>
        THEN Spend([Send(k, epoch, f, TRUE) EXCEPT !.cnx = ServerProgress(@, epoch)])
        ELSE IF epoch \in k.ack_needed THEN Spend(Send(k, epoch, None, TRUE))
        ELSE IF Retransmits(k, epoch, expired) THEN Spend(Retransmit(k, epoch))
        ELSE Nothing(k)
  BY <1>3, Zenon DEF PrepareServerInit
<1>6. Passes(k, Nothing(k), peer)
  BY PassesNothing
<1>7. Passes(k, Spend(OldContext(k, "initial", expired)), peer)
  <2>1. Passes(k, OldContext(k, "initial", expired), peer)
    BY <1>4, OldContextIsGood
  <2> QED BY <2>1, SentIsPair, SpendIsGood
<1>8. ASSUME Queued(k, epoch) # <<>>
      PROVE  Passes(k, Spend([Send(k, epoch, f, TRUE) EXCEPT !.cnx = ServerProgress(@, epoch)]), peer)
  <2>1. PICK r, c, h, t : /\ r = Send(k, epoch, f, TRUE) /\ c = r.cnx
                          /\ h = ServerProgress(c, epoch) /\ t = [cnx |-> h, sent |-> r.sent]
    OBVIOUS
  <2>2. Passes(k, r, peer) /\ SameBut(k, c, {"pending", "ack_needed", "queue"})
    BY <1>3, <1>4, <1>8, <2>1, SendQueuedIsGood
  <2>3. c.end = k.end /\ c.state = k.state /\ c.enc = k.enc /\ Good(c, peer)
    BY <2>1, <2>2 DEF SameBut, Fields, Passes, Becomes
  <2>4. Becomes(c, h, peer)
    BY <1>2, <1>4, <2>1, <2>3, ServerProgressIsGood
  <2>5. t.cnx = h /\ t.sent = r.sent /\ t = [cnx |-> t.cnx, sent |-> t.sent]
    BY <2>1
  <2>6. Passes(k, t, peer)
    BY <2>1, <2>2, <2>4, <2>5, PassesOn
  <2>7. Passes(k, Spend(t), peer)
    BY <2>5, <2>6, SpendIsGood
  <2>8. [r EXCEPT !.cnx = ServerProgress(@, epoch)] = t
    <3>1. PICK d, n : d = r.cnx /\ n = r.sent
      OBVIOUS
    <3>2. Pair(r)
      BY <2>1, SentIsPair, Zenon DEF Pair
    <3>3. r = [cnx |-> d, sent |-> n] /\ h = ServerProgress(d, epoch)
      BY <2>1, <3>1, <3>2 DEF Pair
    <3>4. [r EXCEPT !.cnx = ServerProgress(@, epoch)] = [cnx |-> ServerProgress(d, epoch), sent |-> n]
      BY <3>3
    <3> QED BY <2>1, <3>1, <3>3, <3>4
  <2> QED BY <2>1, <2>7, <2>8
<1>9. Passes(k, Spend(Send(k, epoch, None, TRUE)), peer)
  <2>1. Passes(k, Send(k, epoch, None, TRUE), peer)
    BY <1>4, SendNoneIsGood
  <2> QED BY <2>1, SentIsPair, SpendIsGood
<1>10. ASSUME Retransmits(k, epoch, expired)
       PROVE  Passes(k, Spend(Retransmit(k, epoch)), peer)
  <2>1. Passes(k, Retransmit(k, epoch), peer)
    BY <1>4, <1>10, RetransmitIsGood DEF Retransmits
  <2> QED BY <2>1, SentIsPair, SpendIsGood
<1> QED BY <1>5, <1>6, <1>7, <1>8, <1>9, <1>10

LEMMA ApplicationIsGood ==
  ASSUME NEW k, NEW peer \in BOOLEAN, Good(k, peer), NEW expired
  PROVE  /\ Passes(k, PrepareApplication(k, expired), peer)
         /\ Pair(PrepareApplication(k, expired))
<1>1. "application" \in Spaces
  BY DEF Spaces
<1>2. PrepareApplication(k, expired) =
        IF (IsClient(k) \/ k.state = "ready") /\ Retransmits(k, "application", expired)
        THEN Retransmit(k, "application")
        ELSE IF Queued(k, "application") # <<>>
        THEN Send(k, "application", Head(Queued(k, "application")), TRUE)
        ELSE IF "application" \in k.ack_needed THEN Send(k, "application", None, TRUE)
        ELSE Nothing(k)
  BY Zenon DEF PrepareApplication
<1>3. ASSUME Retransmits(k, "application", expired)
      PROVE  Passes(k, Retransmit(k, "application"), peer)
  BY <1>1, <1>3, RetransmitIsGood DEF Retransmits
<1>4. ASSUME Queued(k, "application") # <<>>
      PROVE  Passes(k, Send(k, "application", Head(Queued(k, "application")), TRUE), peer)
  BY <1>1, <1>4, SendQueuedIsGood
<1>5. Passes(k, Send(k, "application", None, TRUE), peer) /\ Passes(k, Nothing(k), peer)
  BY <1>1, SendNoneIsGood, PassesNothing
<1>6. /\ Pair(Retransmit(k, "application")) /\ Pair(Nothing(k))
      /\ Pair(Send(k, "application", Head(Queued(k, "application")), TRUE))
      /\ Pair(Send(k, "application", None, TRUE))
  BY SentIsPair, Zenon DEF Pair
<1> QED BY <1>2, <1>3, <1>4, <1>5, <1>6

LEMMA AlmostReadyIsGood ==
  ASSUME NEW k, NEW peer \in BOOLEAN, Good(k, peer), NEW expired
  PROVE  Passes(k, PrepareAlmostReady(k, expired), peer)
<1>1. "initial" \in Spaces /\ "handshake" \in Spaces
  BY DEF Spaces
<1>2. Passes(k, Nothing(k), peer)
  BY PassesNothing
<1>3. ASSUME NEW space \in Spaces
      PROVE  Passes(k, Spend(OldContext(k, space, expired)), peer)
  <2>1. Passes(k, OldContext(k, space, expired), peer)
    BY OldContextIsGood
  <2> QED BY <2>1, SentIsPair, SpendIsGood
<1>4. Passes(k, Spend(PrepareApplication(k, expired)), peer)
  BY ApplicationIsGood, SpendIsGood DEF Pair
<1> QED BY <1>1, <1>2, <1>3, <1>4 DEF PrepareAlmostReady

(* The application, or what it sends, moves the state on.                  *)
LEMMA StateIsGood ==
  ASSUME NEW k, NEW peer \in BOOLEAN, Good(k, peer), NEW state,
         state \in {"handshake_failure", "handshake_failure_resend", "disconnecting", "closing",
                    "draining"},
         k.state # "disconnected",
         state \in EarlyStates => k.state \in EarlyStates,
         state \in {"disconnecting", "closing"} => "application" \in k.enc,
         state = "handshake_failure_resend" => "handshake" \in k.enc
  PROVE  Becomes(k, [k EXCEPT !.state = state], peer)
<1>1. PICK r : r = [k EXCEPT !.state = state]
  OBVIOUS
<1>2. TypesOK(k) /\ StateOK(k) /\ QueuesOK(k)
  BY DEF Good
<1>3. SameBut(k, r, {"state"}) /\ r.state = state
  BY <1>1, <1>2 DEF TypesOK, SameBut, Whole, Fields
<1>4. r.state \in States
  BY <1>3, StatesAre
<1>5. StateOK(r)
  BY <1>3 DEF StateOK, SameBut, Fields, ServerStates, ClientStates
<1>6. /\ SameBut(k, r, {"state", "heard", "got", "ack_needed", "recycle", "validated", "repeat",
                        "credit", "informed"})
      /\ r.heard = k.heard /\ r.got = k.got
  BY <1>3 DEF SameBut, Fields
<1>7. Becomes(k, r, peer)
  BY <1>2, <1>3, <1>4, <1>5, <1>6, MovesIsGood DEF TypesOK, QueuesOK
<1> QED BY <1>1, <1>7

LEMMA CloseIsSent ==
  ASSUME NEW k, NEW peer \in BOOLEAN, Good(k, peer), NEW space \in Spaces, NEW frame \in Closes,
         frame = "app_close" => space = "application", NEW with_ack
  PROVE  /\ Passes(k, Send(k, space, frame, with_ack), peer)
         /\ SameBut(k, Send(k, space, frame, with_ack).cnx, {"pending", "ack_needed", "queue"})
         /\ Pair(Send(k, space, frame, with_ack))
<1>1. frame \in (SentBy(k.end) \cap Frames[space]) \cup Closes \cup {None}
  OBVIOUS
<1>2. frame \notin {"CF", "DONE"}
  BY DEF Closes
<1>3. Pair(Send(k, space, frame, with_ack))
  BY SentIsPair, Zenon DEF Pair
<1> QED BY <1>1, <1>2, <1>3, SendIsGood

LEMMA ClosingIsGood ==
  ASSUME NEW k, NEW peer \in BOOLEAN, Good(k, peer), NEW expired
  PROVE  Passes(k, PrepareClosing(k, expired), peer)
<1>1. /\ TypesOK(k) /\ StateOK(k) /\ KeysOK(k)
      /\ "conn_close" \in Closes /\ "app_close" \in Closes /\ "conn_close" # "app_close"
      /\ "initial" \in Spaces /\ "handshake" \in Spaces /\ "application" \in Spaces
  BY DEF Good, Closes, Spaces
<1>2. ASSUME NEW c, NEW n, NEW h, Passes(k, [cnx |-> c, sent |-> n], peer), Becomes(c, h, peer)
      PROVE  Passes(k, [cnx |-> h, sent |-> n], peer)
  <2>1. PICK r, t : r = [cnx |-> c, sent |-> n] /\ t = [cnx |-> h, sent |-> n]
    OBVIOUS
  <2>2. r.cnx = c /\ t.cnx = h /\ t.sent = r.sent
    BY <2>1
  <2>3. Passes(k, t, peer)
    BY <1>2, <2>1, <2>2, PassesOn
  <2> QED BY <2>1, <2>3
<1>3. /\ Passes(k, Nothing(k), peer)
      /\ Passes(k, Nothing(Disconnect(k)), peer)
  <2>1. Passes(k, Nothing(k), peer)
    BY PassesNothing
  <2>2. PICK d : d = Disconnect(k)
    OBVIOUS
  <2>3. Becomes(k, d, peer) /\ Good(d, peer)
    BY <2>2, DisconnectIsGood DEF Becomes
  <2>4. Passes(d, Nothing(d), peer)
    BY <2>3, PassesNothing
  <2>5. Passes(k, Nothing(d), peer)
    BY <2>3, <2>4, PassesAfter
  <2> QED BY <2>1, <2>2, <2>5
<1>4. CASE k.state = "handshake_failure"
  <2>1. PICK space : /\ space = FailureSpace(k) /\ space \in {"initial", "handshake"}
                     /\ space \in Spaces
    BY <1>1 DEF FailureSpace
  <2>2. PICK c, n : /\ Send(k, space, "conn_close", TRUE) = [cnx |-> c, sent |-> n]
                    /\ Passes(k, [cnx |-> c, sent |-> n], peer)
                    /\ Good(c, peer) /\ c.state = k.state /\ c.enc = k.enc
    <3>1. PICK r, c, n : r = Send(k, space, "conn_close", TRUE) /\ c = r.cnx /\ n = r.sent
      OBVIOUS
    <3>2. /\ Passes(k, r, peer) /\ Pair(r)
          /\ SameBut(k, r.cnx, {"pending", "ack_needed", "queue"})
      BY <3>1, <1>1, <2>1, CloseIsSent
    <3>3. Good(r.cnx, peer) /\ r.cnx.state = k.state /\ r.cnx.enc = k.enc
      BY <3>2 DEF Passes, Becomes, SameBut, Fields
    <3>4. r = [cnx |-> c, sent |-> n]
      BY <3>1, <3>2 DEF Pair
    <3> QED BY <3>1, <3>2, <3>3, <3>4
  <2>3. PICK h, d : h = [c EXCEPT !.state = "handshake_failure_resend"] /\ d = Disconnect(c)
    OBVIOUS
  <2>4. /\ [[cnx |-> c, sent |-> n] EXCEPT !.cnx.state = "handshake_failure_resend"]
             = [cnx |-> h, sent |-> n]
        /\ [[cnx |-> c, sent |-> n] EXCEPT !.cnx = Disconnect(@)] = [cnx |-> d, sent |-> n]
    BY <2>3
  <2>5. PrepareClosing(k, expired) =
          IF space = "initial" /\ "handshake" \in k.enc
          THEN [[cnx |-> c, sent |-> n] EXCEPT !.cnx.state = "handshake_failure_resend"]
          ELSE [[cnx |-> c, sent |-> n] EXCEPT !.cnx = Disconnect(@)]
    <3>1. PrepareClosing(k, expired) =
            IF space = "initial" /\ "handshake" \in k.enc
            THEN [Send(k, space, "conn_close", TRUE)
                    EXCEPT !.cnx.state = "handshake_failure_resend"]
            ELSE [Send(k, space, "conn_close", TRUE) EXCEPT !.cnx = Disconnect(@)]
      BY <1>4, <2>1 DEF PrepareClosing
    <3> QED BY <2>2, <3>1, Zenon
  <2>6. CASE space = "initial" /\ "handshake" \in k.enc
    <3>1. /\ "handshake_failure_resend" \in EarlyStates /\ "handshake_failure" \in EarlyStates
          /\ "handshake_failure" # "disconnected"
      BY DEF EarlyStates
    <3>2. Becomes(c, h, peer)
      BY <1>4, <2>2, <2>3, <2>6, <3>1, StateIsGood
    <3>3. Passes(k, [cnx |-> h, sent |-> n], peer)
      BY <1>2, <2>2, <3>2
    <3> QED BY <2>4, <2>5, <2>6, <3>3, Zenon
  <2>7. CASE ~(space = "initial" /\ "handshake" \in k.enc)
    <3>1. Becomes(c, d, peer)
      BY <2>2, <2>3, DisconnectIsGood
    <3>2. Passes(k, [cnx |-> d, sent |-> n], peer)
      BY <1>2, <2>2, <3>1
    <3> QED BY <2>4, <2>5, <2>7, <3>2, Zenon
  <2> QED BY <2>6, <2>7
<1>5. CASE k.state = "handshake_failure_resend"
  <2>1. PICK c, n : /\ Send(k, "handshake", "conn_close", TRUE) = [cnx |-> c, sent |-> n]
                    /\ Passes(k, [cnx |-> c, sent |-> n], peer)
                    /\ Good(c, peer) /\ c.state = k.state /\ c.enc = k.enc
    <3>1. PICK r, c, n : r = Send(k, "handshake", "conn_close", TRUE) /\ c = r.cnx /\ n = r.sent
      OBVIOUS
    <3>2. /\ Passes(k, r, peer) /\ Pair(r)
          /\ SameBut(k, r.cnx, {"pending", "ack_needed", "queue"})
      BY <3>1, <1>1, CloseIsSent
    <3>3. Good(r.cnx, peer) /\ r.cnx.state = k.state /\ r.cnx.enc = k.enc
      BY <3>2 DEF Passes, Becomes, SameBut, Fields
    <3>4. r = [cnx |-> c, sent |-> n]
      BY <3>1, <3>2 DEF Pair
    <3> QED BY <3>1, <3>2, <3>3, <3>4
  <2>2. PICK d : d = Disconnect(c)
    OBVIOUS
  <2>3. [[cnx |-> c, sent |-> n] EXCEPT !.cnx = Disconnect(@)] = [cnx |-> d, sent |-> n]
    BY <2>2
  <2>4. PrepareClosing(k, expired) = [Send(k, "handshake", "conn_close", TRUE)
                                        EXCEPT !.cnx = Disconnect(@)]
    BY <1>5 DEF PrepareClosing
  <2>5. Becomes(c, d, peer)
    BY <2>1, <2>2, DisconnectIsGood
  <2>6. Passes(k, [cnx |-> d, sent |-> n], peer)
    BY <1>2, <2>1, <2>5
  <2> QED BY <2>1, <2>3, <2>4, <2>6, Zenon
<1>6. CASE k.state = "disconnecting"
  <2>1. PICK c, n : /\ Send(k, "application", "app_close", TRUE) = [cnx |-> c, sent |-> n]
                    /\ Passes(k, [cnx |-> c, sent |-> n], peer)
                    /\ Good(c, peer) /\ c.state = k.state /\ c.enc = k.enc
    <3>1. PICK r, c, n : r = Send(k, "application", "app_close", TRUE) /\ c = r.cnx /\ n = r.sent
      OBVIOUS
    <3>2. /\ Passes(k, r, peer) /\ Pair(r)
          /\ SameBut(k, r.cnx, {"pending", "ack_needed", "queue"})
      BY <3>1, <1>1, CloseIsSent
    <3>3. Good(r.cnx, peer) /\ r.cnx.state = k.state /\ r.cnx.enc = k.enc
      BY <3>2 DEF Passes, Becomes, SameBut, Fields
    <3>4. r = [cnx |-> c, sent |-> n]
      BY <3>1, <3>2 DEF Pair
    <3> QED BY <3>1, <3>2, <3>3, <3>4
  <2>2. PICK h, m, a : /\ h = [c EXCEPT !.state = "closing"] /\ a = c.ack_needed \ {"application"}
                       /\ m = [h EXCEPT !.ack_needed = a]
    OBVIOUS
  <2>3. [[cnx |-> c, sent |-> n] EXCEPT !.cnx.state = "closing",
                                        !.cnx.ack_needed = @ \ {"application"}]
          = [cnx |-> m, sent |-> n]
    <3>1. /\ [[cnx |-> c, sent |-> n] EXCEPT !.cnx.state = "closing"] = [cnx |-> h, sent |-> n]
          /\ [[cnx |-> h, sent |-> n] EXCEPT !.cnx.ack_needed = a] = [cnx |-> m, sent |-> n]
      BY <2>2
    <3> QED BY <2>2, <3>1
  <2>4. PrepareClosing(k, expired) = [Send(k, "application", "app_close", TRUE)
                                        EXCEPT !.cnx.state = "closing",
                                               !.cnx.ack_needed = @ \ {"application"}]
    BY <1>6 DEF PrepareClosing
  <2>5. Becomes(c, m, peer)
    <3>1. "application" \in c.enc
      BY <1>1, <1>6, <2>1 DEF StateOK
    <3>2. "closing" \notin EarlyStates /\ "closing" # "handshake_failure_resend"
      BY DEF EarlyStates, ServerStates, ClientStates
    <3>3. c.state = "disconnecting" /\ c.state # "disconnected"
      BY <1>6, <2>1
    <3>4. Becomes(c, h, peer)
      BY <2>1, <2>2, <3>1, <3>2, <3>3, StateIsGood
    <3>5. Good(h, peer) /\ TypesOK(h) /\ QueuesOK(h)
      BY <3>4 DEF Becomes, Good
    <3>6. SameBut(h, m, {"ack_needed"})
      BY <2>2, <3>5 DEF TypesOK, SameBut, Whole, Fields
    <3>7. /\ SameBut(h, m, {"heard", "got", "ack_needed", "recycle", "validated", "repeat", "credit"})
          /\ m.heard = h.heard /\ m.got = h.got
      BY <3>6 DEF SameBut, Fields
    <3>8. Becomes(h, m, peer)
      BY <3>5, <3>7, HearsIsGood DEF TypesOK, QueuesOK
    <3> QED BY <3>4, <3>8, BecomesMore
  <2>6. Passes(k, [cnx |-> m, sent |-> n], peer)
    BY <1>2, <2>1, <2>5
  <2> QED BY <2>1, <2>3, <2>4, <2>6, Zenon
<1>7. CASE k.state = "closing_received"
  <2>1. PICK c, n : /\ Send(k, "application", "conn_close", FALSE) = [cnx |-> c, sent |-> n]
                    /\ Passes(k, [cnx |-> c, sent |-> n], peer)
                    /\ Good(c, peer) /\ c.state = k.state /\ c.enc = k.enc
    <3>1. PICK r, c, n : r = Send(k, "application", "conn_close", FALSE) /\ c = r.cnx /\ n = r.sent
      OBVIOUS
    <3>2. /\ Passes(k, r, peer) /\ Pair(r)
          /\ SameBut(k, r.cnx, {"pending", "ack_needed", "queue"})
      BY <3>1, <1>1, CloseIsSent
    <3>3. Good(r.cnx, peer) /\ r.cnx.state = k.state /\ r.cnx.enc = k.enc
      BY <3>2 DEF Passes, Becomes, SameBut, Fields
    <3>4. r = [cnx |-> c, sent |-> n]
      BY <3>1, <3>2 DEF Pair
    <3> QED BY <3>1, <3>2, <3>3, <3>4
  <2>2. PICK h : h = [c EXCEPT !.state = "draining"]
    OBVIOUS
  <2>3. [[cnx |-> c, sent |-> n] EXCEPT !.cnx.state = "draining"] = [cnx |-> h, sent |-> n]
    BY <2>2
  <2>4. PrepareClosing(k, expired) = [Send(k, "application", "conn_close", FALSE)
                                        EXCEPT !.cnx.state = "draining"]
    BY <1>7 DEF PrepareClosing
  <2>5. Becomes(c, h, peer)
    <3>1. "draining" \notin EarlyStates
      BY DEF EarlyStates, ServerStates, ClientStates
    <3> QED BY <1>7, <2>1, <2>2, <3>1, StateIsGood
  <2>6. Passes(k, [cnx |-> h, sent |-> n], peer)
    BY <1>2, <2>1, <2>5
  <2> QED BY <2>1, <2>3, <2>4, <2>6, Zenon
<1>8. CASE k.state = "closing"
  <2>1. PICK h : h = [k EXCEPT !.ack_needed = @ \ {"application"}]
    OBVIOUS
  <2>2. PrepareClosing(k, expired) =
          IF expired THEN Nothing(Disconnect(k))
          ELSE IF "application" \in k.ack_needed
          THEN Send([k EXCEPT !.ack_needed = @ \ {"application"}],
                    "application", "app_close", FALSE)
          ELSE Nothing(k)
    BY <1>8 DEF PrepareClosing
  <2>3. TypesOK(k) /\ QueuesOK(k)
    BY DEF Good
  <2>4. SameBut(k, h, {"ack_needed"})
    BY <2>1, <2>3 DEF TypesOK, SameBut, Whole, Fields
  <2>5. /\ SameBut(k, h, {"heard", "got", "ack_needed", "recycle", "validated", "repeat", "credit"})
        /\ h.heard = k.heard /\ h.got = k.got
    BY <2>4 DEF SameBut, Fields
  <2>6. Becomes(k, h, peer)
    BY <2>3, <2>5, HearsIsGood DEF TypesOK, QueuesOK
  <2>7. Good(h, peer)
    BY <2>6 DEF Becomes
  <2>8. PICK c, n : /\ Send(h, "application", "app_close", FALSE) = [cnx |-> c, sent |-> n]
                    /\ Passes(h, [cnx |-> c, sent |-> n], peer)
    <3>1. PICK r, c, n : r = Send(h, "application", "app_close", FALSE) /\ c = r.cnx /\ n = r.sent
      OBVIOUS
    <3>2. /\ Passes(h, r, peer) /\ Pair(r)
          /\ SameBut(h, r.cnx, {"pending", "ack_needed", "queue"})
      BY <3>1, <1>1, <2>7, CloseIsSent
    <3>3. Good(r.cnx, peer) /\ r.cnx.state = h.state /\ r.cnx.enc = h.enc
      BY <3>2 DEF Passes, Becomes, SameBut, Fields
    <3>4. r = [cnx |-> c, sent |-> n]
      BY <3>1, <3>2 DEF Pair
    <3> QED BY <3>1, <3>2, <3>3, <3>4
  <2>9. Passes(k, Send(h, "application", "app_close", FALSE), peer)
    BY <2>6, <2>8, PassesAfter
  <2> QED BY <1>3, <2>1, <2>2, <2>9
<1>9. CASE k.state \notin {"handshake_failure", "handshake_failure_resend", "disconnecting",
                           "closing_received", "closing"}
  <2>1. PrepareClosing(k, expired) = IF expired THEN Nothing(Disconnect(k)) ELSE Nothing(k)
    BY <1>9 DEF PrepareClosing
  <2> QED BY <1>3, <2>1
<1> QED BY <1>4, <1>5, <1>6, <1>7, <1>8, <1>9

LEMMA PreparedIsGood ==
  ASSUME NEW k, NEW peer \in BOOLEAN, Good(k, peer), NEW expired, NEW ok
  PROVE  Passes(k, Prepared(k, expired, ok), peer)
<1>1. ASSUME NEW h, Good(h, peer)
      PROVE  Passes(h, PrepareSegment(h, expired), peer)
  <2>1. CASE h.state \in {"client_init", "client_init_sent", "client_handshake_start",
                          "client_almost_ready"}
    <3>1. PrepareSegment(h, expired) = PrepareClientInit(h, expired)
      BY <2>1 DEF PrepareSegment
    <3>2. h.state \in ClientStates
      BY <2>1 DEF ClientStates
    <3> QED BY <1>1, <3>1, <3>2, ClientInitIsGood
  <2>2. CASE h.state \in {"server_init", "server_handshake", "server_almost_ready"}
    <3>1. PrepareSegment(h, expired) = PrepareServerInit(h, expired)
      BY <2>2 DEF PrepareSegment
    <3> QED BY <1>1, <2>2, <3>1, ServerInitIsGood
  <2>3. CASE h.state = "server_false_start" /\ "application" \in h.dec
    <3>1. PICK r : r = ReadyStateTransition(h)
      OBVIOUS
    <3>2. PrepareSegment(h, expired) = PrepareApplication(ReadyStateTransition(h), expired)
      BY <2>3 DEF PrepareSegment
    <3>3. h.state \in EarlyStates /\ h.complete /\ peer
      BY <1>1, <2>3 DEF Good, TypesOK, KeysOK, StateOK, AgreesWith, Ends, EarlyStates, ServerStates
    <3>4. Becomes(h, r, peer) /\ Good(r, peer)
      BY <1>1, <3>1, <3>3, ReadyIsGood DEF Becomes
    <3>5. Passes(r, PrepareApplication(r, expired), peer)
      BY <3>4, ApplicationIsGood
    <3> QED BY <3>1, <3>2, <3>4, <3>5, PassesAfter
  <2>4. CASE \/ h.state = "client_ready_start"
             \/ h.state = "server_false_start" /\ "application" \notin h.dec
    <3>1. PrepareSegment(h, expired) = PrepareAlmostReady(h, expired)
      BY <2>4 DEF PrepareSegment
    <3> QED BY <1>1, <3>1, AlmostReadyIsGood
  <2>5. CASE h.state = "ready"
    <3>1. PrepareSegment(h, expired) = PrepareApplication(h, expired)
      BY <2>5 DEF PrepareSegment
    <3> QED BY <1>1, <3>1, ApplicationIsGood
  <2>6. CASE h.state \in {"server_none", "disconnected"}
    <3>1. PrepareSegment(h, expired) = Nothing(h)
      BY <2>6 DEF PrepareSegment
    <3> QED BY <1>1, <3>1, PassesNothing
  <2>7. CASE h.state \notin {"client_init", "client_init_sent", "client_handshake_start",
                             "client_almost_ready", "server_init", "server_handshake",
                             "server_almost_ready", "server_false_start", "client_ready_start",
                             "ready", "server_none", "disconnected"}
    <3>1. PrepareSegment(h, expired) = PrepareClosing(h, expired)
      BY <2>7 DEF PrepareSegment
    <3> QED BY <1>1, <3>1, ClosingIsGood
  <2> QED BY <2>1, <2>2, <2>3, <2>4, <2>5, <2>6, <2>7
<1>2. PICK h : h = IF k.recycle THEN ProcessSooner(k, ok) ELSE k
  OBVIOUS
<1>3. Becomes(k, h, peer)
  BY <1>2, ProcessSoonerIsGood, BecomesNothing
<1>4. Passes(h, PrepareSegment(h, expired), peer)
  BY <1>1, <1>3 DEF Becomes
<1> QED BY <1>2, <1>3, <1>4, PassesAfter, Zenon DEF Prepared

(* One end moves on, and what it sends is on its way or was lost.          *)
LEMMA OneEndMoves ==
  ASSUME IInv, NEW e \in Ends, NEW r, NEW sent,
         Becomes(cnx[e], r, cnx[Peer(e)].complete),
         \A p \in sent : From(p, e, r.complete),
         cnx' = [cnx EXCEPT ![e] = r], net' \subseteq net \cup sent
  PROVE  IInv'
<1>1. \A x \in Ends : cnx[x].end = x /\ Good(cnx[x], cnx[Peer(x)].complete)
  BY DEF IInv
<1>2. /\ \A x \in Ends : cnx'[x] = IF x = e THEN r ELSE cnx[x]
      /\ cnx' = [x \in Ends |-> cnx'[x]]
  BY DEF IInv
<1>3. /\ Peer(e) \in Ends /\ Peer(e) # e /\ Peer(Peer(e)) = e
      /\ \A x \in Ends : x = e \/ x = Peer(e)
  BY DEF Peer, Ends
<1>4. PICK k, peer : k = cnx[e] /\ peer = cnx[Peer(e)]
  OBVIOUS
<1>5. Good(r, peer.complete) /\ r.end = k.end /\ (k.complete => r.complete)
  BY <1>4 DEF Becomes
<1>6. k.complete \in BOOLEAN /\ r.complete \in BOOLEAN /\ peer.complete \in BOOLEAN
  BY <1>1, <1>3, <1>4, <1>5 DEF Good, TypesOK
<1>7. k.end = e /\ peer.end = Peer(e) /\ Good(peer, k.complete)
  BY <1>1, <1>3, <1>4
<1>8. Good(peer, r.complete)
  BY <1>5, <1>6, <1>7, GoodForMore
<1>9. cnx'[e] = r /\ cnx'[Peer(e)] = peer
  BY <1>2, <1>3, <1>4
<1>10. \A x \in Ends : cnx'[x].end = x /\ Good(cnx'[x], cnx'[Peer(x)].complete)
  BY <1>3, <1>5, <1>7, <1>8, <1>9
<1>11. ASSUME NEW p \in net'
       PROVE  p = Retry \/ \E x \in Ends : From(p, x, cnx'[x].complete)
  <2>1. CASE p \in sent
    BY <1>9, <2>1
  <2>2. CASE p = Retry
    BY <2>2
  <2>3. ASSUME NEW x \in Ends, From(p, x, cnx[x].complete)
        PROVE  From(p, x, cnx'[x].complete)
    <3>1. cnx[x].complete => cnx'[x].complete
      BY <1>3, <1>4, <1>5, <1>9
    <3> QED BY <2>3, <3>1 DEF From
  <2> QED BY <2>1, <2>2, <2>3 DEF IInv
<1> QED BY <1>2, <1>10, <1>11 DEF IInv

LEMMA OneEndOnly ==
  ASSUME IInv, NEW e \in Ends, NEW r, Becomes(cnx[e], r, cnx[Peer(e)].complete),
         cnx' = [cnx EXCEPT ![e] = r], net' \subseteq net
  PROVE  IInv'
<1>1. PICK sent : sent = {}
  OBVIOUS
<1>2. (\A p \in sent : From(p, e, r.complete)) /\ net' \subseteq net \cup sent
  BY <1>1
<1> QED BY <1>2, OneEndMoves

LEMMA CreatedIsGood ==
  ASSUME NEW e \in Ends
  PROVE  Created(e).end = e /\ Good(Created(e), FALSE)
<1>1. PICK r : r = Created(e)
  OBVIOUS
<1>2. /\ Whole(r)
      /\ r.end = e /\ r.state = (IF e = "c" THEN "client_init" ELSE "server_none")
      /\ r.token = FALSE
      /\ r.queue = IF e = "c" THEN <<"CH", "Rc">> ELSE <<"Rs">>
      /\ r.pending = <<>> /\ r.sooner = <<>> /\ r.got = {}
      /\ r.enc = {"initial"} /\ r.dec = {"initial"} /\ r.complete = FALSE
      /\ r.is_ready = 0 /\ r.closed = 0
  BY <1>1 DEF Created, Whole, Fields
<1>3. /\ Holds(r.queue) \subseteq QueuedBy(e)
      /\ {"CF", "DONE"} \cap Holds(r.queue) = {}
      /\ r.queue \in Seq(AllFrames)
  <2>1. Holds(<<"CH", "Rc">>) = {"CH", "Rc"} /\ Holds(<<"Rs">>) = {"Rs"}
    BY HoldsFew, Zenon
  <2>2. Holds(r.queue) = IF e = "c" THEN {"CH", "Rc"} ELSE {"Rs"}
    BY <1>2, <2>1
  <2>3. "CH" \in AllFrames /\ "Rc" \in AllFrames /\ "Rs" \in AllFrames
    BY FramesAre
  <2>4. r.queue \in Seq(AllFrames)
    BY <1>2, <2>3
  <2>5. Holds(r.queue) \subseteq QueuedBy(e) /\ {"CF", "DONE"} \cap Holds(r.queue) = {}
    BY <2>2 DEF QueuedBy
  <2> QED BY <2>4, <2>5
<1>4. /\ Holds(r.pending) = {} /\ Holds(r.sooner) = {}
      /\ r.pending \in Seq(AllFrames) /\ r.sooner \in Seq(Packet)
  BY <1>2, HoldsNone
<1>5. r.state \in States
  BY <1>2 DEF States, Rank
<1>6. TypesOK(r)
  BY <1>2, <1>3, <1>4, <1>5 DEF TypesOK
<1>7. KeysOK(r)
  BY <1>2 DEF KeysOK
<1>8. StateOK(r)
  BY <1>2 DEF StateOK, Ends, ServerStates, ClientStates
<1>9. QueuesOK(r)
  BY <1>2, <1>3, <1>4 DEF QueuesOK
<1>10. ReportsOK(r)
  BY <1>2 DEF ReportsOK
<1>11. AgreesWith(r, FALSE)
  BY <1>2, <1>4 DEF AgreesWith
<1> QED BY <1>1, <1>2, <1>6, <1>7, <1>8, <1>9, <1>10, <1>11 DEF Good

LEMMA InitIsGood ==
  ASSUME Init
  PROVE  IInv
<1>1. cnx = [e \in Ends |-> cnx[e]] /\ \A e \in Ends : cnx[e] = Created(e) /\ Peer(e) \in Ends
  BY DEF Init, Ends, Peer
<1>2. ASSUME NEW e \in Ends
      PROVE  cnx[e].end = e /\ Good(cnx[e], cnx[Peer(e)].complete)
  <2>1. cnx[Peer(e)].complete = FALSE
    BY <1>1 DEF Created
  <2> QED BY <1>1, <2>1, CreatedIsGood
<1>3. net = {}
  BY DEF Init
<1> QED BY <1>1, <1>2, <1>3 DEF IInv

LEMMA ReceiveIsGood ==
  ASSUME IInv, NEW p \in net, Receive(p)
  PROVE  IInv'
<1>1. PICK e, k : e = Peer(p.src) /\ k = cnx[e]
  OBVIOUS
<1>2. /\ e \in Ends /\ k.end = e
      /\ p = Retry \/ From(p, Peer(e), cnx[Peer(e)].complete)
  <2>1. CASE p = Retry
    <3>1. e = "c"
      BY <1>1, <2>1 DEF Retry, Peer
    <3> QED BY <1>1, <2>1, <3>1 DEF IInv, Ends
  <2>2. ASSUME NEW x \in Ends, From(p, x, cnx[x].complete)
        PROVE  e \in Ends /\ k.end = e /\ From(p, Peer(e), cnx[Peer(e)].complete)
    <3>1. p.src = x
      BY <2>2 DEF From
    <3>2. e \in Ends /\ Peer(e) = x
      BY <1>1, <3>1 DEF Peer, Ends
    <3> QED BY <1>1, <2>2, <3>2 DEF IInv
  <2> QED BY <2>1, <2>2 DEF IInv
<1>3. Peer(e) \in Ends /\ Good(k, cnx[Peer(e)].complete) /\ cnx[Peer(e)].complete \in BOOLEAN
  BY <1>1, <1>2 DEF IInv, Peer, Ends, Good, TypesOK
<1>4. CASE cnx' = cnx /\ net' = (net \ {p}) \cup (IF p.frame = "CH" THEN {Retry} ELSE {})
  <2>1. net' \subseteq net \cup {Retry}
    BY <1>4
  <2> QED BY <1>4, <2>1 DEF IInv
<1>5. ASSUME NEW ok, cnx' = [cnx EXCEPT ![e] = IncomingSegment(k, p, ok)], net' = net \ {p}
      PROVE  IInv'
  <2>1. PICK r : r = IncomingSegment(k, p, ok)
    OBVIOUS
  <2>2. Becomes(k, r, cnx[Peer(e)].complete)
    BY <1>2, <1>3, <2>1, SegmentIsGood
  <2>3. net' \subseteq net /\ cnx' = [cnx EXCEPT ![e] = r]
    BY <1>5, <2>1
  <2>4. Becomes(cnx[e], r, cnx[Peer(e)].complete)
    BY <1>1, <2>2
  <2> QED BY <1>2, <1>3, <2>3, <2>4, OneEndOnly
<1> QED BY <1>1, <1>4, <1>5 DEF Receive

LEMMA PrepareIsGood ==
  ASSUME IInv, NEW e \in Ends, NEW expired, Prepare(e, expired)
  PROVE  IInv'
<1>1. PICK ok, r : /\ r = Prepared(cnx[e], expired, ok)
                   /\ cnx' = [cnx EXCEPT ![e] = r.cnx] /\ Carry(r.sent)
  BY DEF Prepare
<1>2. PICK k, peer : k = cnx[e] /\ peer = cnx[Peer(e)].complete
  OBVIOUS
<1>3. k.end = e /\ Good(k, peer) /\ peer \in BOOLEAN
  BY <1>2 DEF IInv, Peer, Ends, Good, TypesOK
<1>4. Passes(k, r, peer)
  BY <1>1, <1>2, <1>3, PreparedIsGood
<1>5. Becomes(k, r.cnx, peer) /\ \A p \in r.sent : From(p, e, r.cnx.complete)
  BY <1>3, <1>4 DEF Passes
<1>6. net' \subseteq net \cup r.sent
  BY <1>1 DEF Carry
<1> QED BY <1>1, <1>2, <1>5, <1>6, OneEndMoves

LEMMA EndingIsGood ==
  ASSUME IInv, NEW e \in Ends, Close(e) \/ CloseImmediate(e) \/ IdleTimeout(e)
  PROVE  IInv'
<1>1. PICK k, peer : k = cnx[e] /\ peer = cnx[Peer(e)].complete
  OBVIOUS
<1>2. k.end = e /\ Good(k, peer) /\ peer \in BOOLEAN /\ k.state \in States /\ StateOK(k)
  BY <1>1 DEF IInv, Peer, Ends, Good, TypesOK
<1>3. net' \subseteq net
  BY DEF Close, CloseImmediate, IdleTimeout
<1>4. CASE Close(e)
  <2>1. PICK r, state : /\ state = IF k.state \in {"ready", "server_false_start", "client_ready_start"}
                                   THEN "disconnecting" ELSE "handshake_failure"
                        /\ r = [k EXCEPT !.state = state]
    OBVIOUS
  <2>2. k.state \in EarlyStates \cup {"ready"}
    BY <1>1, <1>2, <1>4, RanksAre DEF Close
  <2>3. k.state = "client_ready_start" => k.complete
    BY <1>2 DEF StateOK
  <2>4. state = "disconnecting" => "application" \in k.enc
    BY <1>2, <2>1, <2>3 DEF StateOK, Good, KeysOK
  <2>5. /\ k.state # "disconnected" /\ state \in {"disconnecting", "handshake_failure"}
        /\ state \in EarlyStates => k.state \in EarlyStates
        /\ state # "handshake_failure_resend"
    BY <2>1, <2>2 DEF EarlyStates, ServerStates, ClientStates
  <2>6. Becomes(k, r, peer)
    BY <1>2, <2>1, <2>4, <2>5, StateIsGood
  <2>7. cnx' = [cnx EXCEPT ![e] = r]
    BY <1>1, <1>4, <2>1 DEF Close, IInv
  <2>8. Becomes(cnx[e], r, cnx[Peer(e)].complete)
    BY <1>1, <2>6
  <2> QED BY <1>2, <1>3, <2>7, <2>8, OneEndOnly
<1>5. CASE CloseImmediate(e)
  <2>1. PICK r : r = [k EXCEPT !.state = "draining"]
    OBVIOUS
  <2>2. k.state # "disconnected"
    BY <1>1, <1>2, <1>5, RanksAre DEF CloseImmediate
  <2>3. "draining" \notin EarlyStates
    BY DEF EarlyStates, ServerStates, ClientStates
  <2>4. Becomes(k, r, peer)
    BY <1>2, <2>1, <2>2, <2>3, StateIsGood
  <2>5. cnx' = [cnx EXCEPT ![e] = r]
    BY <1>1, <1>5, <2>1 DEF CloseImmediate, IInv
  <2>6. Becomes(cnx[e], r, cnx[Peer(e)].complete)
    BY <1>1, <2>4
  <2> QED BY <1>2, <1>3, <2>5, <2>6, OneEndOnly
<1>6. CASE IdleTimeout(e)
  <2>1. PICK r : r = Disconnect(k)
    OBVIOUS
  <2>2. Becomes(k, r, peer)
    BY <1>2, <2>1, DisconnectIsGood
  <2>3. cnx' = [cnx EXCEPT ![e] = r]
    BY <1>1, <1>6, <2>1 DEF IdleTimeout
  <2>4. Becomes(cnx[e], r, cnx[Peer(e)].complete)
    BY <1>1, <2>2
  <2> QED BY <1>2, <1>3, <2>3, <2>4, OneEndOnly
<1> QED BY <1>4, <1>5, <1>6

LEMMA NextIsGood ==
  ASSUME IInv, [Next]_vars
  PROVE  IInv'
<1>1. CASE UNCHANGED vars
  <2>1. cnx' = cnx /\ net' = net
    BY <1>1 DEF vars
  <2> QED BY <2>1 DEF IInv
<1>2. ASSUME NEW p \in net, Receive(p)
      PROVE  IInv'
  BY <1>2, ReceiveIsGood
<1>3. ASSUME NEW e \in Ends, NEW expired \in BOOLEAN, Prepare(e, expired)
      PROVE  IInv'
  BY <1>3, PrepareIsGood
<1>4. ASSUME NEW e \in Ends, Close(e) \/ CloseImmediate(e) \/ IdleTimeout(e)
      PROVE  IInv'
  BY <1>4, EndingIsGood
<1> QED BY <1>1, <1>2, <1>3, <1>4 DEF Next
-----------------------------------------------------------------------------
(* What each end holds, queues, sends and kept for later is what its state *)
(* and the other end account for, whatever the network did.                *)
THEOREM BothAreGood == Spec => []IInv
<1>1. Init => IInv
  BY InitIsGood
<1>2. IInv /\ [Next]_vars => IInv'
  BY NextIsGood
<1> QED BY <1>1, <1>2, PTL DEF Spec

(* An end becomes ready once, when TLS is complete at both: a client that  *)
(* confirms the handshake and drops its keys has heard from a server that  *)
(* no longer needs them, whatever was lost, repeated or kept for later.    *)
THEOREM ReadyTogether == Spec => []ReadyIsMutual
<1>1. IInv => ReadyIsMutual
  <2> SUFFICES ASSUME IInv, NEW e \in Ends, cnx[e].is_ready > 0
               PROVE  cnx[e].complete /\ cnx[Peer(e)].complete /\ cnx[e].is_ready = 1
    BY DEF ReadyIsMutual
  <2>1. PICK k, peer : k = cnx[e] /\ peer = cnx[Peer(e)].complete
    OBVIOUS
  <2>2. TypesOK(k) /\ ReportsOK(k) /\ AgreesWith(k, peer) /\ k.is_ready > 0
    BY <2>1 DEF IInv, Good
  <2>3. k.is_ready = 1 /\ k.complete
    BY <2>2 DEF ReportsOK
  <2>4. peer
    BY <2>2, <2>3 DEF AgreesWith, TypesOK, Ends
  <2> QED BY <2>1, <2>3, <2>4
<1> QED BY <1>1, BothAreGood, PTL

(* A connection that fails, or closes, has the keys of the packet that     *)
(* says so, at whatever point of the handshake its keys come and go.       *)
THEOREM CanSayWhy == Spec => []CloseHasKeys
<1>1. IInv => CloseHasKeys
  <2> SUFFICES ASSUME IInv, NEW e \in Ends
               PROVE  /\ Failing(cnx[e]) => FailureSpace(cnx[e]) \in cnx[e].enc
                      /\ cnx[e].state \in {"disconnecting", "closing_received", "closing"}
                           => "application" \in cnx[e].enc
    BY DEF CloseHasKeys
  <2>1. PICK k, peer : k = cnx[e] /\ peer = cnx[Peer(e)].complete
    OBVIOUS
  <2>2. KeysOK(k) /\ StateOK(k)
    BY <2>1 DEF IInv, Good
  <2>3. Failing(k) => FailureSpace(k) \in k.enc
    BY <2>2 DEF Failing, FailureSpace, KeysOK, StateOK, EarlyStates
  <2> QED BY <2>1, <2>2, <2>3 DEF StateOK
<1> QED BY <1>1, BothAreGood, PTL

(* However a connection ends, by its own close or failure, its peer's or   *)
(* the timer, the application is told of it, and by the close callback     *)
(* once at most.                                                           *)
THEOREM EndIsHeard == Spec => []EndIsReported
<1>1. IInv => EndIsReported
  <2> SUFFICES ASSUME IInv, NEW e \in Ends
               PROVE  /\ cnx[e].closed <= 1
                      /\ cnx[e].state = "disconnected" => cnx[e].informed
    BY DEF EndIsReported
  <2>1. PICK k : k = cnx[e]
    OBVIOUS
  <2>2. ReportsOK(k)
    BY <2>1 DEF IInv, Good
  <2> QED BY <2>1, <2>2 DEF ReportsOK
<1> QED BY <1>1, BothAreGood, PTL
=============================================================================
