-------------------------- MODULE StreamLife_proofs --------------------------
(***************************************************************************)
(* No end deletes a stream before its peer has what was sent on it, two    *)
(* ends that run the code accuse each other of nothing, and the streams    *)
(* that are not over stay bounded: for every number of streams, every      *)
(* limit, and whatever the applications decide.                            *)
(*                                                                         *)
(* The invariant: a deleted stream was acknowledged, what is acknowledged  *)
(* has arrived, and a stream that was not created has no history that      *)
(* creating it could wipe out.  It also counts: what an end has permitted  *)
(* is what it began with and the credit of the streams that returned it.   *)
(***************************************************************************)
EXTENDS StreamLife, FiniteSetTheorems, TLAPS

(* The fields of a stream, without their bounds.                           *)
Record ==
  [state : {"none", "open", "closed", "deleted"},
   listed : BOOLEAN, queued : Nat, sent : Nat,
   fin_requested : BOOLEAN, fin_sent : BOOLEAN, reset_sent : BOOLEAN, acked : SUBSET Kinds,
   stop_requested : BOOLEAN, stop_sent : BOOLEAN, stop_received : BOOLEAN,
   consumed : Int, fin_offset : Nat, fin_received : BOOLEAN, fin_signalled : BOOLEAN,
   reset_received : BOOLEAN, reset_signalled : BOOLEAN, max_stream_updated : BOOLEAN,
   got : SUBSET Kinds]

(* What an end knows.                                                      *)
Book == [streams : [Ranks -> Record], next : Int, computed : Int]

Safe(s) == s.state = "deleted" => IsAcked(s)

(* A stream that returned its credit is over, and stays so.                *)
Earned(s) == (s.max_stream_updated => IsOver(s)) /\ (s.fin_sent => s.fin_requested)

Sound(x) ==
  /\ x \in Book
  /\ \A k \in Ranks : /\ Safe(x.streams[k]) /\ Earned(x.streams[k])
                      /\ k >= x.next => x.streams[k] = Fresh

(* The credit of an end, less the streams that returned theirs.            *)
Counted(x) == {k \in Ranks : x.streams[k].max_stream_updated}

Owed(x) == x.computed - 4 * Cardinality(Counted(x))

Backed(m) ==
  \A e \in End, k \in Ranks : m[e].streams[k].acked \subseteq m[Peer(e)].streams[k].got

IInv ==
  /\ plan.last \in Nat
  /\ end \in [End -> Book]
  /\ \A e \in End : Sound(end[e]) /\ Owed(end[e]) = Bit(e)
  /\ Backed(end)

(* An edit of a stream that returns no credit.                             *)
SameCredit(s, t) ==
  t.max_stream_updated = s.max_stream_updated /\ (Earned(s) => Earned(t))

(* From x to y nothing is forgotten that was acknowledged or received, and *)
(* the credit grows by what is returned.                                   *)
Keeps(x, y) ==
  /\ Owed(y) = Owed(x) /\ Counted(x) \subseteq Counted(y)
  /\ \A k \in Ranks : /\ y.streams[k].acked = x.streams[k].acked
                      /\ x.streams[k].got \subseteq y.streams[k].got

(* x and y differ in the stream r only, and not in what it has exchanged.  *)
Changes(x, y, r) ==
  /\ y \in Book /\ y.next = x.next
  /\ \A k \in Ranks : k # r => y.streams[k] = x.streams[k]
  /\ y.streams[r].acked = x.streams[r].acked
  /\ y.streams[r].got = x.streams[r].got
  /\ Earned(x.streams[r]) => Earned(y.streams[r])
  /\ Owed(y) = Owed(x) /\ Counted(x) \subseteq Counted(y)

(* What a stream has said to the peer, and what it has heard.              *)
SameSent(s, t) ==
  /\ t.sent = s.sent /\ t.queued = s.queued /\ t.fin_requested = s.fin_requested
  /\ t.fin_sent = s.fin_sent /\ t.reset_sent = s.reset_sent /\ t.stop_sent = s.stop_sent

SameHeard(s, t) ==
  /\ t.fin_received = s.fin_received /\ t.fin_offset = s.fin_offset
  /\ t.reset_received = s.reset_received /\ t.stop_received = s.stop_received

SameTalk(s, t) == SameSent(s, t) /\ SameHeard(s, t)

(* From s to t a frame of data, or of the end at n, was heard.             *)
HearsStream(s, t, kind, n) ==
  /\ SameSent(s, t)
  /\ t.fin_received = (s.fin_received \/ kind # "data")
  /\ t.fin_offset = IF kind = "data" THEN 1 ELSE n
  /\ t.reset_received = s.reset_received /\ t.stop_received = s.stop_received

(* From s to t the stream was reset.                                       *)
SaysReset(s, t) ==
  /\ t.reset_sent = TRUE /\ t.queued = 0 /\ t.sent = s.sent /\ t.fin_sent = s.fin_sent
  /\ t.fin_requested = s.fin_requested /\ t.stop_sent = s.stop_sent

(* From s to t a reset at n was heard, for the first time or again.        *)
HeardReset(s, t, n) ==
  /\ t.fin_received = s.fin_received /\ t.fin_offset = n
  /\ t.reset_received = TRUE /\ t.stop_received = s.stop_received

HearsReset(s, t, n) ==
  \/ SameTalk(s, t)
  \/ (SameSent(s, t) \/ SaysReset(s, t)) /\ HeardReset(s, t, n)
------------------------------------------------------------------------------
LEMMA FreshIsRecord ==
  /\ Fresh \in Record /\ Safe(Fresh) /\ Earned(Fresh)
  /\ Fresh.acked = {} /\ Fresh.got = {} /\ ~Fresh.max_stream_updated
  BY DEF Fresh, Record, Safe, Earned, Kinds

LEMMA TalkEarns == \A s, t : SameTalk(s, t) /\ t.max_stream_updated = s.max_stream_updated =>
                             SameCredit(s, t)
BY DEF SameTalk, SameSent, SameHeard, SameCredit, Earned, IsOver, SendComplete

LEMMA CreatedIsRecord ==
  ASSUME NEW b \in BOOLEAN
  PROVE  LET t == [Fresh EXCEPT !.state = "open", !.listed = b]
         IN  /\ t \in Record /\ t.state = "open" /\ t.acked = {} /\ t.got = {}
             /\ SameTalk(Fresh, t) /\ SameCredit(Fresh, t)
<1>1. ASSUME NEW s \in Record
      PROVE  LET t == [s EXCEPT !.state = "open", !.listed = b]
             IN  /\ t \in Record /\ t.state = "open" /\ t.acked = s.acked /\ t.got = s.got
                 /\ SameTalk(s, t) /\ t.max_stream_updated = s.max_stream_updated
  BY DEF Record, SameTalk, SameSent, SameHeard
<1> QED BY <1>1, FreshIsRecord, TalkEarns

LEMMA SameOwed ==
  ASSUME NEW x, NEW y, y.computed = x.computed,
         \A k \in Ranks : y.streams[k].max_stream_updated = x.streams[k].max_stream_updated
  PROVE  Owed(y) = Owed(x) /\ Counted(x) \subseteq Counted(y)
<1>1. Counted(y) = Counted(x)
  BY DEF Counted
<1> QED BY <1>1 DEF Owed

(* A credit that is returned is counted.                                   *)
LEMMA OneMoreOwed ==
  ASSUME plan.last \in Nat, NEW x \in Book, NEW y, NEW r \in Ranks, y.computed = x.computed + 4,
         \A k \in Ranks : k # r =>
           y.streams[k].max_stream_updated = x.streams[k].max_stream_updated,
         ~x.streams[r].max_stream_updated, y.streams[r].max_stream_updated
  PROVE  Owed(y) = Owed(x) /\ Counted(x) \subseteq Counted(y)
<1>1. Counted(y) = Counted(x) \cup {r} /\ r \notin Counted(x)
  BY DEF Counted
<1>2. IsFiniteSet(Counted(x)) /\ Cardinality(Counted(x)) \in Int
  <2>1. IsFiniteSet(Ranks)
    <3>1. 1 \in Int /\ plan.last \in Int
      OBVIOUS
    <3> QED BY <3>1, FS_Interval DEF Ranks
  <2>2. Counted(x) \in SUBSET Ranks
    BY DEF Counted
  <2>3. IsFiniteSet(Counted(x))
    BY <2>1, <2>2, FS_Subset
  <2> QED BY <2>3, FS_CardinalityType
<1>3. Cardinality(Counted(y)) = Cardinality(Counted(x)) + 1
  BY <1>1, <1>2, FS_AddElement
<1>4. x.computed \in Int
  BY DEF Book
<1>5. Owed(y) = Owed(x)
  BY <1>2, <1>3, <1>4 DEF Owed
<1> QED BY <1>1, <1>5

LEMMA Ends == \A e \in End : Peer(e) \in End /\ Peer(Peer(e)) = e /\ Peer(e) # e
  BY DEF End, Peer

LEMMA OneAcceptor == Acceptor \in End /\ Acceptor # Opener /\ Acceptor' = Acceptor
<1>1. \E e \in End : e # Opener
  BY DEF End
<1> QED BY <1>1 DEF Acceptor

(* An edit of a stream that exists keeps the state of an end sound.        *)
LEMMA ChangeIsSound ==
  ASSUME NEW x, Sound(x), NEW r \in Ranks, r < x.next, NEW y, Changes(x, y, r),
         Safe(y.streams[r])
  PROVE  Sound(y) /\ Keeps(x, y)
<1>1. \A k \in Ranks : Safe(y.streams[k])
  BY DEF Sound, Changes
<1>2. \A k \in Ranks : k >= y.next => y.streams[k] = Fresh
  BY DEF Sound, Changes, Book, Ranks
<1>3. Keeps(x, y)
  BY DEF Changes, Keeps
<1> QED BY <1>1, <1>2, <1>3 DEF Sound, Changes

LEMMA ChangesCompose ==
  ASSUME NEW x, NEW y, NEW z, NEW r \in Ranks, Changes(x, y, r), Changes(y, z, r)
  PROVE  Changes(x, z, r)
BY DEF Changes

LEMMA TalkComposes ==
  ASSUME NEW s, NEW t, NEW u, SameTalk(s, t), SameTalk(t, u)
  PROVE  SameTalk(s, u)
BY DEF SameTalk, SameSent, SameHeard

LEMMA TalkStays == \A s : SameTalk(s, s)
BY DEF SameTalk, SameSent, SameHeard

LEMMA MaxOfTwo ==
  ASSUME NEW a \in Int, NEW b \in Int
  PROVE  LET m == Max({a, b}) IN m \in {a, b} /\ m >= a /\ m >= b /\ m \in Int
<1>1. \E z \in {a, b} : \A y \in {a, b} : z >= y
  <2>1. CASE a >= b
    BY <2>1
  <2>2. CASE b >= a
    BY <2>2
  <2> QED BY <2>1, <2>2
<1>2. Max({a, b}) \in {a, b} /\ \A y \in {a, b} : Max({a, b}) >= y
  BY <1>1, Zenon DEF Max
<1> HIDE DEF Max
<1> QED BY <1>2

(* picoquic_create_missing_streams creates what has no history.            *)
LEMMA CreateIsSound ==
  ASSUME plan.last \in Nat, NEW x, Sound(x), NEW e, NEW r \in Ranks
  PROVE  LET y == CreateMissing(x, e, r)
         IN  /\ Sound(y) /\ Keeps(x, y) /\ r < y.next /\ x.next <= y.next
             /\ y.next = x.next \/ y.next = r + 1
             /\ \A k \in Ranks : SameTalk(x.streams[k], y.streams[k])
             /\ r >= x.next => y.streams[r].state = "open"
             /\ r < x.next => y = x
<1> DEFINE y == CreateMissing(x, e, r)
           f(k) == IF k \in x.next..r THEN [Fresh EXCEPT !.state = "open", !.listed = MaySend(e, k)]
                   ELSE x.streams[k]
           g == [k \in Ranks |-> f(k)]
           m == Max({x.next, r + 1})
<1>1. /\ x \in Book /\ x.next \in Int /\ r \in Int /\ x.streams \in [Ranks -> Record]
      /\ \A k \in Ranks : k \in Int /\ (k >= x.next => x.streams[k] = Fresh) /\ Safe(x.streams[k])
  BY DEF Sound, Book, Ranks
<1>2. m \in {x.next, r + 1} /\ m >= x.next /\ m >= r + 1 /\ m \in Int
  <2>1. x.next \in Int /\ r + 1 \in Int
    BY <1>1
  <2> HIDE DEF f, g
  <2> QED BY <2>1, MaxOfTwo
<1>3. ASSUME NEW k \in Ranks, k \in x.next..r
      PROVE  /\ f(k) \in Record /\ f(k).state = "open" /\ f(k).acked = {} /\ f(k).got = {}
             /\ x.streams[k] = Fresh /\ SameTalk(Fresh, f(k)) /\ SameCredit(Fresh, f(k))
  <2>1. f(k) = [Fresh EXCEPT !.state = "open", !.listed = MaySend(e, k)] /\ x.streams[k] = Fresh
    BY <1>1, <1>3
  <2>2. MaySend(e, k) \in BOOLEAN
    BY DEF MaySend
  <2> HIDE DEF f
  <2> QED BY <2>1, <2>2, CreatedIsRecord
<1>4. ASSUME NEW k \in Ranks, k \notin x.next..r
      PROVE  f(k) = x.streams[k]
  BY <1>4
<1>5. \A k \in Ranks : /\ f(k) \in Record /\ Safe(f(k)) /\ f(k).acked = x.streams[k].acked
                       /\ f(k).got = x.streams[k].got /\ SameTalk(x.streams[k], f(k))
                       /\ SameCredit(x.streams[k], f(k))
  <2> HIDE DEF f
  <2> SUFFICES ASSUME NEW k \in Ranks
               PROVE  /\ f(k) \in Record /\ Safe(f(k)) /\ f(k).acked = x.streams[k].acked
                      /\ f(k).got = x.streams[k].got /\ SameTalk(x.streams[k], f(k))
                      /\ SameCredit(x.streams[k], f(k))
    OBVIOUS
  <2>1. CASE k \in x.next..r
    BY <1>3, <2>1, FreshIsRecord DEF Safe
  <2>2. CASE k \notin x.next..r
    BY <1>1, <1>4, <2>2 DEF SameTalk, SameSent, SameHeard, SameCredit
  <2> QED BY <2>1, <2>2
<1>6. \A k \in Ranks : g[k] = f(k)
  OBVIOUS
<1>7. g \in [Ranks -> Record]
  BY <1>5 DEF g
<1>8. y = [x EXCEPT !.next = m, !.streams = g]
  BY DEF CreateMissing
<1> HIDE DEF f, g, m, y
<1>9. y.streams = g /\ y.next = m /\ y.computed = x.computed /\ y \in Book
  BY <1>1, <1>2, <1>7, <1>8 DEF Book
<1>10. \A k \in Ranks : k >= y.next => y.streams[k] = Fresh
  <2> SUFFICES ASSUME NEW k \in Ranks, k >= y.next PROVE y.streams[k] = Fresh
    OBVIOUS
  <2>1. k \notin x.next..r /\ k >= x.next
    <3>1. k >= m
      BY <1>9
    <3> QED BY <1>1, <1>2, <3>1
  <2> QED BY <1>1, <1>4, <1>6, <1>9, <2>1
<1>11. Sound(y) /\ Keeps(x, y)
  <2>1. Owed(y) = Owed(x) /\ Counted(x) \subseteq Counted(y)
    BY <1>5, <1>6, <1>9, SameOwed DEF SameCredit
  <2>2. \A k \in Ranks : Earned(y.streams[k])
    BY <1>5, <1>6, <1>9 DEF SameCredit, Sound
  <2> QED BY <1>5, <1>6, <1>9, <1>10, <2>1, <2>2 DEF Sound, Keeps
<1>12. /\ r < y.next /\ x.next <= y.next /\ (y.next = x.next \/ y.next = r + 1)
       /\ \A k \in Ranks : SameTalk(x.streams[k], y.streams[k])
  BY <1>1, <1>2, <1>5, <1>6, <1>9
<1>13. ASSUME r >= x.next PROVE y.streams[r].state = "open"
  BY <1>1, <1>3, <1>6, <1>9, <1>13
<1>14. ASSUME r < x.next PROVE y = x
  <2>1. m = x.next
    BY <1>1, <1>2, <1>14
  <2>2. g = x.streams
    <3>1. \A k \in Ranks : g[k] = x.streams[k]
      BY <1>1, <1>4, <1>6, <1>14
    <3> QED BY <1>1, <1>7, <3>1
  <2> QED BY <1>1, <1>8, <2>1, <2>2 DEF Book
<1> QED BY <1>11, <1>12, <1>13, <1>14 DEF y
------------------------------------------------------------------------------
(* The parts of the handlers change one stream, and delete it only when it *)
(* is acknowledged.                                                        *)

LEMMA EditIsChange ==
  ASSUME NEW x \in Book, NEW r \in Ranks, NEW t \in Record,
         t.acked = x.streams[r].acked, t.got = x.streams[r].got, SameCredit(x.streams[r], t)
  PROVE  LET y == [x EXCEPT !.streams[r] = t] IN Changes(x, y, r) /\ y.streams[r] = t
<1> DEFINE y == [x EXCEPT !.streams[r] = t]
<1>1. /\ y \in Book /\ y.next = x.next /\ y.computed = x.computed /\ y.streams[r] = t
      /\ \A k \in Ranks : k # r => y.streams[k] = x.streams[k]
  BY DEF Book
<1> HIDE DEF y
<1>2. Owed(y) = Owed(x) /\ Counted(x) \subseteq Counted(y)
  BY <1>1, SameOwed DEF SameCredit
<1>3. Changes(x, y, r) /\ y.streams[r] = t
  BY <1>1, <1>2 DEF Changes, SameCredit
<1> QED BY <1>3 DEF y

LEMMA UpdateMaxIsChange ==
  ASSUME plan.last \in Nat, NEW x \in Book, NEW e, NEW r \in Ranks
  PROVE  LET y == UpdateMaxStreamId(x, e, r)
         IN  /\ Changes(x, y, r) /\ y.streams[r].state = x.streams[r].state
             /\ SameTalk(x.streams[r], y.streams[r])
<1> DEFINE s == x.streams[r]
           t == [s EXCEPT !.max_stream_updated = TRUE]
           y == UpdateMaxStreamId(x, e, r)
<1>1. s \in Record /\ x.computed + 4 \in Int
  BY DEF Book
<1>2. /\ t \in Record /\ t.acked = s.acked /\ t.got = s.got /\ t.state = s.state
      /\ SameTalk(s, t) /\ t.max_stream_updated
  BY <1>1 DEF Record, SameTalk, SameSent, SameHeard
<1>3. \/ y = x
      \/ /\ y = [x EXCEPT !.streams[r].max_stream_updated = TRUE, !.computed = @ + 4]
         /\ ~s.max_stream_updated /\ ReceiveComplete(s) /\ SendComplete(s)
  BY DEF UpdateMaxStreamId
<1> HIDE DEF y
<1>4. ASSUME y = x PROVE  Changes(x, y, r) /\ y.streams[r].state = s.state /\ SameTalk(s, y.streams[r])
  BY <1>4 DEF Changes, SameTalk, SameSent, SameHeard
<1>5. ASSUME y = [x EXCEPT !.streams[r].max_stream_updated = TRUE, !.computed = @ + 4],
             ~s.max_stream_updated, ReceiveComplete(s), SendComplete(s)
      PROVE  Changes(x, y, r) /\ y.streams[r].state = s.state /\ SameTalk(s, y.streams[r])
  <2> DEFINE v == [x EXCEPT !.streams[r] = t]
  <2>1. y = [v EXCEPT !.computed = x.computed + 4]
    BY <1>1, <1>5 DEF Book
  <2> HIDE DEF t
  <2>2. /\ v \in Book /\ v.next = x.next /\ v.streams[r] = t
        /\ \A k \in Ranks : k # r => v.streams[k] = x.streams[k]
    BY <1>2 DEF Book
  <2> HIDE DEF v
  <2>3. y \in Book /\ y.streams = v.streams /\ y.next = v.next /\ y.computed = x.computed + 4
    BY <1>1, <2>1, <2>2 DEF Book
  <2>4. Owed(y) = Owed(x) /\ Counted(x) \subseteq Counted(y)
    <3>1. /\ ~x.streams[r].max_stream_updated /\ y.streams[r].max_stream_updated
          /\ \A k \in Ranks : k # r =>
                y.streams[k].max_stream_updated = x.streams[k].max_stream_updated
      BY <1>2, <1>5, <2>2, <2>3
    <3>2. y.computed = x.computed + 4
      BY <2>3
    <3> HIDE DEF s, t
    <3> QED BY <3>1, <3>2, OneMoreOwed
  <2>5. Earned(s) => Earned(t)
    BY <1>2, <1>5
       DEF Earned, IsOver, ReceiveComplete, SendComplete, SameTalk, SameSent, SameHeard
  <2> QED BY <1>2, <2>2, <2>3, <2>4, <2>5 DEF Changes
<1>6. Changes(x, y, r) /\ y.streams[r].state = s.state /\ SameTalk(s, y.streams[r])
  BY <1>3, <1>4, <1>5
<1> QED BY <1>6 DEF y

LEMMA DeleteIsChange ==
  ASSUME plan.last \in Nat, NEW x \in Book, NEW e, NEW r \in Ranks, Safe(x.streams[r])
  PROVE  LET y == DeleteIfClosed(x, e, r)
         IN  Changes(x, y, r) /\ Safe(y.streams[r]) /\ SameTalk(x.streams[r], y.streams[r])
<1> DEFINE closing == x.streams[r].state = "open" /\ IsClosed(x.streams[r])
           u == UpdateMaxStreamId(x, e, r)
           c == [u EXCEPT !.streams[r].state = "closed"]
           y == IF closing THEN c ELSE x
           d == [y EXCEPT !.streams[r].state = "deleted"]
           z == DeleteIfClosed(x, e, r)
<1>1. Changes(x, u, r) /\ u \in Book /\ SameTalk(x.streams[r], u.streams[r])
  BY UpdateMaxIsChange DEF Changes
<1>2. Changes(u, c, r) /\ c.streams[r].state = "closed" /\ SameTalk(u.streams[r], c.streams[r])
  <2> HIDE DEF u
  <2> DEFINE t == [u.streams[r] EXCEPT !.state = "closed"]
  <2>1. u.streams[r] \in Record
    BY <1>1 DEF Book
  <2>2. /\ t \in Record /\ t.acked = u.streams[r].acked /\ t.got = u.streams[r].got
        /\ t.state = "closed" /\ SameTalk(u.streams[r], t) /\ SameCredit(u.streams[r], t)
    BY <2>1, TalkEarns DEF Record, SameTalk, SameSent, SameHeard
  <2>3. c = [u EXCEPT !.streams[r] = t]
    OBVIOUS
  <2> HIDE DEF t, c
  <2> QED BY <1>1, <2>2, <2>3, EditIsChange
<1>3. Changes(x, c, r) /\ Safe(c.streams[r]) /\ SameTalk(x.streams[r], c.streams[r])
  <2> HIDE DEF u, c
  <2> QED BY <1>1, <1>2, ChangesCompose, TalkComposes DEF Safe
<1>4. Changes(x, y, r) /\ Safe(y.streams[r]) /\ y \in Book /\ SameTalk(x.streams[r], y.streams[r])
  <2>1. Changes(x, x, r) /\ SameTalk(x.streams[r], x.streams[r])
    BY TalkStays DEF Changes
  <2> HIDE DEF c, closing
  <2> QED BY <1>3, <2>1 DEF Changes
<1>5. ASSUME y.streams[r].state = "closed", IsAcked(y.streams[r])
      PROVE  Changes(y, d, r) /\ Safe(d.streams[r]) /\ SameTalk(y.streams[r], d.streams[r])
  <2> HIDE DEF y
  <2> DEFINE t == [y.streams[r] EXCEPT !.state = "deleted"]
  <2>1. y.streams[r] \in Record
    BY <1>4 DEF Book
  <2>2. /\ t \in Record /\ t.acked = y.streams[r].acked /\ t.got = y.streams[r].got
        /\ SameTalk(y.streams[r], t) /\ SameCredit(y.streams[r], t)
    BY <2>1, TalkEarns DEF Record, SameTalk, SameSent, SameHeard
  <2>3. Safe(t)
    BY <1>5, <2>1 DEF Safe, IsAcked, SentKinds, Record
  <2>4. d = [y EXCEPT !.streams[r] = t]
    OBVIOUS
  <2> HIDE DEF t, d
  <2> QED BY <1>4, <2>2, <2>3, <2>4, EditIsChange
<1>6. z = IF y.streams[r].state = "closed" /\ IsAcked(y.streams[r]) THEN d ELSE y
  BY DEF DeleteIfClosed
<1> HIDE DEF y, d, z
<1>7. Changes(x, z, r) /\ Safe(z.streams[r]) /\ SameTalk(x.streams[r], z.streams[r])
  BY <1>4, <1>5, <1>6, ChangesCompose, TalkComposes
<1> QED BY <1>7 DEF z

(* picoquic_stream_network_input                                           *)
LEMMA InputIsSound ==
  ASSUME plan.last \in Nat, NEW x0, Sound(x0), NEW e, NEW r \in Ranks, NEW kind,
         NEW n \in Nat, r < x0.next => x0.streams[r].state \in {"open", "closed"}
  PROVE  LET z == Input(x0, e, r, kind, n)
         IN  /\ Sound(z) /\ Keeps(x0, z) /\ r < z.next
             /\ z.next = x0.next \/ z.next = r + 1
             /\ \A k \in Ranks : k # r => SameTalk(x0.streams[k], z.streams[k])
             /\ HearsStream(x0.streams[r], z.streams[r], kind, n)
<1> DEFINE x == CreateMissing(x0, e, r)
           t == [x.streams[r] EXCEPT !.fin_received = TRUE]
           fin == [x EXCEPT !.streams[r].fin_received = TRUE]
           y == IF kind = "data" \/ x.streams[r].fin_received THEN x ELSE UpdateMaxStreamId(fin, e, r)
           s == [y.streams[r] EXCEPT !.fin_offset = IF kind = "data" THEN 1 ELSE n]
           d == Deliver(s, IF kind = "data" THEN 1 - s.consumed ELSE 0)
           z == [y EXCEPT !.streams[r] = d]
           w == Input(x0, e, r, kind, n)
<1>1. /\ Sound(x) /\ Keeps(x0, x) /\ r < x.next /\ x \in Book
      /\ x.streams[r].state \in {"open", "closed"} /\ x.streams[r] \in Record
      /\ x.next = x0.next \/ x.next = r + 1
      /\ \A k \in Ranks : SameTalk(x0.streams[k], x.streams[k])
  <2>1. x0.next \in Int /\ r \in Int
    BY DEF Sound, Book, Ranks
  <2>2. /\ Sound(x) /\ Keeps(x0, x) /\ r < x.next
        /\ x.next = x0.next \/ x.next = r + 1
        /\ \A k \in Ranks : SameTalk(x0.streams[k], x.streams[k])
    BY CreateIsSound
  <2>3. x.streams[r].state \in {"open", "closed"}
    <3>1. CASE r < x0.next
      BY <3>1, CreateIsSound
    <3>2. CASE r >= x0.next
      BY <3>2, CreateIsSound
    <3> QED BY <2>1, <3>1, <3>2
  <2> HIDE DEF x
  <2> QED BY <2>2, <2>3 DEF Sound, Book
<1>2. /\ Changes(x, fin, r) /\ fin.streams[r].state = x.streams[r].state
      /\ SameSent(x.streams[r], fin.streams[r]) /\ fin.streams[r].fin_received = TRUE
      /\ fin.streams[r].reset_received = x.streams[r].reset_received
      /\ fin.streams[r].stop_received = x.streams[r].stop_received
  <2> HIDE DEF x
  <2>1. /\ t \in Record /\ t.acked = x.streams[r].acked /\ t.got = x.streams[r].got
        /\ t.state = x.streams[r].state
        /\ SameSent(x.streams[r], t) /\ t.fin_received = TRUE
        /\ t.reset_received = x.streams[r].reset_received
        /\ t.stop_received = x.streams[r].stop_received
        /\ SameCredit(x.streams[r], t)
    BY <1>1 DEF Record, SameSent, SameCredit, Earned, IsOver, SendComplete
  <2>2. fin = [x EXCEPT !.streams[r] = t]
    OBVIOUS
  <2> HIDE DEF t, fin
  <2> QED BY <1>1, <2>1, <2>2, EditIsChange
<1>3. /\ Changes(x, y, r) /\ y.streams[r].state = x.streams[r].state
      /\ SameSent(x.streams[r], y.streams[r])
      /\ y.streams[r].fin_received = (x.streams[r].fin_received \/ kind # "data")
      /\ y.streams[r].reset_received = x.streams[r].reset_received
      /\ y.streams[r].stop_received = x.streams[r].stop_received
  <2> DEFINE u == UpdateMaxStreamId(fin, e, r)
  <2> HIDE DEF x, fin
  <2>1. fin \in Book
    BY <1>2 DEF Changes
  <2>2. /\ Changes(fin, u, r) /\ u.streams[r].state = fin.streams[r].state
        /\ SameTalk(fin.streams[r], u.streams[r])
    BY <2>1, UpdateMaxIsChange
  <2>3. Changes(x, u, r) /\ u.streams[r].state = x.streams[r].state
    BY <1>2, <2>2, ChangesCompose
  <2>4. Changes(x, x, r) /\ SameSent(x.streams[r], x.streams[r])
    BY <1>1 DEF Changes, SameSent
  <2>5. /\ SameSent(x.streams[r], u.streams[r]) /\ u.streams[r].fin_received = TRUE
        /\ u.streams[r].reset_received = x.streams[r].reset_received
        /\ u.streams[r].stop_received = x.streams[r].stop_received
    BY <1>2, <2>2 DEF SameTalk, SameSent, SameHeard
  <2>6. x.streams[r].fin_received \in BOOLEAN
    BY <1>1 DEF Record
  <2> HIDE DEF u
  <2>7. CASE kind = "data" \/ x.streams[r].fin_received
    BY <2>4, <2>6, <2>7
  <2>8. CASE ~(kind = "data" \/ x.streams[r].fin_received)
    BY <2>3, <2>5, <2>6, <2>8 DEF u
  <2> QED BY <2>7, <2>8
<1>4. /\ Changes(y, z, r) /\ z.streams[r].state = y.streams[r].state
      /\ SameSent(y.streams[r], z.streams[r])
      /\ z.streams[r].fin_received = y.streams[r].fin_received
      /\ z.streams[r].fin_offset = IF kind = "data" THEN 1 ELSE n
      /\ z.streams[r].reset_received = y.streams[r].reset_received
      /\ z.streams[r].stop_received = y.streams[r].stop_received
  <2> HIDE DEF x, y
  <2>1. y \in Book /\ y.streams[r] \in Record
    BY <1>3 DEF Changes, Book
  <2>2. /\ s \in Record /\ s.acked = y.streams[r].acked /\ s.got = y.streams[r].got
        /\ s.state = y.streams[r].state /\ SameSent(y.streams[r], s)
        /\ s.fin_offset = IF kind = "data" THEN 1 ELSE n
        /\ s.fin_received = y.streams[r].fin_received
        /\ s.reset_received = y.streams[r].reset_received
        /\ s.stop_received = y.streams[r].stop_received
        /\ SameCredit(y.streams[r], s)
    BY <2>1 DEF Record, SameSent, SameCredit, Earned, IsOver, SendComplete
  <2> HIDE DEF s
  <2>3. ASSUME NEW k \in Int
        PROVE  LET v == Deliver(s, k)
               IN  /\ v \in Record /\ v.acked = s.acked /\ v.got = s.got /\ v.state = s.state
                   /\ SameTalk(s, v) /\ v.max_stream_updated = s.max_stream_updated
    <3> DEFINE a == [s EXCEPT !.consumed = @ + k]
    <3>1. /\ a \in Record /\ a.acked = s.acked /\ a.got = s.got /\ a.state = s.state
          /\ SameTalk(s, a) /\ a.max_stream_updated = s.max_stream_updated
      BY <2>2 DEF Record, SameTalk, SameSent, SameHeard
    <3>2. Deliver(s, k) = [a EXCEPT !.fin_signalled = @ \/ (ReceiveComplete(a) /\ a.fin_received)]
      BY DEF Deliver
    <3>3. (a.fin_signalled \/ (ReceiveComplete(a) /\ a.fin_received)) \in BOOLEAN
      BY <3>1 DEF Record, ReceiveComplete
    <3> HIDE DEF a
    <3> QED BY <3>1, <3>2, <3>3 DEF Record, SameTalk, SameSent, SameHeard
  <2>4. (IF kind = "data" THEN 1 - s.consumed ELSE 0) \in Int
    BY <2>2 DEF Record
  <2>5. /\ d \in Record /\ d.acked = s.acked /\ d.got = s.got /\ d.state = s.state
        /\ SameTalk(s, d) /\ SameCredit(s, d)
    BY <2>3, <2>4, TalkEarns
  <2> HIDE DEF d
  <2>6. Changes(y, z, r) /\ z.streams[r] = d
    <3>1. SameCredit(y.streams[r], d)
      BY <2>2, <2>5 DEF SameCredit
    <3> QED BY <2>1, <2>2, <2>5, <3>1, EditIsChange
  <2> QED BY <2>2, <2>5, <2>6 DEF SameTalk, SameSent, SameHeard
<1>5. w = IF z.streams[r].fin_signalled \/ z.streams[r].reset_signalled
          THEN DeleteIfClosed(z, e, r) ELSE z
  BY DEF Input
<1> HIDE DEF x, y, z, w
<1>6. Changes(x, z, r) /\ Safe(z.streams[r]) /\ z \in Book
  BY <1>1, <1>3, <1>4, ChangesCompose DEF Safe, Changes
<1>7. Changes(x, w, r) /\ Safe(w.streams[r]) /\ SameTalk(z.streams[r], w.streams[r])
  <2> DEFINE v == DeleteIfClosed(z, e, r)
  <2>1. Changes(z, v, r) /\ Safe(v.streams[r]) /\ SameTalk(z.streams[r], v.streams[r])
    BY <1>6, DeleteIsChange
  <2>2. Changes(x, v, r)
    BY <1>6, <2>1, ChangesCompose
  <2> HIDE DEF v
  <2> QED BY <1>5, <1>6, <2>1, <2>2, TalkStays DEF v
<1>8. Sound(w) /\ Keeps(x, w) /\ w.next = x.next
  BY <1>1, <1>7, ChangeIsSound DEF Changes
<1>9. Keeps(x0, w)
  BY <1>1, <1>8 DEF Keeps
<1>10. \A k \in Ranks : k # r => SameTalk(x0.streams[k], w.streams[k])
  BY <1>1, <1>7 DEF Changes
<1>11. HearsStream(x0.streams[r], w.streams[r], kind, n)
  <2>1. HearsStream(x.streams[r], z.streams[r], kind, n)
    BY <1>3, <1>4 DEF HearsStream, SameSent
  <2>2. SameTalk(x0.streams[r], x.streams[r])
    BY <1>1
  <2> QED BY <1>7, <2>1, <2>2 DEF HearsStream, SameTalk, SameSent, SameHeard
<1> QED BY <1>1, <1>8, <1>9, <1>10, <1>11 DEF w

(* picoquic_reset_stream                                                   *)
LEMMA ResetIsChange ==
  ASSUME NEW x \in Book, NEW r \in Ranks
  PROVE  LET y == ResetStream(x, r)
         IN  /\ Changes(x, y, r) /\ y.streams[r].state = x.streams[r].state
             /\ SaysReset(x.streams[r], y.streams[r]) /\ SameHeard(x.streams[r], y.streams[r])
<1> DEFINE t == [x.streams[r] EXCEPT !.reset_sent = TRUE, !.queued = 0, !.listed = FALSE]
           y == ResetStream(x, r)
<1>1. /\ t \in Record /\ t.acked = x.streams[r].acked /\ t.got = x.streams[r].got
      /\ t.state = x.streams[r].state
      /\ SaysReset(x.streams[r], t) /\ SameHeard(x.streams[r], t)
      /\ SameCredit(x.streams[r], t)
  <2>1. x.streams[r] \in Record
    BY DEF Book
  <2>2. /\ t \in Record /\ t.acked = x.streams[r].acked /\ t.got = x.streams[r].got
        /\ t.state = x.streams[r].state /\ t.max_stream_updated = x.streams[r].max_stream_updated
        /\ SaysReset(x.streams[r], t) /\ SameHeard(x.streams[r], t)
    BY <2>1 DEF Record, SaysReset, SameHeard
  <2> HIDE DEF t
  <2> QED BY <2>2
     DEF SaysReset, SameHeard, SameCredit, Earned, IsOver, SendComplete
<1>2. y = [x EXCEPT !.streams[r] = t]
  BY DEF ResetStream, Book
<1> HIDE DEF t, y
<1>3. /\ Changes(x, y, r) /\ y.streams[r].state = x.streams[r].state
      /\ SaysReset(x.streams[r], y.streams[r]) /\ SameHeard(x.streams[r], y.streams[r])
  BY <1>1, <1>2, EditIsChange
<1> QED BY <1>3 DEF y

LEMMA ResetThenSame ==
  ASSUME NEW s, NEW t, NEW u, NEW n, HearsReset(s, t, n), SameTalk(t, u)
  PROVE  HearsReset(s, u, n)
<1>1. CASE SameTalk(s, t)
  BY <1>1, TalkComposes DEF HearsReset
<1>2. CASE (SameSent(s, t) \/ SaysReset(s, t)) /\ HeardReset(s, t, n)
  <2>1. HeardReset(s, u, n)
    BY <1>2 DEF HeardReset, SameTalk, SameHeard
  <2>2. SameSent(s, u) \/ SaysReset(s, u)
    BY <1>2 DEF SaysReset, SameTalk, SameSent
  <2> QED BY <2>1, <2>2 DEF HearsReset
<1> QED BY <1>1, <1>2 DEF HearsReset

LEMMA SameThenReset ==
  ASSUME NEW s, NEW t, NEW u, NEW n, SameTalk(s, t), HearsReset(t, u, n)
  PROVE  HearsReset(s, u, n)
<1>1. CASE SameTalk(t, u)
  BY <1>1, TalkComposes DEF HearsReset
<1>2. CASE (SameSent(t, u) \/ SaysReset(t, u)) /\ HeardReset(t, u, n)
  <2>1. HeardReset(s, u, n)
    BY <1>2 DEF HeardReset, SameTalk, SameHeard
  <2>2. SameSent(s, u) \/ SaysReset(s, u)
    BY <1>2 DEF SaysReset, SameTalk, SameSent
  <2> QED BY <2>1, <2>2 DEF HearsReset
<1> QED BY <1>1, <1>2 DEF HearsReset

(* picoquic_apply_reset_stream_frame                                       *)
LEMMA InputResetIsSound ==
  ASSUME plan.last \in Nat, NEW x0, Sound(x0), NEW e, NEW r \in Ranks, NEW answer,
         NEW n \in Nat, r < x0.next => x0.streams[r].state \in {"open", "closed"}
  PROVE  LET z == InputReset(x0, e, r, n, answer)
         IN  /\ Sound(z) /\ Keeps(x0, z) /\ r < z.next
             /\ z.next = x0.next \/ z.next = r + 1
             /\ \A k \in Ranks : k # r => SameTalk(x0.streams[k], z.streams[k])
             /\ HearsReset(x0.streams[r], z.streams[r], n)
<1> DEFINE x == CreateMissing(x0, e, r)
           f == [x.streams[r] EXCEPT !.fin_offset = n, !.reset_received = TRUE]
           t == [x EXCEPT !.streams[r].fin_offset = n, !.streams[r].reset_received = TRUE]
           u == UpdateMaxStreamId(t, e, r)
           v == IF answer /\ CanReset(u.streams[r]) THEN ResetStream(u, r) ELSE u
           g == [v.streams[r] EXCEPT !.reset_signalled = TRUE]
           z == [v EXCEPT !.streams[r].reset_signalled = TRUE]
           w == InputReset(x0, e, r, n, answer)
<1>1. /\ Sound(x) /\ Keeps(x0, x) /\ r < x.next /\ x \in Book
      /\ x.streams[r].state \in {"open", "closed"} /\ x.streams[r] \in Record
      /\ x.next = x0.next \/ x.next = r + 1
      /\ \A k \in Ranks : SameTalk(x0.streams[k], x.streams[k])
  <2>1. x0.next \in Int /\ r \in Int
    BY DEF Sound, Book, Ranks
  <2>2. /\ Sound(x) /\ Keeps(x0, x) /\ r < x.next
        /\ x.next = x0.next \/ x.next = r + 1
        /\ \A k \in Ranks : SameTalk(x0.streams[k], x.streams[k])
    BY CreateIsSound
  <2>3. x.streams[r].state \in {"open", "closed"}
    <3>1. CASE r < x0.next
      BY <3>1, CreateIsSound
    <3>2. CASE r >= x0.next
      BY <3>2, CreateIsSound
    <3> QED BY <2>1, <3>1, <3>2
  <2> HIDE DEF x
  <2> QED BY <2>2, <2>3 DEF Sound, Book
<1>2. /\ Changes(x, t, r) /\ t.streams[r].state = x.streams[r].state
      /\ SameSent(x.streams[r], t.streams[r]) /\ HeardReset(x.streams[r], t.streams[r], n)
  <2> HIDE DEF x
  <2>1. /\ f \in Record /\ f.acked = x.streams[r].acked /\ f.got = x.streams[r].got
        /\ f.state = x.streams[r].state
        /\ SameSent(x.streams[r], f) /\ HeardReset(x.streams[r], f, n)
        /\ SameCredit(x.streams[r], f)
    BY <1>1
       DEF Record, SameSent, HeardReset, SameCredit, Earned, IsOver, SendComplete
  <2>2. t = [x EXCEPT !.streams[r] = f]
    BY <1>1 DEF Book
  <2> HIDE DEF t, f
  <2> QED BY <1>1, <2>1, <2>2, EditIsChange
<1>3. /\ Changes(x, u, r) /\ u.streams[r].state = x.streams[r].state
      /\ SameSent(x.streams[r], u.streams[r]) /\ HeardReset(x.streams[r], u.streams[r], n)
  <2> HIDE DEF x, t
  <2>1. /\ Changes(t, u, r) /\ u.streams[r].state = t.streams[r].state
        /\ SameTalk(t.streams[r], u.streams[r])
    BY <1>2, UpdateMaxIsChange DEF Changes
  <2> HIDE DEF u
  <2>2. SameSent(x.streams[r], u.streams[r]) /\ HeardReset(x.streams[r], u.streams[r], n)
    BY <1>2, <2>1 DEF SameTalk, SameSent, SameHeard, HeardReset
  <2> QED BY <1>2, <2>1, <2>2, ChangesCompose
<1>4. /\ Changes(x, v, r) /\ v.streams[r].state = x.streams[r].state
      /\ SameSent(x.streams[r], v.streams[r]) \/ SaysReset(x.streams[r], v.streams[r])
      /\ HeardReset(x.streams[r], v.streams[r], n)
  <2> HIDE DEF x, u
  <2> DEFINE a == ResetStream(u, r)
  <2>1. /\ Changes(u, a, r) /\ a.streams[r].state = u.streams[r].state
        /\ SaysReset(u.streams[r], a.streams[r]) /\ SameHeard(u.streams[r], a.streams[r])
    BY <1>3, ResetIsChange DEF Changes
  <2> HIDE DEF a
  <2>2. Changes(x, a, r) /\ a.streams[r].state = x.streams[r].state
    BY <1>3, <2>1, ChangesCompose
  <2>3. SaysReset(x.streams[r], a.streams[r]) /\ HeardReset(x.streams[r], a.streams[r], n)
    BY <1>3, <2>1 DEF SaysReset, SameSent, SameHeard, HeardReset
  <2> QED BY <1>3, <2>2, <2>3 DEF a
<1>5. /\ Changes(x, z, r) /\ z.streams[r].state = x.streams[r].state
      /\ HearsReset(x.streams[r], z.streams[r], n)
  <2> HIDE DEF x, v
  <2>1. v \in Book /\ v.streams[r] \in Record
    BY <1>4 DEF Changes, Book
  <2>2. /\ g \in Record /\ g.acked = v.streams[r].acked /\ g.got = v.streams[r].got
        /\ g.state = v.streams[r].state /\ SameTalk(v.streams[r], g)
        /\ SameCredit(v.streams[r], g)
    <3>1. /\ g \in Record /\ g.acked = v.streams[r].acked /\ g.got = v.streams[r].got
          /\ g.state = v.streams[r].state /\ SameTalk(v.streams[r], g)
          /\ g.max_stream_updated = v.streams[r].max_stream_updated
      BY <2>1 DEF Record, SameTalk, SameSent, SameHeard
    <3> HIDE DEF g
    <3> QED BY <3>1, TalkEarns
  <2>3. z = [v EXCEPT !.streams[r] = g]
    OBVIOUS
  <2> HIDE DEF z, g
  <2>4. Changes(v, z, r) /\ z.streams[r] = g
    BY <2>1, <2>2, <2>3, EditIsChange
  <2>5. HearsReset(x.streams[r], z.streams[r], n)
    BY <1>4, <2>2, <2>4
       DEF HearsReset, HeardReset, SaysReset, SameTalk, SameSent, SameHeard
  <2> QED BY <1>4, <2>2, <2>4, <2>5, ChangesCompose
<1>6. w = IF x.streams[r].reset_received THEN x ELSE DeleteIfClosed(z, e, r)
  BY DEF InputReset
<1> HIDE DEF x, z, w
<1>7. /\ Sound(w) /\ Keeps(x, w) /\ w.next = x.next
      /\ \A k \in Ranks : k # r => w.streams[k] = x.streams[k]
      /\ HearsReset(x.streams[r], w.streams[r], n)
  <2> DEFINE a == DeleteIfClosed(z, e, r)
  <2>1. z \in Book /\ Safe(z.streams[r])
    BY <1>1, <1>5 DEF Changes, Safe
  <2>2. Changes(z, a, r) /\ Safe(a.streams[r]) /\ SameTalk(z.streams[r], a.streams[r])
    BY <2>1, DeleteIsChange
  <2> HIDE DEF a
  <2>3. Changes(x, a, r)
    BY <1>5, <2>2, ChangesCompose
  <2>4. Sound(a) /\ Keeps(x, a) /\ a.next = x.next
    BY <1>1, <2>2, <2>3, ChangeIsSound DEF Changes
  <2>5. Keeps(x, x) /\ HearsReset(x.streams[r], x.streams[r], n)
    BY TalkStays DEF Keeps, HearsReset
  <2>6. HearsReset(x.streams[r], a.streams[r], n)
    BY <1>5, <2>2, ResetThenSame
  <2> QED BY <1>1, <1>6, <2>3, <2>4, <2>5, <2>6 DEF a, Changes
<1>8. Keeps(x0, w)
  BY <1>1, <1>7 DEF Keeps
<1>9. \A k \in Ranks : k # r => SameTalk(x0.streams[k], w.streams[k])
  BY <1>1, <1>7
<1>10. HearsReset(x0.streams[r], w.streams[r], n)
  <2>1. SameTalk(x0.streams[r], x.streams[r])
    BY <1>1
  <2> QED BY <1>7, <2>1, SameThenReset
<1> QED BY <1>1, <1>7, <1>8, <1>9, <1>10 DEF w
------------------------------------------------------------------------------
(* Steps.                                                                  *)

(* The acceptor opens streams within its limit, and keeps what is counted. *)
Opens(e, y) ==
  e = Acceptor => \/ y.next = end[e].next
                  \/ \E r \in Ranks : y.next = r + 1 /\ ~TooHigh(e, r)

Grows ==
  /\ Counted(end[Acceptor]) \subseteq Counted(end[Acceptor])'
  /\ \/ end'[Acceptor].next = end[Acceptor].next
     \/ \E r \in Ranks : end'[Acceptor].next = r + 1 /\ ~TooHigh(Acceptor, r)

LEMMA StepKeepsInv ==
  ASSUME IInv, plan' = plan, NEW e \in End, NEW y, Sound(y), Keeps(end[e], y),
         end' = [end EXCEPT ![e] = y], Opens(e, y)
  PROVE  IInv' /\ Grows
<1>1. end' \in [End -> Book] /\ y \in Book
  BY DEF IInv, Sound
<1>2. \A d \in End : end'[d] = IF d = e THEN y ELSE end[d]
  BY DEF IInv
<1>3. \A d \in End : Sound(end'[d])
  BY <1>2 DEF IInv
<1>4. Backed(end')
  <2> SUFFICES ASSUME NEW d \in End, NEW k \in Ranks
               PROVE  end'[d].streams[k].acked \subseteq end'[Peer(d)].streams[k].got
    BY DEF Backed
  <2>1. /\ end[d].streams[k].acked \subseteq end[Peer(d)].streams[k].got
        /\ end'[d].streams[k].acked = end[d].streams[k].acked
    BY <1>2 DEF IInv, Backed, Keeps
  <2>2. end[Peer(d)].streams[k].got \subseteq end'[Peer(d)].streams[k].got
    BY <1>2, Ends DEF Keeps
  <2> QED BY <2>1, <2>2
<1>5. Ranks' = Ranks /\ Book' = Book
  BY DEF Ranks, Book
<1>6. \A d \in End : Owed(end'[d]) = Bit(d)
  BY <1>2 DEF IInv, Keeps
<1>7. IInv'
  BY <1>1, <1>3, <1>4, <1>5, <1>6 DEF IInv, Sound, Owed, Counted, Backed, Ranks
<1>8. Grows
  <2>1. Counted(end[Acceptor]) \subseteq Counted(end'[Acceptor])
    BY <1>2, OneAcceptor DEF Keeps
  <2>2. Counted(end[Acceptor])' = Counted(end'[Acceptor])
    BY <1>5, OneAcceptor DEF Counted
  <2>3. \/ end'[Acceptor].next = end[Acceptor].next
        \/ \E r \in Ranks : end'[Acceptor].next = r + 1 /\ ~TooHigh(Acceptor, r)
    BY <1>2, OneAcceptor DEF Opens
  <2> QED BY <2>1, <2>2, <2>3 DEF Grows
<1> QED BY <1>7, <1>8

LEMMA NothingMoves ==
  ASSUME IInv, plan' = plan, end' = end
  PROVE  IInv' /\ Grows
<1>1. Ranks' = Ranks /\ Book' = Book
  BY DEF Ranks, Book
<1>2. Counted(end[Acceptor])' = Counted(end[Acceptor])
  BY <1>1, OneAcceptor DEF Counted
<1> QED BY <1>1, <1>2 DEF IInv, Sound, Owed, Counted, Backed, Grows

(* A frame that arrives is noted.                                          *)
LEMMA NotedIsSound ==
  ASSUME NEW x, Sound(x), NEW r \in Ranks, r < x.next, NEW kind \in Kinds
  PROVE  LET y == [x EXCEPT !.streams[r].got = @ \cup {kind}]
         IN  Sound(y) /\ Keeps(x, y) /\ y.next = x.next
<1> DEFINE s == x.streams[r]
           t == [s EXCEPT !.got = @ \cup {kind}]
           y == [x EXCEPT !.streams[r].got = @ \cup {kind}]
<1>1. s \in Record /\ x \in Book
  BY DEF Sound, Book
<1>2. /\ t \in Record /\ t.acked = s.acked /\ s.got \subseteq t.got
      /\ SameCredit(s, t)
  BY <1>1, TalkEarns DEF Record, SameTalk, SameSent, SameHeard
<1>3. Safe(t)
  BY <1>1 DEF Sound, Safe, IsAcked, SentKinds, Record
<1>4. y = [x EXCEPT !.streams[r] = t]
  OBVIOUS
<1> HIDE DEF t, y
<1>5. /\ y \in Book /\ y.next = x.next /\ y.computed = x.computed /\ y.streams[r] = t
      /\ \A k \in Ranks : k # r => y.streams[k] = x.streams[k]
  BY <1>1, <1>2, <1>4 DEF Book
<1>6. \A k \in Ranks : k >= y.next => y.streams[k] = Fresh
  BY <1>1, <1>5 DEF Sound, Book, Ranks
<1>7. Owed(y) = Owed(x) /\ Counted(x) \subseteq Counted(y)
  BY <1>2, <1>5, SameOwed DEF SameCredit
<1>8. Sound(y) /\ Keeps(x, y)
  BY <1>2, <1>3, <1>5, <1>6, <1>7 DEF Sound, Keeps, SameCredit
<1> QED BY <1>5, <1>8 DEF y

LEMMA AddToStreamStep ==
  ASSUME IInv, NEW e \in End, NEW r \in Ranks, NEW n \in 0..1, NEW fin \in BOOLEAN,
         AddToStream(e, r, n, fin)
  PROVE  IInv' /\ Grows
<1> DEFINE x == IF e = Opener /\ r = end[e].next THEN CreateMissing(end[e], e, r) ELSE end[e]
           s == x.streams[r]
           y == IF fin THEN [x EXCEPT !.streams[r].fin_requested = TRUE] ELSE x
           f == IF fin THEN [s EXCEPT !.fin_requested = TRUE] ELSE s
           z == [y EXCEPT !.streams[r].queued = s.queued + n]
           w == UpdateOutput(z, e, r)
           result == IF Refused(s) THEN y ELSE w
<1>1. /\ plan' = plan /\ end' = [end EXCEPT ![e] = result] /\ Live(x, r)
  BY DEF AddToStream
<1>2. Sound(x) /\ Keeps(end[e], x) /\ r < x.next /\ x \in Book /\ s \in Record /\ s.state # "deleted"
  <2>1. Sound(end[e]) /\ plan.last \in Nat
    BY DEF IInv
  <2>2. Sound(x) /\ Keeps(end[e], x)
    BY <2>1, CreateIsSound DEF Keeps
  <2> HIDE DEF x
  <2>3. x \in Book /\ s \in Record /\ x.next \in Int /\ r \in Int
    BY <2>1, <2>2 DEF Sound, Book, Ranks
  <2>4. s.state # "none" /\ s.state # "deleted"
    BY <1>1 DEF Live
  <2>5. r < x.next
    BY <2>2, <2>3, <2>4 DEF Sound, Fresh
  <2> QED BY <2>2, <2>3, <2>4, <2>5
<1>3. e = Acceptor => x.next = end[e].next
  BY OneAcceptor
<1> HIDE DEF x
<1>4. Changes(x, y, r) /\ y.streams[r] = f
  <2> DEFINE g == [s EXCEPT !.fin_requested = TRUE]
  <2>1. /\ g \in Record /\ g.acked = s.acked /\ g.got = s.got
        /\ SameCredit(s, g) /\ SameCredit(s, s)
    BY <1>2 DEF Record, SameCredit, Earned, IsOver, SendComplete
  <2>2. f \in Record /\ f.acked = s.acked /\ f.got = s.got /\ SameCredit(s, f)
    BY <1>2, <2>1
  <2>3. y = [x EXCEPT !.streams[r] = f]
    BY <1>2 DEF Book
  <2> HIDE DEF y, f
  <2> QED BY <1>2, <2>2, <2>3, EditIsChange
<1>5. f.state # "deleted"
  BY <1>2 DEF Record
<1> HIDE DEF y, f
<1>6. y \in Book /\ y.streams[r] \in Record
  BY <1>4 DEF Changes, Book
<1>7. Changes(y, z, r) /\ z.streams[r].state = f.state
  <2> DEFINE t == [y.streams[r] EXCEPT !.queued = s.queued + n]
  <2>1. /\ t \in Record /\ t.acked = y.streams[r].acked /\ t.got = y.streams[r].got
        /\ t.state = f.state /\ SameCredit(y.streams[r], t)
    <3>1. s.queued + n \in Nat
      BY <1>2 DEF Record
    <3> QED BY <1>4, <1>6, <3>1 DEF Record, SameCredit, Earned, IsOver, SendComplete
  <2>2. z = [y EXCEPT !.streams[r] = t]
    OBVIOUS
  <2> HIDE DEF z, t
  <2> QED BY <1>6, <2>1, <2>2, EditIsChange
<1> HIDE DEF z
<1>8. Changes(z, w, r) /\ w.streams[r].state = f.state
  <2> DEFINE b == HasData(z.streams[r]) /\ (z.streams[r].sent = 0 => MaySend(e, r))
             t == [z.streams[r] EXCEPT !.listed = b]
  <2>1. z \in Book /\ z.streams[r] \in Record
    BY <1>7 DEF Changes, Book
  <2>2. b \in BOOLEAN
    OBVIOUS
  <2>3. w = [z EXCEPT !.streams[r] = t]
    BY DEF UpdateOutput
  <2> HIDE DEF b
  <2>4. t \in Record /\ t.acked = z.streams[r].acked /\ t.got = z.streams[r].got
        /\ t.state = z.streams[r].state /\ SameCredit(z.streams[r], t)
    BY <2>1, <2>2 DEF Record, SameCredit, Earned, IsOver, SendComplete
  <2> HIDE DEF w, t
  <2> QED BY <1>7, <2>1, <2>3, <2>4, EditIsChange
<1> HIDE DEF w
<1>9. Changes(x, result, r) /\ Safe(result.streams[r])
  BY <1>4, <1>5, <1>7, <1>8, ChangesCompose DEF Safe
<1> HIDE DEF result
<1>10. Sound(result) /\ Keeps(x, result)
  BY <1>2, <1>9, ChangeIsSound
<1>11. Keeps(end[e], result)
  BY <1>2, <1>10 DEF Keeps
<1>12. Opens(e, result)
  BY <1>9, <1>3 DEF Changes, Opens
<1> QED BY <1>1, <1>10, <1>11, <1>12, StepKeepsInv

(* A step that changes one live stream.                                    *)
LEMMA LiveStep ==
  ASSUME IInv, plan' = plan, NEW e \in End, NEW r \in Ranks, Live(end[e], r),
         NEW y, Changes(end[e], y, r), Safe(y.streams[r]), end' = [end EXCEPT ![e] = y]
  PROVE  IInv' /\ Grows
<1>1. Sound(end[e]) /\ end[e] \in Book
  BY DEF IInv, Sound
<1>2. r < end[e].next
  BY <1>1 DEF Sound, Live, Fresh, Book, Ranks
<1>3. Sound(y) /\ Keeps(end[e], y)
  BY <1>1, <1>2, ChangeIsSound
<1>4. Opens(e, y)
  BY DEF Changes, Opens
<1> QED BY <1>3, <1>4, StepKeepsInv

LEMMA ResetStep ==
  ASSUME IInv, NEW e \in End, NEW r \in Ranks, Reset(e, r)
  PROVE  IInv' /\ Grows
<1> DEFINE y == ResetStream(end[e], r)
<1>1. plan' = plan /\ Live(end[e], r) /\ end' = [end EXCEPT ![e] = y]
  BY DEF Reset
<1>2. Changes(end[e], y, r) /\ y.streams[r].state = end[e].streams[r].state
  BY ResetIsChange DEF IInv
<1>3. Safe(y.streams[r])
  BY <1>1, <1>2 DEF Live, Safe
<1> QED BY <1>1, <1>2, <1>3, LiveStep

LEMMA StopSendingStep ==
  ASSUME IInv, NEW e \in End, NEW r \in Ranks, StopSending(e, r)
  PROVE  IInv' /\ Grows
<1> DEFINE x == end[e]
           s == x.streams[r]
           t == [s EXCEPT !.stop_requested = TRUE, !.stop_sent = ~s.fin_received]
           y == [x EXCEPT !.streams[r] = t]
<1>1. /\ x \in Book /\ s \in Record /\ end \in [End -> Book]
  BY DEF IInv, Book
<1>2. /\ plan' = plan /\ Live(x, r)
      /\ end' = [end EXCEPT ![e].streams[r].stop_requested = TRUE,
                            ![e].streams[r].stop_sent = ~s.fin_received]
  BY DEF StopSending
<1>3. end' = [end EXCEPT ![e] = y]
  BY <1>1, <1>2 DEF Book
<1>4. t \in Record /\ t.acked = s.acked /\ t.got = s.got /\ t.state = s.state /\ SameCredit(s, t)
  BY <1>1 DEF Record, SameCredit, Earned, IsOver, SendComplete
<1> HIDE DEF t
<1>5. Changes(x, y, r) /\ y.streams[r] = t
  BY <1>1, <1>4, EditIsChange
<1>6. Safe(y.streams[r])
  BY <1>2, <1>4, <1>5 DEF Live, Safe
<1> QED BY <1>2, <1>3, <1>5, <1>6, LiveStep

LEMMA SendStep ==
  ASSUME IInv, NEW e \in End, NEW r \in Ranks, SendStream(e, r)
  PROVE  IInv' /\ Grows
<1> DEFINE x == end[e]
           s == x.streams[r]
           t == [s EXCEPT !.sent = s.sent + s.queued, !.queued = 0, !.fin_sent = s.fin_requested,
                          !.listed = FALSE]
           y == [x EXCEPT !.streams[r] = t]
           u == UpdateMaxStreamId(y, e, r)
           d == DeleteIfClosed(u, e, r)
           z == IF s.fin_requested THEN d ELSE y
<1>1. x \in Book /\ s \in Record
  BY DEF IInv, Book
<1>2. plan' = plan /\ Live(x, r)
  BY DEF SendStream
<1>3. end' = [end EXCEPT ![e] = z]
  <2> DEFINE a == [[x EXCEPT !.streams[r].sent = s.sent + s.queued, !.streams[r].queued = 0,
                             !.streams[r].fin_sent = s.fin_requested]
                      EXCEPT !.streams[r].listed = FALSE]
  <2>1. a = y
    BY <1>1, ZenonT(60) DEF Book
  <2>2. end' = [end EXCEPT ![e] =
                  IF s.fin_requested THEN DeleteIfClosed(UpdateMaxStreamId(a, e, r), e, r) ELSE a]
    BY Zenon DEF SendStream
  <2> HIDE DEF a, y
  <2> QED BY <2>1, <2>2
<1>4. t \in Record /\ t.acked = s.acked /\ t.got = s.got /\ t.state = s.state /\ SameCredit(s, t)
  <2>1. s.sent + s.queued \in Nat /\ s.fin_requested \in BOOLEAN
    BY <1>1 DEF Record
  <2>2. ASSUME NEW k \in Nat, NEW b \in BOOLEAN
        PROVE  LET v == [s EXCEPT !.sent = k, !.queued = 0, !.fin_sent = b, !.listed = FALSE]
               IN  v \in Record /\ v.acked = s.acked /\ v.got = s.got /\ v.state = s.state
    BY <1>1 DEF Record
  <2>3. SameCredit(s, t)
    BY <1>1 DEF Record, SameCredit, Earned, IsOver, SendComplete
  <2> QED BY <2>1, <2>2, <2>3
<1> HIDE DEF t
<1>5. Changes(x, y, r) /\ y.streams[r].state = s.state
  BY <1>1, <1>4, EditIsChange
<1> HIDE DEF y
<1>6. Changes(y, u, r) /\ u.streams[r].state = s.state
  BY <1>5, UpdateMaxIsChange DEF Changes, IInv
<1>7. Changes(x, u, r) /\ Safe(u.streams[r]) /\ u \in Book
  BY <1>2, <1>5, <1>6, ChangesCompose DEF Changes, Live, Safe
<1> HIDE DEF u
<1>8. Changes(u, d, r) /\ Safe(d.streams[r])
  BY <1>7, DeleteIsChange DEF IInv
<1> HIDE DEF d
<1>9. Changes(x, z, r) /\ Safe(z.streams[r])
  BY <1>2, <1>5, <1>7, <1>8, ChangesCompose DEF Live, Safe
<1> QED BY <1>2, <1>3, <1>9, LiveStep

(* A frame that arrives on a stream: y is what its handler makes.          *)
LEMMA ArrivalStep ==
  ASSUME IInv, plan' = plan, NEW e \in End, NEW r \in Ranks, NEW kind \in Kinds,
         NEW y, Sound(y), Keeps(end[e], y), r < y.next, Opens(e, y), Becomes(e, r, kind, y)
  PROVE  IInv' /\ Grows
<1> DEFINE z == [y EXCEPT !.streams[r].got = @ \cup {kind}]
<1>1. Sound(z) /\ Keeps(y, z) /\ z.next = y.next
  BY NotedIsSound
<1>2. end' = [end EXCEPT ![e] = z]
  BY DEF Becomes
<1> HIDE DEF z
<1>3. Keeps(end[e], z)
  BY <1>1 DEF Keeps
<1>4. Opens(e, z)
  BY <1>1 DEF Opens
<1> QED BY <1>1, <1>2, <1>3, <1>4, StepKeepsInv

LEMMA StaysSound ==
  ASSUME IInv, NEW e \in End, NEW r \in Ranks
  PROVE  /\ Sound(end[e]) /\ Keeps(end[e], end[e]) /\ plan.last \in Nat
         /\ Gone(e, r) => r < end[e].next
         /\ ~Gone(e, r) /\ r < end[e].next => end[e].streams[r].state \in {"open", "closed"}
BY DEF IInv, Keeps, Gone, Live

LEMMA ReceiveStreamStep ==
  ASSUME IInv, NEW e \in End, NEW r \in Ranks, NEW kind \in {"data", "fin"},
         ReceiveStream(e, r, kind)
  PROVE  IInv' /\ Grows
<1> DEFINE n == end[Peer(e)].streams[r].sent
           y == IF Gone(e, r) THEN end[e] ELSE Input(end[e], e, r, kind, n)
<1>1. n \in Nat
  BY Ends DEF IInv, Book, Record
<1>2. CASE plan' = plan /\ ~TooHigh(e, r) /\ Becomes(e, r, kind, y)
  <2>1. /\ Sound(y) /\ Keeps(end[e], y) /\ r < y.next
        /\ y.next = end[e].next \/ y.next = r + 1
    <3> DEFINE w == Input(end[e], e, r, kind, n)
    <3> HIDE DEF n
    <3>1. CASE Gone(e, r)
      BY <3>1, StaysSound
    <3>2. CASE ~Gone(e, r)
      <4>1. y = w
        BY <3>2
      <4>2. /\ Sound(w) /\ Keeps(end[e], w) /\ r < w.next
            /\ w.next = end[e].next \/ w.next = r + 1
        <5>1. /\ Sound(end[e]) /\ plan.last \in Nat
              /\ r < end[e].next => end[e].streams[r].state \in {"open", "closed"}
          BY <3>2, StaysSound
        <5> QED BY <1>1, <5>1, InputIsSound
      <4> QED BY <4>1, <4>2
    <3> QED BY <3>1, <3>2
  <2> HIDE DEF y
  <2>2. Opens(e, y)
    BY <1>2, <2>1 DEF Opens
  <2> QED BY <1>2, <2>1, <2>2, ArrivalStep DEF Kinds
<1>3. CASE plan' = plan /\ end' = end
  BY <1>3, NothingMoves
<1> QED BY <1>2, <1>3 DEF ReceiveStream, Fail

LEMMA ReceiveResetStep ==
  ASSUME IInv, NEW e \in End, NEW r \in Ranks, NEW answer \in BOOLEAN,
         ReceiveReset(e, r, answer)
  PROVE  IInv' /\ Grows
<1> DEFINE n == end[Peer(e)].streams[r].sent
           y == IF Gone(e, r) THEN end[e] ELSE InputReset(end[e], e, r, n, answer)
<1>1. n \in Nat
  BY Ends DEF IInv, Book, Record
<1>2. CASE plan' = plan /\ ~TooHigh(e, r) /\ Becomes(e, r, "reset", y)
  <2>1. /\ Sound(y) /\ Keeps(end[e], y) /\ r < y.next
        /\ y.next = end[e].next \/ y.next = r + 1
    <3> DEFINE w == InputReset(end[e], e, r, n, answer)
    <3> HIDE DEF n
    <3>1. CASE Gone(e, r)
      BY <3>1, StaysSound
    <3>2. CASE ~Gone(e, r)
      <4>1. y = w
        BY <3>2
      <4>2. /\ Sound(w) /\ Keeps(end[e], w) /\ r < w.next
            /\ w.next = end[e].next \/ w.next = r + 1
        <5>1. /\ Sound(end[e]) /\ plan.last \in Nat
              /\ r < end[e].next => end[e].streams[r].state \in {"open", "closed"}
          BY <3>2, StaysSound
        <5> QED BY <1>1, <5>1, InputResetIsSound
      <4> QED BY <4>1, <4>2
    <3> QED BY <3>1, <3>2
  <2> HIDE DEF y
  <2>2. Opens(e, y)
    BY <1>2, <2>1 DEF Opens
  <2> QED BY <1>2, <2>1, <2>2, ArrivalStep DEF Kinds
<1>3. CASE plan' = plan /\ end' = end
  BY <1>3, NothingMoves
<1> QED BY <1>2, <1>3 DEF ReceiveReset, Fail

LEMMA ReceiveStopStep ==
  ASSUME IInv, NEW e \in End, NEW r \in Ranks, NEW answer \in BOOLEAN,
         ReceiveStop(e, r, answer)
  PROVE  IInv' /\ Grows
<1> DEFINE x == CreateMissing(end[e], e, r)
           t == [x.streams[r] EXCEPT !.stop_received = TRUE]
           y == [x EXCEPT !.streams[r].stop_received = TRUE]
           z == IF answer THEN ResetStream(y, r) ELSE y
<1>1. CASE plan' = plan /\ end' = end
  BY <1>1, NothingMoves
<1>2. CASE plan' = plan /\ ~TooHigh(e, r) /\ ~Gone(e, r) /\ end' = [end EXCEPT ![e] = z]
  <2>1. /\ Sound(x) /\ Keeps(end[e], x) /\ r < x.next /\ x \in Book
        /\ x.next = end[e].next \/ x.next = r + 1
        /\ x.streams[r].state # "deleted" /\ x.streams[r] \in Record
    <3>1. end[e].next \in Int /\ r \in Int
      BY StaysSound DEF Sound, Book, Ranks
    <3>2. /\ Sound(x) /\ Keeps(end[e], x) /\ r < x.next
          /\ x.next = end[e].next \/ x.next = r + 1
      BY StaysSound, CreateIsSound
    <3>3. x.streams[r].state # "deleted"
      <4>1. CASE r < end[e].next
        BY <1>2, <4>1, StaysSound, CreateIsSound
      <4>2. CASE r >= end[e].next
        BY <4>2, StaysSound, CreateIsSound
      <4> QED BY <3>1, <4>1, <4>2
    <3> HIDE DEF x
    <3> QED BY <3>2, <3>3 DEF Sound, Book
  <2> HIDE DEF x
  <2>2. t \in Record /\ t.acked = x.streams[r].acked /\ t.got = x.streams[r].got
        /\ t.state = x.streams[r].state /\ SameCredit(x.streams[r], t)
    BY <2>1 DEF Record, SameCredit, Earned, IsOver, SendComplete
  <2>3. y = [x EXCEPT !.streams[r] = t]
    OBVIOUS
  <2> HIDE DEF y, t
  <2>4. Changes(x, y, r) /\ y.streams[r].state # "deleted"
    BY <2>1, <2>2, <2>3, EditIsChange
  <2>5. Changes(x, z, r) /\ Safe(z.streams[r])
    BY <2>4, ResetIsChange, ChangesCompose DEF Changes, Safe
  <2> HIDE DEF z
  <2>6. Sound(z) /\ Keeps(x, z)
    BY <2>1, <2>5, ChangeIsSound
  <2>7. Keeps(end[e], z)
    BY <2>1, <2>6 DEF Keeps
  <2>8. Opens(e, z)
    BY <1>2, <2>1, <2>5 DEF Changes, Opens
  <2> QED BY <1>2, <2>6, <2>7, <2>8, StepKeepsInv
<1> QED BY <1>1, <1>2 DEF ReceiveStop, Fail

LEMMA ReceiveAckStep ==
  ASSUME IInv, NEW e \in End, NEW r \in Ranks, NEW kind \in Kinds, ReceiveAck(e, r, kind)
  PROVE  IInv' /\ Grows
<1> DEFINE x == end[e]
           s == x.streams[r]
           t == [s EXCEPT !.acked = @ \cup {kind}]
           y == [x EXCEPT !.streams[r] = t]
           z == DeleteIfClosed(y, e, r)
           m == [end EXCEPT ![e] = y]
<1>1. x \in Book /\ s \in Record /\ Sound(x) /\ end \in [End -> Book]
  BY DEF IInv, Book
<1>2. plan' = plan /\ Live(x, r) /\ kind \in end[Peer(e)].streams[r].got
      /\ end' = [end EXCEPT ![e] = z]
  BY DEF ReceiveAck
<1>3. r < x.next
  <2>1. r \in Int /\ x.next \in Int
    BY <1>1 DEF IInv, Book, Ranks
  <2>2. ~(r >= x.next)
    BY <1>1, <1>2 DEF Sound, Live, Fresh
  <2> QED BY <2>1, <2>2
<1>4. /\ t \in Record /\ t.acked = s.acked \cup {kind} /\ t.got = s.got /\ t.state = s.state
      /\ SameCredit(s, t)
  BY <1>1 DEF Record, SameCredit, Earned, IsOver, SendComplete
<1> HIDE DEF t
<1>5. /\ y \in Book /\ y.next = x.next /\ y.computed = x.computed /\ y.streams[r] = t
      /\ \A k \in Ranks : k # r => y.streams[k] = x.streams[k]
  BY <1>1, <1>4 DEF Book
<1> HIDE DEF y
<1>6. Safe(y.streams[r])
  BY <1>2, <1>4, <1>5 DEF Live, Safe
<1>7. Changes(y, z, r) /\ Safe(z.streams[r])
  BY <1>5, <1>6, DeleteIsChange DEF IInv
<1> HIDE DEF z
<1>8. Owed(z) = Owed(x) /\ Counted(x) \subseteq Counted(z)
  <2>1. Owed(y) = Owed(x) /\ Counted(x) \subseteq Counted(y)
    BY <1>4, <1>5, SameOwed DEF SameCredit
  <2> QED BY <1>7, <2>1 DEF Changes
<1>9. Earned(z.streams[r])
  BY <1>1, <1>4, <1>5, <1>7 DEF Changes, SameCredit, Sound
<1>10. \A k \in Ranks : k # r => z.streams[k] = x.streams[k]
  BY <1>5, <1>7 DEF Changes
<1>11. z \in Book /\ z.next = x.next
  BY <1>5, <1>7 DEF Changes
<1>12. Sound(z)
  <2> SUFFICES ASSUME NEW k \in Ranks
               PROVE  /\ Safe(z.streams[k]) /\ Earned(z.streams[k])
                      /\ k >= z.next => z.streams[k] = Fresh
    BY <1>11 DEF Sound
  <2>1. CASE k = r
    BY <1>1, <1>3, <1>7, <1>11, <1>9, <2>1 DEF Book, Ranks
  <2>2. CASE k # r
    BY <1>1, <1>10, <1>11, <2>2 DEF Sound
  <2> QED BY <2>1, <2>2
<1>13. \A k \in Ranks : z.streams[k].got = x.streams[k].got
  BY <1>4, <1>5, <1>7, <1>10 DEF Changes
<1>14. \A k \in Ranks : z.streams[k].acked \subseteq end[Peer(e)].streams[k].got
  BY <1>2, <1>4, <1>5, <1>7, <1>10 DEF Changes, IInv, Backed
<1>15. Backed(end')
  <2> SUFFICES ASSUME NEW d \in End, NEW k \in Ranks
               PROVE  end'[d].streams[k].acked \subseteq end'[Peer(d)].streams[k].got
    BY DEF Backed
  <2>1. CASE d = e
    BY <1>1, <1>2, <1>14, <2>1, Ends
  <2>2. CASE d # e
    <3>1. end'[d] = end[d] /\ end'[Peer(d)].streams[k].got = end[Peer(d)].streams[k].got
      BY <1>1, <1>2, <1>13, <2>2, Ends
    <3> QED BY <3>1 DEF IInv, Backed
  <2> QED BY <2>1, <2>2
<1>16. /\ end' \in [End -> Book]
       /\ \A d \in End : Sound(end'[d]) /\ Owed(end'[d]) = Bit(d)
  BY <1>1, <1>2, <1>11, <1>12, <1>8 DEF IInv
<1>17. Ranks' = Ranks /\ Book' = Book
  BY <1>2 DEF Ranks, Book
<1>18. IInv'
  BY <1>2, <1>15, <1>16, <1>17 DEF IInv, Sound, Owed, Counted, Backed, Ranks
<1>19. Grows
  <2>1. end'[Acceptor] = end[Acceptor] \/ (Acceptor = e /\ end'[Acceptor] = z)
    BY <1>1, <1>2, OneAcceptor
  <2>2. Counted(end[Acceptor])' = Counted(end'[Acceptor])
    BY <1>17, OneAcceptor DEF Counted
  <2> QED BY <1>11, <1>8, <2>1, <2>2 DEF Grows
<1> QED BY <1>18, <1>19

LEMMA ReceiveMaxStreamsStep ==
  ASSUME IInv, NEW rank, ReceiveMaxStreams(rank), Opener \in End
  PROVE  IInv' /\ Grows
<1> DEFINE x == end[Opener]
           released == {r \in Ranks : StreamId(r) > limit.remote
                                      /\ StreamId(r) <= IdFromRank(rank, Opener)}
           f(r) == IF r \in released /\ Live(x, r) THEN [x.streams[r] EXCEPT !.listed = TRUE]
                   ELSE x.streams[r]
           g == [r \in Ranks |-> f(r)]
           y == [x EXCEPT !.streams = g]
<1>1. x \in Book /\ Sound(x) /\ end \in [End -> Book]
  BY DEF IInv
<1>2. plan' = plan /\ end' = [end EXCEPT ![Opener].streams = g]
  BY DEF ReceiveMaxStreams
<1>3. end' = [end EXCEPT ![Opener] = y]
  <2> HIDE DEF g
  <2> QED BY <1>2
<1>4. ASSUME NEW r \in Ranks
      PROVE  /\ f(r) \in Record /\ f(r).acked = x.streams[r].acked
             /\ f(r).got = x.streams[r].got /\ Safe(f(r)) /\ SameCredit(x.streams[r], f(r))
             /\ r >= x.next => f(r) = Fresh
  <2> DEFINE t == [x.streams[r] EXCEPT !.listed = TRUE]
  <2>1. x.streams[r] \in Record
    BY <1>1 DEF Book
  <2>2. /\ t \in Record /\ t.acked = x.streams[r].acked /\ t.got = x.streams[r].got
        /\ t.state = x.streams[r].state /\ SameCredit(x.streams[r], t)
    BY <2>1 DEF Record, SameCredit, Earned, IsOver, SendComplete
  <2> HIDE DEF t
  <2>3. CASE f(r) = t /\ Live(x, r)
    <3>1. ~(r >= x.next)
      BY <1>1, <2>3 DEF Sound, Live, Fresh
    <3> QED BY <2>2, <2>3, <3>1 DEF Live, Safe
  <2>4. CASE f(r) = x.streams[r]
    BY <1>1, <2>1, <2>4 DEF Sound, SameCredit
  <2> QED BY <2>3, <2>4 DEF t
<1> HIDE DEF f
<1>5. g \in [Ranks -> Record] /\ \A r \in Ranks : g[r] = f(r)
  BY <1>4
<1> HIDE DEF g
<1>6. y \in Book /\ y.next = x.next /\ y.computed = x.computed /\ y.streams = g
  BY <1>1, <1>5 DEF Book
<1> HIDE DEF y
<1>7. Owed(y) = Owed(x) /\ Counted(x) \subseteq Counted(y)
  BY <1>4, <1>5, <1>6, SameOwed DEF SameCredit
<1>8. Sound(y) /\ Keeps(x, y) /\ Opens(Opener, y)
  BY <1>1, <1>4, <1>5, <1>6, <1>7, OneAcceptor DEF Sound, Keeps, SameCredit, Opens
<1> QED BY <1>2, <1>3, <1>8, StepKeepsInv
------------------------------------------------------------------------------
LEMMA BookOfRecords ==
  ASSUME NEW g \in [Ranks -> Record], NEW n \in Int, NEW b \in Int
  PROVE  [streams |-> g, next |-> n, computed |-> b] \in Book
BY DEF Book

THEOREM InitInv == Init => IInv
<1> SUFFICES ASSUME Init PROVE IInv
  OBVIOUS
<1>1. plan.last \in Nat
  BY PlansAssumption DEF Init, Plan
<1>2. \A e \in End : Bit(e) \in Int
  BY DEF Bit
<1>3. [r \in Ranks |-> Fresh] \in [Ranks -> Record]
  BY FreshIsRecord
<1>4. \A e \in End : end[e] = [streams |-> [r \in Ranks |-> Fresh], next |-> 1, computed |-> Bit(e)]
  BY DEF Init
<1>5. /\ end \in [End -> Book]
      /\ \A e \in End : /\ end[e].computed = Bit(e)
                        /\ \A k \in Ranks : end[e].streams[k] = Fresh
  <2> DEFINE g == [r \in Ranks |-> Fresh]
  <2>1. g \in [Ranks -> Record] /\ \A k \in Ranks : g[k] = Fresh
    BY <1>3
  <2>2. \A e \in End : end[e] = [streams |-> g, next |-> 1, computed |-> Bit(e)]
    BY <1>4
  <2> HIDE DEF g
  <2>3. \A e \in End : end[e] \in Book
    <3> SUFFICES ASSUME NEW e \in End PROVE end[e] \in Book
      OBVIOUS
    <3>1. [streams |-> g, next |-> 1, computed |-> Bit(e)] \in Book
      BY <1>2, <2>1, BookOfRecords
    <3> QED BY <2>2, <3>1
  <2>4. DOMAIN end = End /\ end = [e \in End |-> end[e]]
    BY DEF Init
  <2> QED BY <2>1, <2>2, <2>3, <2>4
<1>6. \A e \in End : Sound(end[e])
  BY <1>5, FreshIsRecord DEF Sound
<1>7. Backed(end)
  BY <1>5, FreshIsRecord DEF Backed
<1>8. \A e \in End : Owed(end[e]) = Bit(e)
  <2> SUFFICES ASSUME NEW e \in End PROVE Owed(end[e]) = Bit(e)
    OBVIOUS
  <2>1. Counted(end[e]) = {}
    BY <1>5, FreshIsRecord DEF Counted
  <2>2. Cardinality(Counted(end[e])) = 0
    BY <2>1, FS_EmptySet
  <2>3. end[e].computed = Bit(e) /\ Bit(e) \in Int
    BY <1>2, <1>5
  <2> HIDE DEF Bit
  <2> QED BY <2>2, <2>3 DEF Owed
<1> QED BY <1>1, <1>5, <1>6, <1>7, <1>8 DEF IInv

LEMMA EachStep == IInv /\ [Next]_vars => IInv' /\ Grows
<1> SUFFICES ASSUME IInv, [Next]_vars PROVE IInv' /\ Grows
  OBVIOUS
<1>1. CASE UNCHANGED vars
  BY <1>1, NothingMoves DEF vars
<1>2. ASSUME NEW e \in End, NEW r \in Ranks, NEW n \in 0..1, NEW fin \in BOOLEAN,
             AddToStream(e, r, n, fin)
      PROVE  IInv' /\ Grows
  BY <1>2, AddToStreamStep
<1>3. ASSUME NEW e \in End, NEW r \in Ranks, Reset(e, r) PROVE IInv' /\ Grows
  BY <1>3, ResetStep
<1>4. ASSUME NEW e \in End, NEW r \in Ranks, StopSending(e, r) PROVE IInv' /\ Grows
  BY <1>4, StopSendingStep
<1>5. ASSUME NEW e \in End, NEW r \in Ranks, SendStream(e, r) PROVE IInv' /\ Grows
  BY <1>5, SendStep
<1>6. ASSUME NEW e \in End, NEW r \in Ranks, Receive(e, r) PROVE IInv' /\ Grows
  BY <1>6, ReceiveStreamStep, ReceiveResetStep, ReceiveStopStep DEF Receive
<1>7. ASSUME NEW e \in End, NEW r \in Ranks, NEW kind \in Kinds, ReceiveAck(e, r, kind)
      PROVE  IInv' /\ Grows
  BY <1>7, ReceiveAckStep
<1>8. CASE FormatMaxStreams
  BY <1>8, NothingMoves DEF FormatMaxStreams
<1>9. ASSUME NEW rank, ReceiveMaxStreams(rank) PROVE IInv' /\ Grows
  BY <1>9, ReceiveMaxStreamsStep, PlansAssumption
<1> QED BY <1>1, <1>2, <1>3, <1>4, <1>5, <1>6, <1>7, <1>8, <1>9 DEF Next

THEOREM NextInv == IInv /\ [Next]_vars => IInv'
BY EachStep

THEOREM InvImplies == IInv => DeletedIsDone
<1> SUFFICES ASSUME IInv, NEW e \in End, NEW r \in Ranks, end[e].streams[r].state = "deleted"
             PROVE  LET got == end[Peer(e)].streams[r].got
                    IN  IF end[e].streams[r].reset_sent THEN "reset" \in got
                        ELSE SentKinds(end[e].streams[r]) \subseteq got
  BY DEF DeletedIsDone
<1>1. IsAcked(end[e].streams[r])
  BY DEF IInv, Sound, Safe
<1>2. end[e].streams[r].acked \subseteq end[Peer(e)].streams[r].got
  BY DEF IInv, Backed
<1> QED BY <1>1, <1>2 DEF IsAcked

(* An end deletes a stream only when the peer has all it sent on it,       *)
(* whatever is finished, reset, stopped, repeated or reordered             *)
(* (picoquic_delete_stream_if_closed).                                     *)
THEOREM NothingDeletedEarly == Spec => []DeletedIsDone
<1>1. Init => IInv
  BY InitInv
<1>2. IInv /\ [Next]_vars => IInv'
  BY NextInv
<1>3. IInv => DeletedIsDone
  BY InvImplies
<1> QED BY <1>1, <1>2, <1>3, PTL DEF Spec
-----------------------------------------------------------------------------
(***************************************************************************)
(* The limits.  Two ends that run the code, the client opening the         *)
(* streams, raise no error against each other, and the acceptor never      *)
(* keeps more than twice the streams it first permitted that are not over. *)
(*                                                                         *)
(* The invariant of the first adds to IInv that what an end has heard of a *)
(* stream is what its peer has said, that a stream on which the opener has *)
(* said anything is within the limit it knows, and that the acceptor       *)
(* permits what it has announced.  That of the second counts: the acceptor *)
(* permits no more than it permitted first and what the streams that are   *)
(* over gave back.                                                         *)
(***************************************************************************)
(* One end of a stream: nothing is added after the end or the reset.       *)
Local(s) ==
  /\ s.queued + s.sent <= 1
  /\ s.fin_sent => s.fin_requested /\ s.queued = 0
  /\ s.reset_sent => s.queued = 0

(* What s has heard of the end of the stream is what p has said.           *)
Believes(s, p) ==
  /\ s.fin_received => p.fin_sent /\ s.fin_offset = p.sent
  /\ s.reset_received => p.reset_sent /\ s.fin_offset = p.sent

(* What an end may have done on a stream only within the limit.            *)
Speaks(s) == s.sent > 0 \/ s.fin_sent \/ s.reset_sent \/ s.stop_sent \/ s.stop_received

Limits ==
  /\ limit \in [local : Int, remote : Int, sent : SUBSET Int]
  /\ limit.remote <= limit.local
  /\ \A rank \in limit.sent : IdFromRank(rank, Opener) <= limit.local

Within ==
  \A r \in Ranks :
    r < end[Acceptor].next \/ Speaks(end[Opener].streams[r]) => StreamId(r) <= limit.remote

Agreed ==
  \A e \in End, r \in Ranks :
    Local(end[e].streams[r]) /\ Believes(end[e].streams[r], end[Peer(e)].streams[r])

JInv == Limits /\ Within /\ Agreed /\ NoPeerError

(* The hypothesis: the client opens the streams, and no application aborts *)
(* a stream that is above the limit.                                       *)
ClientOpens == Opener = "c" /\ EarlyAborts = FALSE /\ Initial \in Nat
------------------------------------------------------------------------------
(* What was said stays so.                                                 *)
Stays(s, t) ==
  /\ s.fin_sent => t.fin_sent /\ t.sent = s.sent
  /\ s.reset_sent => t.reset_sent /\ t.sent = s.sent

LEMMA Sides == ClientOpens => Acceptor = "s" /\ Opener = "c" /\ End = {"c", "s"}
<1> SUFFICES ASSUME ClientOpens PROVE Acceptor = "s"
  BY DEF ClientOpens, End
<1>1. \E e \in End : e # Opener
  BY DEF ClientOpens, End
<1>2. Acceptor \in End /\ Acceptor # Opener
  BY <1>1 DEF Acceptor
<1> QED BY <1>2 DEF ClientOpens, End

LEMMA Peers == ClientOpens => Peer(Opener) = Acceptor /\ Peer(Acceptor) = Opener
BY Sides DEF Peer

LEMMA IdsGrow == \A a, b \in Int : a <= b => StreamId(a) <= StreamId(b)
<1>1. \A a, b \in Int : a <= b => 4 * (a - 1) <= 4 * (b - 1)
  OBVIOUS
<1>2. Bit(Opener) \in Int
  BY DEF Bit
<1> HIDE DEF Bit
<1> QED BY <1>1, <1>2 DEF StreamId, IdFromRank

LEMMA SameStays ==
  ASSUME NEW s, NEW t, SameTalk(s, t)
  PROVE  /\ Stays(s, t) /\ (Local(s) => Local(t)) /\ (Speaks(t) => Speaks(s))
         /\ \A p : Believes(s, p) => Believes(t, p)
BY DEF SameTalk, SameSent, SameHeard, Stays, Local, Speaks, Believes

LEMMA StaysBelieved ==
  ASSUME NEW s, NEW p, NEW q, Believes(s, p), Stays(p, q)
  PROVE  Believes(s, q)
BY DEF Believes, Stays

(* A stream that is above next has said and heard nothing.                 *)
LEMMA SpeakersExist ==
  ASSUME IInv, NEW e \in End, NEW r \in Ranks, Speaks(end[e].streams[r])
  PROVE  r < end[e].next
<1>1. Sound(end[e]) /\ end[e].next \in Int /\ r \in Int
  BY DEF IInv, Book, Ranks
<1> QED BY <1>1 DEF Sound, Speaks, Fresh

LEMMA InvOfInit == ClientOpens /\ Init => JInv
<1> SUFFICES ASSUME ClientOpens, Init PROVE JInv
  OBVIOUS
<1>1. IInv
  BY InitInv
<1>2. Limits
  <2>1. limit = [local |-> 4 * (Initial - 1) + 1, sent |-> {Initial}, remote |-> 4 * (Initial - 1)]
    BY Sides DEF Init, IdFromRank, Bit, ClientOpens
  <2> QED BY <2>1 DEF Limits, IdFromRank, Bit, ClientOpens
<1>3. \A e \in End : end[e].next = 1 /\ \A r \in Ranks : end[e].streams[r] = Fresh
  BY DEF Init
<1>4. Within
  <2>1. \A r \in Ranks : ~(r < 1)
    BY <1>1 DEF IInv, Ranks
  <2>2. ~Speaks(Fresh)
    BY DEF Speaks, Fresh
  <2> QED BY <1>3, <2>1, <2>2, Sides DEF Within
<1>5. Agreed
  <2>1. Local(Fresh) /\ \A p : Believes(Fresh, p)
    BY DEF Local, Believes, Fresh
  <2> QED BY <1>3, <2>1 DEF Agreed
<1> QED BY <1>2, <1>4, <1>5 DEF JInv, Init, NoPeerError
------------------------------------------------------------------------------
(* Steps.                                                                  *)

(* A step of one end on one stream.                                        *)
LEMMA TalkStep ==
  ASSUME ClientOpens, IInv, JInv, NEW e \in End, NEW r \in Ranks, NEW y,
         plan' = plan, limit' = limit, error' = error, end' = [end EXCEPT ![e] = y],
         \A k \in Ranks : k # r => SameTalk(end[e].streams[k], y.streams[k]),
         Local(y.streams[r]), Stays(end[e].streams[r], y.streams[r]),
         Believes(y.streams[r], end[Peer(e)].streams[r]),
         e = Opener /\ Speaks(y.streams[r]) => StreamId(r) <= limit.remote,
         e = Acceptor => \/ y.next = end[e].next
                         \/ y.next = r + 1 /\ StreamId(r) <= limit.remote
  PROVE  JInv'
<1>1. \A d \in End : end'[d] = IF d = e THEN y ELSE end[d]
  BY DEF IInv
<1>2. /\ Ranks' = Ranks
      /\ \A k \in Ranks : k \in Int
  BY DEF Ranks, IInv
<1>3. \A k \in Ranks : /\ Local(y.streams[k]) /\ Stays(end[e].streams[k], y.streams[k])
                       /\ Believes(y.streams[k], end[Peer(e)].streams[k])
                       /\ e = Opener /\ Speaks(y.streams[k]) => StreamId(k) <= limit.remote
  <2> SUFFICES ASSUME NEW k \in Ranks, k # r
               PROVE  /\ Local(y.streams[k]) /\ Stays(end[e].streams[k], y.streams[k])
                      /\ Believes(y.streams[k], end[Peer(e)].streams[k])
                      /\ e = Opener /\ Speaks(y.streams[k]) => StreamId(k) <= limit.remote
    OBVIOUS
  <2>1. SameTalk(end[e].streams[k], y.streams[k])
    OBVIOUS
  <2>2. Local(end[e].streams[k]) /\ Believes(end[e].streams[k], end[Peer(e)].streams[k])
    BY DEF JInv, Agreed
  <2>3. e = Opener /\ Speaks(end[e].streams[k]) => StreamId(k) <= limit.remote
    BY DEF JInv, Within
  <2> QED BY <2>1, <2>2, <2>3, SameStays
<1>4. Agreed'
  <2> SUFFICES ASSUME NEW d \in End, NEW k \in Ranks
               PROVE  /\ Local(end'[d].streams[k])
                      /\ Believes(end'[d].streams[k], end'[Peer(d)].streams[k])
    BY <1>2 DEF Agreed
  <2>1. CASE d = e
    <3>1. end'[d] = y /\ end'[Peer(d)] = end[Peer(e)]
      BY <1>1, <2>1, Ends
    <3> QED BY <1>3, <3>1
  <2>2. CASE d # e
    <3>1. end'[d] = end[d] /\ Peer(d) = e /\ end'[Peer(d)] = y
      BY <1>1, <2>2 DEF End, Peer
    <3>2. Local(end[d].streams[k]) /\ Believes(end[d].streams[k], end[e].streams[k])
      BY <3>1 DEF JInv, Agreed
    <3>3. Believes(end[d].streams[k], y.streams[k])
      BY <1>3, <3>2, StaysBelieved
    <3> QED BY <3>1, <3>2, <3>3
  <2> QED BY <2>1, <2>2
<1>5. Within'
  <2> SUFFICES ASSUME NEW k \in Ranks,
                      k < end'[Acceptor].next \/ Speaks(end'[Opener].streams[k])
               PROVE  StreamId(k) <= limit.remote
    BY <1>2 DEF Within
  <2>1. CASE Speaks(end'[Opener].streams[k])
    <3>1. CASE e = Opener
      <4>1. end'[Opener] = y
        BY <1>1, <3>1
      <4> QED BY <1>3, <2>1, <3>1, <4>1
    <3>2. CASE e # Opener
      <4>1. end'[Opener] = end[Opener]
        BY <1>1, <3>2, Sides
      <4> QED BY <2>1, <4>1 DEF JInv, Within
    <3> QED BY <3>1, <3>2
  <2>2. CASE k < end'[Acceptor].next
    <3>1. CASE end'[Acceptor].next = end[Acceptor].next
      BY <2>2, <3>1 DEF JInv, Within
    <3>2. CASE end'[Acceptor].next = r + 1 /\ StreamId(r) <= limit.remote
      <4>1. k <= r /\ k \in Int /\ r \in Int
        BY <1>2, <2>2, <3>2
      <4>2. StreamId(k) \in Int /\ StreamId(r) \in Int /\ limit.remote \in Int
        <5>1. Bit(Opener) \in Int
          BY DEF Bit
        <5> QED BY <4>1, <5>1 DEF StreamId, IdFromRank, JInv, Limits
      <4>3. StreamId(k) <= StreamId(r)
        BY <4>1, IdsGrow
      <4> QED BY <3>2, <4>2, <4>3
    <3> QED BY <1>1, <3>1, <3>2, Sides
  <2> QED BY <2>1, <2>2
<1> QED BY <1>4, <1>5 DEF JInv, Limits, NoPeerError

LEMMA NothingSaid ==
  ASSUME JInv, plan' = plan, end' = end, limit' = limit, error' = error
  PROVE  JInv'
BY DEF JInv, Limits, Within, Agreed, NoPeerError, Ranks

(* A step that does not change next and only says something, on a stream   *)
(* that is within the limit or that says nothing new.                      *)
LEMMA SayStep ==
  ASSUME ClientOpens, IInv, JInv, NEW e \in End, NEW r \in Ranks, NEW y,
         plan' = plan, limit' = limit, error' = error, end' = [end EXCEPT ![e] = y],
         e = Acceptor => y.next = end[e].next,
         \A k \in Ranks : k # r => SameTalk(end[e].streams[k], y.streams[k]),
         Local(y.streams[r]), Stays(end[e].streams[r], y.streams[r]),
         SameHeard(end[e].streams[r], y.streams[r]),
         e = Opener /\ Speaks(y.streams[r]) =>
           Speaks(end[e].streams[r]) \/ StreamId(r) <= limit.remote
  PROVE  JInv'
<1>1. Believes(y.streams[r], end[Peer(e)].streams[r])
  BY DEF JInv, Agreed, Believes, SameHeard
<1>2. e = Opener /\ Speaks(y.streams[r]) => StreamId(r) <= limit.remote
  BY DEF JInv, Within
<1> QED BY <1>1, <1>2, TalkStep

(* What the peer has said shows that the stream is within the limit.       *)
LEMMA PeerWithin ==
  ASSUME ClientOpens, IInv, JInv, NEW e \in End, NEW r \in Ranks,
         Speaks(end[Peer(e)].streams[r])
  PROVE  StreamId(r) <= limit.remote /\ ~TooHigh(e, r)
<1>1. StreamId(r) <= limit.remote
  <2>1. CASE e = Acceptor
    BY <2>1, Peers DEF JInv, Within
  <2>2. CASE e = Opener
    <3>1. r < end[Acceptor].next
      BY <2>2, Peers, Sides, SpeakersExist
    <3> QED BY <3>1 DEF JInv, Within
  <2> QED BY <2>1, <2>2, Sides
<1>2. StreamId(r) \in Int
  BY DEF StreamId, IdFromRank, Bit, Ranks, IInv
<1>3. limit.remote <= limit.local /\ limit.remote \in Int /\ limit.local \in Int
  BY DEF JInv, Limits
<1>4. ~(StreamId(r) > limit.local)
  BY <1>1, <1>2, <1>3
<1> QED BY <1>1, <1>4 DEF TooHigh

(* A step that says and hears nothing on any stream.                       *)
LEMMA SilentStep ==
  ASSUME ClientOpens, IInv, JInv, NEW e \in End, NEW y,
         plan' = plan, limit' = limit, error' = error, end' = [end EXCEPT ![e] = y],
         y.next = end[e].next,
         \A k \in Ranks : SameTalk(end[e].streams[k], y.streams[k])
  PROVE  JInv'
<1>1. CASE Ranks = {}
  <2>1. end'[Acceptor].next = end[Acceptor].next /\ Ranks' = Ranks
    BY Sides DEF IInv, Ranks
  <2> QED BY <1>1, <2>1 DEF JInv, Limits, Within, Agreed, NoPeerError
<1>2. ASSUME NEW r \in Ranks PROVE JInv'
  <2>1. SameTalk(end[e].streams[r], y.streams[r])
    OBVIOUS
  <2>2. Local(y.streams[r]) /\ Stays(end[e].streams[r], y.streams[r])
        /\ (Speaks(y.streams[r]) => Speaks(end[e].streams[r]))
    BY <2>1, SameStays DEF JInv, Agreed
  <2>3. SameHeard(end[e].streams[r], y.streams[r])
    BY <2>1 DEF SameTalk
  <2> QED BY <2>2, <2>3, SayStep
<1> QED BY <1>1, <1>2

LEMMA TypedStreams ==
  ASSUME IInv, NEW e \in End, NEW r \in Ranks
  PROVE  /\ Sound(end[e]) /\ end[e] \in Book /\ end[e].streams[r] \in Record
         /\ end[e].next \in Int /\ r \in Int /\ plan.last \in Nat
BY DEF IInv, Sound, Book, Ranks

(* picoquic_add_to_stream                                                  *)
LEMMA AddToStreamTalks ==
  ASSUME ClientOpens, IInv, JInv, NEW e \in End, NEW r \in Ranks, NEW n \in 0..1,
         NEW fin \in BOOLEAN, AddToStream(e, r, n, fin)
  PROVE  JInv'
<1> DEFINE x == IF e = Opener /\ r = end[e].next THEN CreateMissing(end[e], e, r) ELSE end[e]
           s == x.streams[r]
           y == IF fin THEN [x EXCEPT !.streams[r].fin_requested = TRUE] ELSE x
           f == IF fin THEN [s EXCEPT !.fin_requested = TRUE] ELSE s
           z == [y EXCEPT !.streams[r].queued = s.queued + n]
           w == UpdateOutput(z, e, r)
           result == IF Refused(s) THEN y ELSE w
           Same(u) == /\ u \in Record /\ u.acked = s.acked /\ u.got = s.got /\ SameHeard(s, u)
                      /\ u.max_stream_updated = s.max_stream_updated
                      /\ u.sent = s.sent /\ u.fin_sent = s.fin_sent
                      /\ u.reset_sent = s.reset_sent /\ u.stop_sent = s.stop_sent
                      /\ s.fin_requested => u.fin_requested
<1>1. /\ plan' = plan /\ limit' = limit /\ error' = error
      /\ ~s.fin_requested
      /\ s.queued + s.sent + n <= IF r = plan.busy /\ e \in plan.data THEN 1 ELSE 0
      /\ end' = [end EXCEPT ![e] = result]
  BY DEF AddToStream
<1>2. /\ x \in Book /\ s \in Record
      /\ \A k \in Ranks : SameTalk(end[e].streams[k], x.streams[k])
      /\ e = Acceptor => x.next = end[e].next
  <2>1. CASE e = Opener /\ r = end[e].next
    <3>1. /\ Sound(x) /\ e # Acceptor
          /\ \A k \in Ranks : SameTalk(end[e].streams[k], x.streams[k])
      BY <2>1, TypedStreams, CreateIsSound, Sides
    <3> HIDE DEF x
    <3> QED BY <3>1 DEF Sound, Book
  <2>2. CASE x = end[e]
    BY <2>2, TypedStreams, TalkStays
  <2> QED BY <2>1, <2>2
<1> HIDE DEF x
<1>3. Changes(x, y, r) /\ y.streams[r] = f /\ Same(f) /\ f.queued = s.queued
  <2> DEFINE h == [s EXCEPT !.fin_requested = TRUE]
  <2>1. Same(h) /\ h.queued = s.queued /\ Same(s) /\ SameCredit(s, h) /\ SameCredit(s, s)
    BY <1>2 DEF Record, SameHeard, SameCredit, Earned, IsOver, SendComplete
  <2>2. Same(f) /\ f.queued = s.queued /\ SameCredit(s, f)
    BY <2>1
  <2>3. y = [x EXCEPT !.streams[r] = f]
    BY <1>2 DEF Book
  <2> HIDE DEF y, f
  <2> QED BY <1>2, <2>2, <2>3, EditIsChange
<1> HIDE DEF y, f
<1>4. /\ Changes(y, z, r) /\ Same(z.streams[r]) /\ z.streams[r].queued = s.queued + n
  <2> DEFINE t == [y.streams[r] EXCEPT !.queued = s.queued + n]
  <2>1. y \in Book /\ y.streams[r] \in Record
    BY <1>3 DEF Changes, Book
  <2>2. Same(t) /\ t.queued = s.queued + n /\ SameCredit(y.streams[r], t)
    <3>1. s.queued + n \in Nat
      BY <1>2 DEF Record
    <3> QED BY <1>3, <2>1, <3>1 DEF Record, SameHeard, SameCredit, Earned, IsOver, SendComplete
  <2>3. z = [y EXCEPT !.streams[r] = t]
    OBVIOUS
  <2> HIDE DEF z, t
  <2>4. Changes(y, z, r) /\ z.streams[r] = t
    BY <1>3, <2>1, <2>2, <2>3, EditIsChange
  <2> QED BY <2>2, <2>4
<1> HIDE DEF z
<1>5. /\ Changes(z, w, r) /\ Same(w.streams[r]) /\ w.streams[r].queued = s.queued + n
  <2> DEFINE b == HasData(z.streams[r]) /\ (z.streams[r].sent = 0 => MaySend(e, r))
             t == [z.streams[r] EXCEPT !.listed = b]
  <2>1. z \in Book /\ z.streams[r] \in Record
    BY <1>4 DEF Changes, Book
  <2>2. b \in BOOLEAN
    OBVIOUS
  <2>3. w = [z EXCEPT !.streams[r] = t]
    BY DEF UpdateOutput
  <2> HIDE DEF b
  <2>4. Same(t) /\ t.queued = s.queued + n /\ SameCredit(z.streams[r], t)
    BY <1>4, <2>1, <2>2 DEF Record, SameHeard, SameCredit, Earned, IsOver, SendComplete
  <2> HIDE DEF w, t
  <2>5. Changes(z, w, r) /\ w.streams[r] = t
    BY <1>4, <2>1, <2>3, <2>4, EditIsChange
  <2> QED BY <2>4, <2>5
<1> HIDE DEF w
<1> DEFINE t == result.streams[r]
<1>6. /\ Changes(x, result, r) /\ Same(t)
      /\ IF Refused(s) THEN t.queued = s.queued ELSE t.queued = s.queued + n
  <2>1. Changes(x, w, r)
    BY <1>3, <1>4, <1>5, ChangesCompose
  <2> QED BY <1>3, <1>5, <2>1
<1> HIDE DEF result
<1>7. /\ Local(s) /\ Stays(end[e].streams[r], s) /\ SameHeard(end[e].streams[r], s)
      /\ Speaks(s) => Speaks(end[e].streams[r])
  <2>1. Local(end[e].streams[r])
    BY DEF JInv, Agreed
  <2> QED BY <1>2, <2>1, SameStays DEF SameTalk
<1>8. Local(t)
  <2>1. s.queued \in Nat /\ s.sent \in Nat
    BY <1>2 DEF Record
  <2>2. CASE Refused(s)
    BY <1>6, <1>7, <2>2 DEF Local
  <2>3. CASE ~Refused(s)
    BY <1>1, <1>6, <1>7, <2>1, <2>3 DEF Local, Refused
  <2> QED BY <2>2, <2>3
<1>9. /\ Stays(end[e].streams[r], t) /\ SameHeard(end[e].streams[r], t)
      /\ Speaks(t) => Speaks(end[e].streams[r])
  BY <1>6, <1>7 DEF Stays, SameHeard, Speaks
<1>10. /\ \A k \in Ranks : k # r => SameTalk(end[e].streams[k], result.streams[k])
       /\ e = Acceptor => result.next = end[e].next
  BY <1>2, <1>6 DEF Changes
<1> QED BY <1>1, <1>8, <1>9, <1>10, SayStep

(* A reset keeps what was sent before it.                                  *)
LEMMA ResetStays ==
  ASSUME NEW s \in Record, NEW t, SaysReset(s, t), Local(s)
  PROVE  Local(t) /\ Stays(s, t)
BY DEF Record, SaysReset, Local, Stays

(* picoquic_reset_stream                                                   *)
LEMMA ResetTalks ==
  ASSUME ClientOpens, IInv, JInv, NEW e \in End, NEW r \in Ranks, Reset(e, r)
  PROVE  JInv'
<1> DEFINE y == ResetStream(end[e], r)
           s == end[e].streams[r]
<1>1. /\ plan' = plan /\ limit' = limit /\ error' = error /\ end' = [end EXCEPT ![e] = y]
      /\ s.stop_received \/ MaySend(e, r)
  BY DEF Reset, MayAbort, ClientOpens
<1>2. /\ Changes(end[e], y, r)
      /\ SaysReset(s, y.streams[r]) /\ SameHeard(s, y.streams[r])
  BY TypedStreams, ResetIsChange
<1> HIDE DEF y
<1>3. Local(y.streams[r]) /\ Stays(s, y.streams[r])
  BY <1>2, TypedStreams, ResetStays DEF JInv, Agreed
<1>4. e = Opener => Speaks(s) \/ StreamId(r) <= limit.remote
  BY <1>1 DEF Speaks, MaySend
<1>5. /\ \A k \in Ranks : k # r => SameTalk(end[e].streams[k], y.streams[k])
      /\ y.next = end[e].next
  BY <1>2, TalkStays DEF Changes
<1> QED BY <1>1, <1>2, <1>3, <1>4, <1>5, SayStep

(* picoquic_stop_sending                                                   *)
LEMMA StopSendingTalks ==
  ASSUME ClientOpens, IInv, JInv, NEW e \in End, NEW r \in Ranks, StopSending(e, r)
  PROVE  JInv'
<1> DEFINE x == end[e]
           s == x.streams[r]
           t == [s EXCEPT !.stop_requested = TRUE, !.stop_sent = ~s.fin_received]
           y == [x EXCEPT !.streams[r] = t]
<1>1. x \in Book /\ s \in Record /\ Local(s)
  BY TypedStreams DEF JInv, Agreed
<1>2. /\ plan' = plan /\ limit' = limit /\ error' = error /\ MaySend(e, r)
      /\ end' = [end EXCEPT ![e].streams[r].stop_requested = TRUE,
                            ![e].streams[r].stop_sent = ~s.fin_received]
  BY DEF StopSending, MayAbort, ClientOpens
<1>3. end' = [end EXCEPT ![e] = y]
  BY <1>1, <1>2 DEF Book, IInv
<1>4. /\ t \in Record /\ t.acked = s.acked /\ t.got = s.got
      /\ SameHeard(s, t) /\ Stays(s, t) /\ Local(t) /\ SameCredit(s, t)
  <2>1. /\ t \in Record /\ t.acked = s.acked /\ t.got = s.got
        /\ SameHeard(s, t) /\ Stays(s, t) /\ Local(t)
    BY <1>1 DEF Record, SameHeard, Stays, Local
  <2>2. SameCredit(s, t)
    BY <1>1 DEF Record, SameCredit, Earned, IsOver, SendComplete
  <2> QED BY <2>1, <2>2
<1> HIDE DEF t
<1>5. Changes(x, y, r) /\ y.streams[r] = t
  BY <1>1, <1>4, EditIsChange
<1> HIDE DEF y
<1>6. /\ \A k \in Ranks : k # r => SameTalk(x.streams[k], y.streams[k])
      /\ y.next = x.next
  BY <1>5, TalkStays DEF Changes
<1> QED BY <1>2, <1>3, <1>4, <1>5, <1>6, SayStep DEF MaySend

(* picoquic_format_stream_frame                                            *)
LEMMA SendTalks ==
  ASSUME ClientOpens, IInv, JInv, NEW e \in End, NEW r \in Ranks, SendStream(e, r)
  PROVE  JInv'
<1> DEFINE x == end[e]
           s == x.streams[r]
           t == [s EXCEPT !.sent = s.sent + s.queued, !.queued = 0, !.fin_sent = s.fin_requested,
                          !.listed = FALSE]
           y == [x EXCEPT !.streams[r] = t]
           u == UpdateMaxStreamId(y, e, r)
           d == DeleteIfClosed(u, e, r)
           z == IF s.fin_requested THEN d ELSE y
<1>1. x \in Book /\ s \in Record /\ Local(s)
  BY TypedStreams DEF JInv, Agreed
<1>2. /\ plan' = plan /\ limit' = limit /\ error' = error /\ Live(x, r)
      /\ HasData(s) /\ MaySend(e, r)
  BY DEF SendStream
<1>3. end' = [end EXCEPT ![e] = z]
  <2> DEFINE a == [[x EXCEPT !.streams[r].sent = s.sent + s.queued, !.streams[r].queued = 0,
                             !.streams[r].fin_sent = s.fin_requested]
                      EXCEPT !.streams[r].listed = FALSE]
  <2>1. a = y
    BY <1>1, ZenonT(60) DEF Book
  <2>2. end' = [end EXCEPT ![e] =
                  IF s.fin_requested THEN DeleteIfClosed(UpdateMaxStreamId(a, e, r), e, r) ELSE a]
    BY Zenon DEF SendStream
  <2> HIDE DEF a, y
  <2> QED BY <2>1, <2>2
<1>4. /\ t \in Record /\ t.acked = s.acked /\ t.got = s.got /\ t.state = s.state
      /\ t.sent = s.sent + s.queued /\ t.queued = 0 /\ t.fin_sent = s.fin_requested
      /\ t.fin_requested = s.fin_requested /\ t.reset_sent = s.reset_sent /\ SameHeard(s, t)
  <2>1. s.sent + s.queued \in Nat /\ s.fin_requested \in BOOLEAN
    BY <1>1 DEF Record
  <2>2. ASSUME NEW k \in Nat, NEW b \in BOOLEAN
        PROVE  LET v == [s EXCEPT !.sent = k, !.queued = 0, !.fin_sent = b, !.listed = FALSE]
               IN  /\ v \in Record /\ v.acked = s.acked /\ v.got = s.got /\ v.state = s.state
                   /\ v.sent = k /\ v.queued = 0 /\ v.fin_sent = b
                   /\ v.fin_requested = s.fin_requested /\ v.reset_sent = s.reset_sent
                   /\ SameHeard(s, v)
    BY <1>1 DEF Record, SameHeard
  <2>3. /\ t.sent = s.sent + s.queued /\ t.queued = 0 /\ t.fin_sent = s.fin_requested
        /\ t.fin_requested = s.fin_requested /\ t.reset_sent = s.reset_sent
    BY <1>1 DEF Record
  <2> QED BY <2>1, <2>2, <2>3, ZenonT(60)
<1>5. SameCredit(s, t)
  BY <1>1 DEF Record, SameCredit, Earned, IsOver, SendComplete
<1> HIDE DEF t
<1>6. Local(t) /\ Stays(s, t)
  <2>1. s.sent \in Nat /\ s.queued \in Nat
    BY <1>1 DEF Record
  <2>2. ~s.reset_sent /\ ~s.fin_sent
    BY <1>1, <1>2, <2>1 DEF HasData, Local
  <2> QED BY <1>1, <1>4, <2>1, <2>2 DEF Local, Stays
<1>7. Changes(x, y, r) /\ y.streams[r] = t
  BY <1>1, <1>4, <1>5, EditIsChange
<1> HIDE DEF y
<1>8. Changes(y, u, r) /\ u.streams[r].state = s.state /\ SameTalk(t, u.streams[r])
  BY <1>4, <1>7, UpdateMaxIsChange DEF Changes, IInv
<1>9. Changes(x, u, r) /\ Safe(u.streams[r]) /\ u \in Book
  BY <1>2, <1>7, <1>8, ChangesCompose DEF Changes, Live, Safe
<1> HIDE DEF u
<1>10. Changes(u, d, r) /\ SameTalk(u.streams[r], d.streams[r])
  BY <1>9, DeleteIsChange DEF IInv
<1> HIDE DEF d
<1>11. Changes(x, z, r) /\ SameTalk(t, z.streams[r])
  <2>1. Changes(x, d, r) /\ SameTalk(t, d.streams[r])
    BY <1>8, <1>9, <1>10, ChangesCompose, TalkComposes
  <2> QED BY <1>7, <2>1, TalkStays
<1> HIDE DEF z
<1>12. /\ Local(z.streams[r]) /\ Stays(s, z.streams[r]) /\ SameHeard(s, z.streams[r])
  BY <1>4, <1>6, <1>11, SameStays DEF SameTalk, SameHeard, SameSent, Stays
<1>13. /\ \A k \in Ranks : k # r => SameTalk(x.streams[k], z.streams[k])
       /\ z.next = x.next
  BY <1>11, TalkStays DEF Changes
<1> QED BY <1>2, <1>3, <1>12, <1>13, SayStep DEF MaySend
------------------------------------------------------------------------------
(* Incoming frames: y is what the handler makes of the end e.              *)

LEMMA NotedTalks ==
  ASSUME IInv, NEW e \in End, NEW r \in Ranks, NEW kind \in Kinds, NEW y \in Book,
         Becomes(e, r, kind, y)
  PROVE  LET z == [y EXCEPT !.streams[r].got = @ \cup {kind}]
         IN  /\ end' = [end EXCEPT ![e] = z] /\ z.next = y.next
             /\ \A k \in Ranks : SameTalk(y.streams[k], z.streams[k])
<1> DEFINE t == [y.streams[r] EXCEPT !.got = @ \cup {kind}]
           z == [y EXCEPT !.streams[r].got = @ \cup {kind}]
<1>1. y.streams[r] \in Record
  BY DEF Book
<1>2. t \in Record /\ SameTalk(y.streams[r], t)
  BY <1>1 DEF Record, SameTalk, SameSent, SameHeard
<1>3. z = [y EXCEPT !.streams[r] = t]
  OBVIOUS
<1>4. end' = [end EXCEPT ![e] = z]
  BY DEF Becomes
<1> HIDE DEF t, z
<1>5. z.next = y.next /\ z.streams[r] = t /\ \A k \in Ranks : k # r => z.streams[k] = y.streams[k]
  BY <1>2, <1>3 DEF Book
<1>6. \A k \in Ranks : SameTalk(y.streams[k], z.streams[k])
  BY <1>2, <1>5, TalkStays
<1> QED BY <1>4, <1>5, <1>6 DEF z

(* A stream that is gone takes nothing.                                    *)
LEMMA GoneStep ==
  ASSUME ClientOpens, IInv, JInv, NEW e \in End, NEW r \in Ranks, NEW kind \in Kinds,
         plan' = plan, limit' = limit, error' = error, Becomes(e, r, kind, end[e])
  PROVE  JInv'
<1> DEFINE z == [end[e] EXCEPT !.streams[r].got = @ \cup {kind}]
<1>1. /\ end' = [end EXCEPT ![e] = z] /\ z.next = end[e].next
      /\ \A k \in Ranks : SameTalk(end[e].streams[k], z.streams[k])
  BY NotedTalks, TypedStreams
<1> HIDE DEF z
<1> QED BY <1>1, SilentStep

(* A frame that is heard within the limit.                                 *)
LEMMA HeardStep ==
  ASSUME ClientOpens, IInv, JInv, NEW e \in End, NEW r \in Ranks, NEW y,
         plan' = plan, limit' = limit, error' = error, end' = [end EXCEPT ![e] = y],
         StreamId(r) <= limit.remote,
         y.next = end[e].next \/ y.next = r + 1,
         \A k \in Ranks : k # r => SameTalk(end[e].streams[k], y.streams[k]),
         Local(y.streams[r]), Stays(end[e].streams[r], y.streams[r]),
         Believes(y.streams[r], end[Peer(e)].streams[r])
  PROVE  JInv'
BY TalkStep

(* picoquic_stream_network_input                                           *)
LEMMA ReceiveStreamTalks ==
  ASSUME ClientOpens, IInv, JInv, NEW e \in End, NEW r \in Ranks, NEW kind \in {"data", "fin"},
         ReceiveStream(e, r, kind)
  PROVE  JInv'
<1> DEFINE p == end[Peer(e)].streams[r]
           s == end[e].streams[r]
           y == Input(end[e], e, r, kind, p.sent)
           z == [y EXCEPT !.streams[r].got = @ \cup {kind}]
<1>1. p \in Record /\ Local(p) /\ s \in Record /\ Local(s) /\ Believes(s, p)
  BY TypedStreams, Ends DEF JInv, Agreed
<1>2. /\ kind \in SentKinds(p)
      /\ kind = "data" => p.sent > 0
      /\ kind = "fin" => p.fin_sent
  BY <1>1 DEF ReceiveStream, SentKinds
<1>3. StreamId(r) <= limit.remote /\ ~TooHigh(e, r)
  BY <1>1, <1>2, PeerWithin DEF Speaks
<1>4. /\ plan' = plan /\ limit' = limit /\ error' = error
      /\ Becomes(e, r, kind, IF Gone(e, r) THEN end[e] ELSE y)
  BY <1>3 DEF ReceiveStream
<1>5. CASE Gone(e, r)
  BY <1>4, <1>5, GoneStep DEF Kinds
<1>6. CASE ~Gone(e, r)
  <2>1. p.sent \in Nat
    BY <1>1 DEF Record
  <2>2. /\ Sound(y)
        /\ y.next = end[e].next \/ y.next = r + 1
        /\ \A k \in Ranks : k # r => SameTalk(end[e].streams[k], y.streams[k])
        /\ HearsStream(s, y.streams[r], kind, p.sent)
    <3>1. Sound(end[e]) /\ plan.last \in Nat
          /\ (r < end[e].next => end[e].streams[r].state \in {"open", "closed"})
      BY <1>6, StaysSound
    <3>2. ASSUME NEW n \in Nat
          PROVE  LET w == Input(end[e], e, r, kind, n)
                 IN  /\ Sound(w)
                     /\ w.next = end[e].next \/ w.next = r + 1
                     /\ \A k \in Ranks : k # r => SameTalk(end[e].streams[k], w.streams[k])
                     /\ HearsStream(s, w.streams[r], kind, n)
      BY <3>1, InputIsSound
    <3> HIDE DEF p
    <3> QED BY <2>1, <3>2
  <2> HIDE DEF y
  <2>3. /\ end' = [end EXCEPT ![e] = z] /\ z.next = y.next
        /\ \A k \in Ranks : SameTalk(y.streams[k], z.streams[k])
    <3>1. Becomes(e, r, kind, y) /\ kind \in Kinds /\ y \in Book
      BY <1>4, <1>6, <2>2 DEF Sound, Kinds
    <3> QED BY <3>1, NotedTalks
  <2> HIDE DEF z
  <2>4. Local(y.streams[r]) /\ Stays(s, y.streams[r])
    BY <1>1, <2>2 DEF HearsStream, SameSent, Local, Stays
  <2>5. Believes(y.streams[r], p)
    <3>1. kind = "data" => p.sent = 1
      BY <1>1, <1>2 DEF Local, Record
    <3> QED BY <1>1, <1>2, <2>2, <3>1 DEF HearsStream, Believes
  <2>6. Local(z.streams[r]) /\ Stays(s, z.streams[r]) /\ Believes(z.streams[r], p)
    <3>1. SameTalk(y.streams[r], z.streams[r])
      BY <2>3
    <3> QED BY <2>4, <2>5, <3>1, SameStays DEF SameTalk, SameSent, Stays
  <2>7. \A k \in Ranks : k # r => SameTalk(end[e].streams[k], z.streams[k])
    BY <2>2, <2>3, TalkComposes
  <2> QED BY <1>3, <1>4, <2>2, <2>3, <2>6, <2>7, HeardStep
<1> QED BY <1>5, <1>6

(* picoquic_apply_reset_stream_frame                                       *)
LEMMA ReceiveResetTalks ==
  ASSUME ClientOpens, IInv, JInv, NEW e \in End, NEW r \in Ranks, NEW answer \in BOOLEAN,
         ReceiveReset(e, r, answer)
  PROVE  JInv'
<1> DEFINE p == end[Peer(e)].streams[r]
           s == end[e].streams[r]
           y == InputReset(end[e], e, r, p.sent, answer)
           z == [y EXCEPT !.streams[r].got = @ \cup {"reset"}]
<1>1. p \in Record /\ s \in Record /\ Local(s) /\ Believes(s, p)
  BY TypedStreams, Ends DEF JInv, Agreed
<1>2. p.reset_sent
  BY DEF ReceiveReset
<1>3. StreamId(r) <= limit.remote /\ ~TooHigh(e, r)
  BY <1>2, PeerWithin DEF Speaks
<1>4. ~((s.fin_received \/ s.reset_received) /\ s.fin_offset # p.sent)
  BY <1>1 DEF Believes
<1>5. /\ plan' = plan /\ limit' = limit /\ error' = error
      /\ Becomes(e, r, "reset", IF Gone(e, r) THEN end[e] ELSE y)
  BY <1>3, <1>4 DEF ReceiveReset
<1>6. CASE Gone(e, r)
  BY <1>5, <1>6, GoneStep DEF Kinds
<1>7. CASE ~Gone(e, r)
  <2>1. p.sent \in Nat
    BY <1>1 DEF Record
  <2>2. /\ Sound(y)
        /\ y.next = end[e].next \/ y.next = r + 1
        /\ \A k \in Ranks : k # r => SameTalk(end[e].streams[k], y.streams[k])
        /\ HearsReset(s, y.streams[r], p.sent)
    <3>1. Sound(end[e]) /\ plan.last \in Nat
          /\ (r < end[e].next => end[e].streams[r].state \in {"open", "closed"})
      BY <1>7, StaysSound
    <3>2. ASSUME NEW n \in Nat
          PROVE  LET w == InputReset(end[e], e, r, n, answer)
                 IN  /\ Sound(w)
                     /\ w.next = end[e].next \/ w.next = r + 1
                     /\ \A k \in Ranks : k # r => SameTalk(end[e].streams[k], w.streams[k])
                     /\ HearsReset(s, w.streams[r], n)
      BY <3>1, InputResetIsSound
    <3> HIDE DEF p
    <3> QED BY <2>1, <3>2
  <2> HIDE DEF y
  <2>3. /\ end' = [end EXCEPT ![e] = z] /\ z.next = y.next
        /\ \A k \in Ranks : SameTalk(y.streams[k], z.streams[k])
    <3>1. Becomes(e, r, "reset", y) /\ "reset" \in Kinds /\ y \in Book
      BY <1>5, <1>7, <2>2 DEF Sound, Kinds
    <3> QED BY <3>1, NotedTalks
  <2> HIDE DEF z
  <2> DEFINE t == z.streams[r]
  <2>4. HearsReset(s, t, p.sent)
    BY <2>2, <2>3, ResetThenSame
  <2>5. \A k \in Ranks : k # r => SameTalk(end[e].streams[k], z.streams[k])
    BY <2>2, <2>3, TalkComposes
  <2> HIDE DEF t
  <2>6. Local(t) /\ Stays(s, t) /\ Believes(t, p)
    <3>1. CASE SameTalk(s, t)
      BY <1>1, <3>1, SameStays
    <3>2. CASE (SameSent(s, t) \/ SaysReset(s, t)) /\ HeardReset(s, t, p.sent)
      <4>1. Believes(t, p)
        BY <1>1, <1>2, <3>2 DEF HeardReset, Believes
      <4>2. CASE SameSent(s, t)
        BY <1>1, <4>1, <4>2 DEF SameSent, Local, Stays
      <4>3. CASE SaysReset(s, t)
        BY <1>1, <4>1, <4>3, ResetStays
      <4> QED BY <3>2, <4>2, <4>3
    <3> QED BY <2>4, <3>1, <3>2 DEF HearsReset
  <2>7. z.next = end[e].next \/ z.next = r + 1
    BY <2>2, <2>3
  <2> QED BY <1>3, <1>5, <2>3, <2>5, <2>6, <2>7, HeardStep DEF t
<1> QED BY <1>6, <1>7

(* picoquic_decode_stop_sending_frame                                      *)
LEMMA ReceiveStopTalks ==
  ASSUME ClientOpens, IInv, JInv, NEW e \in End, NEW r \in Ranks, NEW answer \in BOOLEAN,
         ReceiveStop(e, r, answer)
  PROVE  JInv'
<1> DEFINE x == CreateMissing(end[e], e, r)
           s == end[e].streams[r]
           t == [x.streams[r] EXCEPT !.stop_received = TRUE]
           y == [x EXCEPT !.streams[r].stop_received = TRUE]
           z == IF answer THEN ResetStream(y, r) ELSE y
<1>1. StreamId(r) <= limit.remote /\ ~TooHigh(e, r)
  BY PeerWithin DEF ReceiveStop, Speaks
<1>2. /\ plan' = plan /\ limit' = limit /\ error' = error /\ end' = [end EXCEPT ![e] = z]
  BY <1>1 DEF ReceiveStop
<1>3. /\ x \in Book /\ x.streams[r] \in Record
      /\ x.next = end[e].next \/ x.next = r + 1
      /\ \A k \in Ranks : SameTalk(end[e].streams[k], x.streams[k])
  <2>1. /\ Sound(x)
        /\ x.next = end[e].next \/ x.next = r + 1
        /\ \A k \in Ranks : SameTalk(end[e].streams[k], x.streams[k])
    BY TypedStreams, CreateIsSound
  <2> HIDE DEF x
  <2> QED BY <2>1 DEF Sound, Book
<1> HIDE DEF x
<1>4. /\ Local(s) /\ Believes(s, end[Peer(e)].streams[r])
  BY Ends DEF JInv, Agreed
<1>5. /\ t \in Record /\ t.acked = x.streams[r].acked /\ t.got = x.streams[r].got
      /\ Local(t) /\ Stays(s, t) /\ Believes(t, end[Peer(e)].streams[r])
      /\ SameCredit(x.streams[r], t)
  <2>1. SameTalk(s, x.streams[r])
    BY <1>3
  <2>2. /\ Local(x.streams[r]) /\ Stays(s, x.streams[r])
        /\ Believes(x.streams[r], end[Peer(e)].streams[r])
    BY <1>4, <2>1, SameStays
  <2>3. /\ t \in Record /\ t.acked = x.streams[r].acked /\ t.got = x.streams[r].got
        /\ SameSent(x.streams[r], t) /\ t.fin_received = x.streams[r].fin_received
        /\ t.fin_offset = x.streams[r].fin_offset
        /\ t.reset_received = x.streams[r].reset_received
        /\ SameCredit(x.streams[r], t)
    BY <1>3 DEF Record, SameSent, SameCredit, Earned, IsOver, SendComplete
  <2> HIDE DEF t
  <2> QED BY <2>2, <2>3 DEF SameSent, Local, Stays, Believes
<1>6. y = [x EXCEPT !.streams[r] = t]
  OBVIOUS
<1> HIDE DEF t, y
<1>7. Changes(x, y, r) /\ y.streams[r] = t /\ y \in Book
  BY <1>3, <1>5, <1>6, EditIsChange DEF Changes
<1>8. /\ Changes(x, z, r) /\ Local(z.streams[r]) /\ Stays(s, z.streams[r])
      /\ Believes(z.streams[r], end[Peer(e)].streams[r])
  <2> DEFINE a == ResetStream(y, r)
  <2>1. Changes(y, a, r) /\ SaysReset(t, a.streams[r]) /\ SameHeard(t, a.streams[r])
    BY <1>7, ResetIsChange
  <2> HIDE DEF a
  <2>2. Changes(x, a, r)
    BY <1>7, <2>1, ChangesCompose
  <2>3. Local(a.streams[r]) /\ Stays(t, a.streams[r])
    BY <1>5, <2>1, ResetStays
  <2>4. Stays(s, a.streams[r])
    BY <1>5, <2>1, <2>3 DEF Stays, SaysReset
  <2>5. Believes(a.streams[r], end[Peer(e)].streams[r])
    BY <1>5, <2>1 DEF Believes, SameHeard
  <2> QED BY <1>5, <1>7, <2>2, <2>3, <2>4, <2>5 DEF a
<1> HIDE DEF z
<1>9. /\ \A k \in Ranks : k # r => SameTalk(end[e].streams[k], z.streams[k])
      /\ z.next = end[e].next \/ z.next = r + 1
  BY <1>3, <1>8 DEF Changes
<1> QED BY <1>1, <1>2, <1>8, <1>9, HeardStep

(* picoquic_process_ack_of_stream_frame                                    *)
LEMMA ReceiveAckTalks ==
  ASSUME ClientOpens, IInv, JInv, NEW e \in End, NEW r \in Ranks, NEW kind \in Kinds,
         ReceiveAck(e, r, kind)
  PROVE  JInv'
<1> DEFINE x == end[e]
           s == x.streams[r]
           t == [s EXCEPT !.acked = @ \cup {kind}]
           y == [x EXCEPT !.streams[r] = t]
           z == DeleteIfClosed(y, e, r)
<1>1. x \in Book /\ s \in Record
  BY TypedStreams
<1>2. /\ plan' = plan /\ limit' = limit /\ error' = error /\ Live(x, r)
      /\ end' = [end EXCEPT ![e] = z]
  BY DEF ReceiveAck
<1>3. t \in Record /\ t.state = s.state /\ SameTalk(s, t)
  BY <1>1 DEF Record, SameTalk, SameSent, SameHeard
<1> HIDE DEF t
<1>4. /\ y \in Book /\ y.next = x.next /\ y.streams[r] = t
      /\ \A k \in Ranks : k # r => y.streams[k] = x.streams[k]
  BY <1>1, <1>3 DEF Book
<1> HIDE DEF y
<1>5. Safe(y.streams[r])
  BY <1>2, <1>3, <1>4 DEF Live, Safe
<1>6. Changes(y, z, r) /\ SameTalk(t, z.streams[r])
  BY <1>4, <1>5, DeleteIsChange DEF IInv
<1> HIDE DEF z
<1>7. z.next = x.next /\ \A k \in Ranks : k # r => z.streams[k] = x.streams[k]
  BY <1>4, <1>6 DEF Changes
<1>8. \A k \in Ranks : SameTalk(x.streams[k], z.streams[k])
  BY <1>3, <1>6, <1>7, TalkComposes, TalkStays
<1> QED BY <1>2, <1>7, <1>8, SilentStep
------------------------------------------------------------------------------
(* The limit.                                                              *)

(* picoquic_format_max_streams_frame_if_needed                             *)
LEMMA FormatMaxStreamsTalks ==
  ASSUME ClientOpens, IInv, JInv, FormatMaxStreams
  PROVE  JInv'
<1> DEFINE id == limit.local + 4 * Initial
           rank == RankFromId(id)
<1>1. /\ plan' = plan /\ end' = end /\ error' = error
      /\ limit' = [limit EXCEPT !.local = @ + 4 * Initial, !.sent = @ \cup {rank}]
  BY DEF FormatMaxStreams
<1>2. id \in Int /\ id >= limit.local /\ Limits
  BY DEF ClientOpens, JInv, Limits
<1>3. /\ limit'.local = id /\ limit'.remote = limit.remote
      /\ limit'.sent = limit.sent \cup {rank}
      /\ limit' \in [local : Int, remote : Int, sent : SUBSET Int]
  <2>1. rank \in Int
    BY <1>2 DEF RankFromId
  <2>2. limit' = [limit EXCEPT !.local = id, !.sent = limit.sent \cup {rank}]
    BY <1>1, <1>2 DEF Limits
  <2> HIDE DEF id, rank
  <2> QED BY <1>2, <2>1, <2>2 DEF Limits
<1> HIDE DEF id
<1>4. rank \in Int /\ IdFromRank(rank, Opener) <= id
  BY <1>2 DEF RankFromId, IdFromRank, Bit, ClientOpens
<1> HIDE DEF rank
<1>5. Limits'
  <2>1. limit.remote <= id
    BY <1>2 DEF Limits
  <2>2. \A k \in limit.sent \cup {rank} : IdFromRank(k, Opener) <= id
    <3>1. \A k \in limit.sent : k \in Int /\ IdFromRank(k, Opener) <= limit.local
      BY <1>2 DEF Limits
    <3>2. \A k \in limit.sent : IdFromRank(k, Opener) \in Int
      BY <3>1 DEF IdFromRank, Bit
    <3>3. limit.local \in Int
      BY <1>2 DEF Limits
    <3> QED BY <1>2, <1>4, <3>1, <3>2, <3>3
  <2> QED BY <1>3, <2>1, <2>2 DEF Limits
<1>6. Within' /\ Agreed' /\ NoPeerError'
  BY <1>1, <1>3 DEF JInv, Within, Agreed, NoPeerError, Ranks
<1> QED BY <1>5, <1>6 DEF JInv

(* picoquic_decode_max_streams_frame                                       *)
LEMMA ReceiveMaxStreamsTalks ==
  ASSUME ClientOpens, IInv, JInv, NEW rank \in limit.sent, ReceiveMaxStreams(rank)
  PROVE  JInv'
<1> DEFINE x == end[Opener]
           id == IdFromRank(rank, Opener)
           released == {r \in Ranks : StreamId(r) > limit.remote /\ StreamId(r) <= id}
           f(r) == IF r \in released /\ Live(x, r) THEN [x.streams[r] EXCEPT !.listed = TRUE]
                   ELSE x.streams[r]
           g == [r \in Ranks |-> f(r)]
           y == [x EXCEPT !.streams = g]
<1>1. /\ plan' = plan /\ error' = error /\ id > limit.remote
      /\ limit' = [limit EXCEPT !.remote = id]
      /\ end' = [end EXCEPT ![Opener].streams = g]
  BY DEF ReceiveMaxStreams
<1>2. Limits /\ id \in Int /\ id <= limit.local
  BY DEF JInv, Limits, IdFromRank, Bit
<1>3. /\ limit'.local = limit.local /\ limit'.remote = id /\ limit'.sent = limit.sent
      /\ limit' \in [local : Int, remote : Int, sent : SUBSET Int]
  BY <1>1, <1>2 DEF Limits
<1>4. Limits'
  BY <1>2, <1>3 DEF Limits
<1>5. x \in Book /\ end \in [End -> Book] /\ Opener \in End
  BY Sides DEF IInv
<1>6. \A r \in Ranks : SameTalk(x.streams[r], f(r))
  <2> SUFFICES ASSUME NEW r \in Ranks PROVE SameTalk(x.streams[r], f(r))
    OBVIOUS
  <2> DEFINE t == [x.streams[r] EXCEPT !.listed = TRUE]
  <2>1. x.streams[r] \in Record
    BY <1>5 DEF Book
  <2>2. SameTalk(x.streams[r], t)
    BY <2>1 DEF Record, SameTalk, SameSent, SameHeard
  <2>3. f(r) = t \/ f(r) = x.streams[r]
    OBVIOUS
  <2> HIDE DEF t, f
  <2> QED BY <2>2, <2>3, TalkStays
<1> HIDE DEF f, id
<1>7. \A r \in Ranks : g[r] = f(r)
  OBVIOUS
<1> HIDE DEF g
<1>8. y.streams = g /\ y.next = x.next
  BY <1>5 DEF Book
<1>9. \A d \in End : end'[d] = IF d = Opener THEN y ELSE end[d]
  BY <1>1, <1>5
<1> HIDE DEF y
<1>10. \A d \in End, r \in Ranks : SameTalk(end[d].streams[r], end'[d].streams[r])
  BY <1>6, <1>7, <1>8, <1>9, TalkStays
<1>11. Ranks' = Ranks
  BY <1>1 DEF Ranks
<1>12. Agreed'
  <2> SUFFICES ASSUME NEW d \in End, NEW r \in Ranks
               PROVE  /\ Local(end'[d].streams[r])
                      /\ Believes(end'[d].streams[r], end'[Peer(d)].streams[r])
    BY <1>11 DEF Agreed
  <2>1. Local(end[d].streams[r]) /\ Believes(end[d].streams[r], end[Peer(d)].streams[r])
    BY DEF JInv, Agreed
  <2>2. /\ SameTalk(end[d].streams[r], end'[d].streams[r])
        /\ SameTalk(end[Peer(d)].streams[r], end'[Peer(d)].streams[r])
    BY <1>10, Ends
  <2>3. Local(end'[d].streams[r]) /\ Believes(end'[d].streams[r], end[Peer(d)].streams[r])
    BY <2>1, <2>2, SameStays
  <2>4. Stays(end[Peer(d)].streams[r], end'[Peer(d)].streams[r])
    BY <2>2, SameStays
  <2> QED BY <2>3, <2>4, StaysBelieved
<1>13. Within'
  <2> SUFFICES ASSUME NEW r \in Ranks,
                      r < end'[Acceptor].next \/ Speaks(end'[Opener].streams[r])
               PROVE  StreamId(r) <= id
    BY <1>3, <1>11 DEF Within
  <2>1. end'[Acceptor].next = end[Acceptor].next
    BY <1>9, Sides
  <2>2. Speaks(end'[Opener].streams[r]) => Speaks(end[Opener].streams[r])
    BY <1>5, <1>10, SameStays
  <2>3. StreamId(r) <= limit.remote
    BY <2>1, <2>2 DEF JInv, Within
  <2>4. StreamId(r) \in Int /\ limit.remote \in Int
    BY <1>2 DEF StreamId, IdFromRank, Bit, Ranks, IInv, Limits
  <2> QED BY <1>1, <1>2, <2>3, <2>4
<1> QED BY <1>1, <1>4, <1>12, <1>13 DEF JInv, NoPeerError
------------------------------------------------------------------------------
LEMMA NextAgrees == ClientOpens /\ IInv /\ JInv /\ [Next]_vars => JInv'
<1> SUFFICES ASSUME ClientOpens, IInv, JInv, [Next]_vars PROVE JInv'
  OBVIOUS
<1>1. CASE UNCHANGED vars
  BY <1>1, NothingSaid DEF vars
<1>2. ASSUME NEW e \in End, NEW r \in Ranks, NEW n \in 0..1, NEW fin \in BOOLEAN,
             AddToStream(e, r, n, fin)
      PROVE  JInv'
  BY <1>2, AddToStreamTalks
<1>3. ASSUME NEW e \in End, NEW r \in Ranks, Reset(e, r) PROVE JInv'
  BY <1>3, ResetTalks
<1>4. ASSUME NEW e \in End, NEW r \in Ranks, StopSending(e, r) PROVE JInv'
  BY <1>4, StopSendingTalks
<1>5. ASSUME NEW e \in End, NEW r \in Ranks, SendStream(e, r) PROVE JInv'
  BY <1>5, SendTalks
<1>6. ASSUME NEW e \in End, NEW r \in Ranks, Receive(e, r) PROVE JInv'
  BY <1>6, ReceiveStreamTalks, ReceiveResetTalks, ReceiveStopTalks DEF Receive
<1>7. ASSUME NEW e \in End, NEW r \in Ranks, NEW kind \in Kinds, ReceiveAck(e, r, kind)
      PROVE  JInv'
  BY <1>7, ReceiveAckTalks
<1>8. CASE FormatMaxStreams
  BY <1>8, FormatMaxStreamsTalks
<1>9. ASSUME NEW rank \in limit.sent, ReceiveMaxStreams(rank) PROVE JInv'
  BY <1>9, ReceiveMaxStreamsTalks
<1> QED BY <1>1, <1>2, <1>3, <1>4, <1>5, <1>6, <1>7, <1>8, <1>9 DEF Next

(* No end raises an error against a peer that runs the same code, when the *)
(* client opens the streams: it opens within the limit it was sent, and    *)
(* the final offset of a reset is the one that was seen before             *)
(* (picoquic_create_missing_streams, picoquic_apply_reset_stream_frame).   *)
THEOREM PeersAgree == ASSUME ClientOpens PROVE Spec => []NoPeerError
<1>1. Init => IInv /\ JInv
  BY InitInv, InvOfInit
<1>2. (IInv /\ JInv) /\ [Next]_vars => (IInv /\ JInv)'
  BY NextInv, NextAgrees
<1>3. IInv /\ JInv => NoPeerError
  BY DEF JInv
<1> QED BY <1>1, <1>2, <1>3, PTL DEF Spec
------------------------------------------------------------------------------
(* What the acceptor permits, whichever end opens the streams.             *)

(* The streams that were opened are below the limit that was announced,    *)
(* and the limit is ahead of what was returned by less than 6 * Initial.   *)
Opened == end[Acceptor].next \in 1..(plan.last + 1)
Permitted == \A k \in Ranks : k < end[Acceptor].next => StreamId(k) <= limit.local
Spent == limit.local < end[Acceptor].computed + 6 * Initial

LInv ==
  /\ limit \in [local : Int, remote : Int, sent : SUBSET Int]
  /\ Opened /\ Permitted /\ Spent

(* The hypothesis: some stream is permitted at first.  (With none, the     *)
(* limit of the code is the largest identifier, which is not modelled.)    *)
SomePermitted == Initial \in Nat \ {0}

LEMMA InitPermits == SomePermitted /\ Init => LInv
<1> SUFFICES ASSUME SomePermitted, Init PROVE LInv
  OBVIOUS
<1>1. IInv /\ \A e \in End : Bit(e) \in 0..1
  BY InitInv DEF Bit
<1>2. Initial \in Int /\ Initial >= 1
  BY DEF SomePermitted
<1>3. /\ limit = [local |-> 4 * (Initial - 1) + Bit(Acceptor), sent |-> {Initial},
                  remote |-> 4 * (Initial - 1) + Bit(Opener)]
      /\ Bit(Acceptor) \in Int /\ Bit(Opener) \in Int
  BY <1>1, OneAcceptor, PlansAssumption DEF Init, IdFromRank
<1>4. end[Acceptor].next = 1 /\ end[Acceptor].computed = Bit(Acceptor)
  BY OneAcceptor DEF Init
<1>5. Opened
  BY <1>1, <1>4 DEF IInv, Opened
<1>6. Permitted
  BY <1>1, <1>4 DEF IInv, Ranks, Permitted
<1>7. Spent
  <2>1. limit.local = 4 * (Initial - 1) + Bit(Acceptor)
    BY <1>3
  <2> HIDE DEF Bit
  <2> QED BY <1>2, <1>3, <1>4, <2>1 DEF Spent
<1>8. limit \in [local : Int, remote : Int, sent : SUBSET Int]
  <2> HIDE DEF Bit
  <2> QED BY <1>2, <1>3
<1> QED BY <1>5, <1>6, <1>7, <1>8 DEF LInv

(* How a step moves the limits.                                            *)
LimitStays == plan' = plan /\ limit' = limit

LEMMA StreamStepsStay ==
  ASSUME NEW e \in End, NEW r \in Ranks,
         \/ \E n \in 0..1, fin \in BOOLEAN : AddToStream(e, r, n, fin)
         \/ Reset(e, r) \/ StopSending(e, r) \/ SendStream(e, r)
         \/ Receive(e, r)
         \/ \E kind \in Kinds : ReceiveAck(e, r, kind)
  PROVE  LimitStays
<1>1. ASSUME NEW n, NEW fin, AddToStream(e, r, n, fin) PROVE LimitStays
  BY <1>1 DEF AddToStream, LimitStays
<1>2. CASE Reset(e, r)
  BY <1>2 DEF Reset, LimitStays
<1>3. CASE StopSending(e, r)
  BY <1>3 DEF StopSending, LimitStays
<1>4. CASE SendStream(e, r)
  BY <1>4 DEF SendStream, LimitStays
<1>5. ASSUME NEW kind, ReceiveStream(e, r, kind) PROVE LimitStays
  BY <1>5 DEF ReceiveStream, Fail, LimitStays
<1>6. ASSUME NEW answer, ReceiveReset(e, r, answer) PROVE LimitStays
  BY <1>6 DEF ReceiveReset, Fail, LimitStays
<1>7. ASSUME NEW answer, ReceiveStop(e, r, answer) PROVE LimitStays
  BY <1>7 DEF ReceiveStop, Fail, LimitStays
<1>8. ASSUME NEW kind, ReceiveAck(e, r, kind) PROVE LimitStays
  BY <1>8 DEF ReceiveAck, LimitStays
<1> QED BY <1>1, <1>2, <1>3, <1>4, <1>5, <1>6, <1>7, <1>8 DEF Receive

LEMMA LimitStep ==
  ASSUME SomePermitted, LInv, [Next]_vars
  PROVE  /\ plan' = plan
         /\ limit' \in [local : Int, remote : Int, sent : SUBSET Int]
         /\ \/ limit'.local = limit.local
            \/ MaxStreamsDue /\ limit'.local = limit.local + 4 * Initial
<1>1. CASE LimitStays
  BY <1>1 DEF LInv, LimitStays
<1>2. CASE UNCHANGED vars
  BY <1>1, <1>2 DEF vars, LimitStays
<1>3. CASE FormatMaxStreams
  <2>1. limit.local \in Int /\ Initial \in Int
    BY DEF LInv, SomePermitted
  <2>2. RankFromId(limit.local + 4 * Initial) \in Int
    BY <2>1 DEF RankFromId
  <2> DEFINE id == limit.local + 4 * Initial
             rank == RankFromId(id)
  <2>3. id \in Int /\ rank \in Int
    BY <2>1, <2>2
  <2>4. /\ MaxStreamsDue /\ plan' = plan
        /\ limit' = [limit EXCEPT !.local = id, !.sent = @ \cup {rank}]
    BY <1>3 DEF FormatMaxStreams, LInv
  <2> HIDE DEF id, rank
  <2>5. limit'.local = id /\ limit' \in [local : Int, remote : Int, sent : SUBSET Int]
    BY <2>3, <2>4 DEF LInv
  <2> QED BY <2>4, <2>5 DEF id
<1>4. ASSUME NEW rank \in limit.sent, ReceiveMaxStreams(rank)
      PROVE  plan' = plan /\ limit'.local = limit.local
             /\ limit' \in [local : Int, remote : Int, sent : SUBSET Int]
  <2>1. rank \in Int /\ Bit(Opener) \in Int
    BY DEF LInv, Bit
  <2>2. IdFromRank(rank, Opener) \in Int
    BY <2>1 DEF IdFromRank
  <2> QED BY <1>4, <2>2 DEF ReceiveMaxStreams, LInv
<1>5. Next => \/ LimitStays \/ FormatMaxStreams
              \/ \E rank \in limit.sent : ReceiveMaxStreams(rank)
  BY StreamStepsStay DEF Next
<1> QED BY <1>1, <1>2, <1>3, <1>4, <1>5

LEMMA NextPermits == SomePermitted /\ IInv /\ LInv /\ [Next]_vars => LInv'
<1> SUFFICES ASSUME SomePermitted, IInv, LInv, [Next]_vars PROVE LInv'
  OBVIOUS
<1> DEFINE a == end[Acceptor]
           b == end'[Acceptor]
<1>1. IInv' /\ Grows
  BY EachStep
<1>2. /\ plan' = plan /\ Ranks' = Ranks
      /\ limit' \in [local : Int, remote : Int, sent : SUBSET Int]
      /\ \/ limit'.local = limit.local
         \/ MaxStreamsDue /\ limit'.local = limit.local + 4 * Initial
  BY LimitStep DEF Ranks
<1>3. /\ a.next \in Int /\ a.computed \in Int /\ b.next \in Int /\ b.computed \in Int
      /\ limit.local \in Int /\ Initial \in Int /\ Initial >= 1 /\ plan.last \in Nat
  BY <1>1, OneAcceptor DEF IInv, Book, LInv, SomePermitted
<1>4. \/ b.next = a.next
      \/ \E r \in Ranks : b.next = r + 1 /\ ~TooHigh(Acceptor, r)
  BY <1>1 DEF Grows
<1>5. \A k \in Ranks : k \in Int /\ StreamId(k) \in Int
  BY <1>3 DEF Ranks, StreamId, IdFromRank, Bit
<1>6. b.computed >= a.computed
  <2>1. Counted(a) \subseteq Counted(a)' /\ Counted(a)' = Counted(b)
    BY <1>1, <1>2, OneAcceptor DEF Grows, Counted
  <2>2. /\ Owed(a) = Bit(Acceptor) /\ Owed(b) = Bit(Acceptor)
    BY <1>1, <1>2, OneAcceptor DEF IInv, Owed, Counted
  <2>3. IsFiniteSet(Counted(b))
    <3>1. 1 \in Int /\ plan.last \in Int
      BY <1>3
    <3>2. IsFiniteSet(Ranks)
      BY <3>1, FS_Interval DEF Ranks
    <3>3. Counted(b) \in SUBSET Ranks
      BY DEF Counted
    <3> QED BY <3>2, <3>3, FS_Subset
  <2>4. Cardinality(Counted(a)) <= Cardinality(Counted(b))
    BY <2>1, <2>3, FS_Subset
  <2>5. Cardinality(Counted(a)) \in Int /\ Cardinality(Counted(b)) \in Int
    BY <2>1, <2>3, FS_Subset, FS_CardinalityType
  <2> HIDE DEF a, b
  <2> QED BY <1>3, <2>2, <2>4, <2>5 DEF Owed
<1> HIDE DEF a, b
<1>7. Opened'
  <2>1. b.next \in 1..(plan.last + 1)
    <3>1. CASE b.next = a.next
      BY <3>1 DEF LInv, Opened, a
    <3>2. ASSUME NEW r \in Ranks, b.next = r + 1 PROVE b.next \in 1..(plan.last + 1)
      BY <1>3, <3>2 DEF Ranks
    <3> QED BY <1>4, <3>1, <3>2
  <2> QED BY <1>2, <2>1, OneAcceptor DEF Opened, b
<1>8. Permitted'
  <2> SUFFICES ASSUME NEW k \in Ranks, k < b.next PROVE StreamId(k) <= limit'.local
    BY <1>2, OneAcceptor DEF Permitted, b, StreamId, IdFromRank
  <2>1. \A i \in Ranks : i < a.next => StreamId(i) <= limit.local
    BY DEF LInv, Permitted, a
  <2>2. StreamId(k) <= limit.local
    <3>1. CASE b.next = a.next
      BY <2>1, <3>1
    <3>2. ASSUME NEW r \in Ranks, b.next = r + 1, ~TooHigh(Acceptor, r)
          PROVE  StreamId(k) <= limit.local
      <4>1. k <= r /\ k \in Int /\ r \in Int
        BY <1>5, <3>2
      <4>2. StreamId(k) <= StreamId(r)
        BY <4>1, IdsGrow
      <4>3. CASE r < a.next
        BY <1>3, <2>1, <4>1, <4>3
      <4>4. CASE ~(r < a.next)
        <5>1. ~(StreamId(r) > limit.local)
          BY <1>3, <3>2, <4>1, <4>4 DEF TooHigh, a
        <5> QED BY <1>3, <1>5, <4>2, <5>1
      <4> QED BY <4>3, <4>4
    <3> QED BY <1>4, <3>1, <3>2
  <2> QED BY <1>2, <1>3, <1>5, <2>2
<1>9. Spent'
  <2>1. limit.local < a.computed + 6 * Initial
    BY DEF LInv, Spent, a
  <2>2. MaxStreamsDue => a.computed + 2 * Initial > limit.local
    BY DEF MaxStreamsDue, a
  <2>3. limit'.local < b.computed + 6 * Initial
    BY <1>2, <1>3, <1>6, <2>1, <2>2
  <2> QED BY <2>3, OneAcceptor DEF Spent, b
<1> QED BY <1>2, <1>7, <1>8, <1>9 DEF LInv

LEMMA PermitsBounds == SomePermitted /\ IInv /\ LInv => BoundedOpen
<1> SUFFICES ASSUME SomePermitted, IInv, LInv PROVE BoundedOpen
  OBVIOUS
<1> DEFINE a == end[Acceptor]
           m == a.next - 1
           open == {r \in 1..m : ~IsOver(a.streams[r])}
           returned == Counted(a)
           I == Initial
<1>1. /\ m \in Nat /\ m <= plan.last /\ plan.last \in Nat /\ 1..m \subseteq Ranks
      /\ I \in Int /\ I >= 1 /\ limit.local \in Int
  BY DEF LInv, Opened, IInv, Ranks, SomePermitted
<1>2. \A r \in Ranks : /\ a.streams[r].max_stream_updated => IsOver(a.streams[r])
                       /\ r >= a.next => ~a.streams[r].max_stream_updated
  BY OneAcceptor, FreshIsRecord DEF IInv, Sound, Earned
<1>3. returned \subseteq 1..m /\ open \subseteq (1..m) \ returned
  BY <1>1, <1>2 DEF Counted, LInv, Opened, Ranks
<1>4. IsFiniteSet(1..m) /\ Cardinality(1..m) = m
  <2>1. 1 \in Int /\ m \in Int
    BY <1>1
  <2> HIDE DEF m
  <2>2. IsFiniteSet(1..m) /\ Cardinality(1..m) = IF 1 > m THEN 0 ELSE m - 1 + 1
    BY <1>1, <2>1, FS_Interval
  <2> QED BY <1>1, <2>2
<1>5. a.computed = Bit(Acceptor) + 4 * Cardinality(returned)
      /\ Cardinality(returned) \in Nat
  <2>1. IsFiniteSet(returned)
    BY <1>3, <1>4, FS_Subset
  <2>2. Cardinality(returned) \in Nat
    BY <2>1, FS_CardinalityType
  <2>3. a.computed - 4 * Cardinality(returned) = Bit(Acceptor) /\ a.computed \in Int
    BY OneAcceptor DEF IInv, Owed, Book
  <2> HIDE DEF a, returned, Bit
  <2> QED BY <2>2, <2>3
<1>6. Cardinality(open) <= m - Cardinality(returned) /\ Cardinality(open) \in Nat
  <2> DEFINE S == 1..m
             T == returned
  <2>1. S \cap T = T
    BY <1>3
  <2>2. IsFiniteSet(S)
    BY <1>4
  <2> HIDE DEF S, T
  <2>3. IsFiniteSet(S \ T) /\ Cardinality(S \ T) = Cardinality(S) - Cardinality(T)
    BY <2>1, <2>2, FS_Difference
  <2>4. IsFiniteSet(S \ T) /\ Cardinality(S \ T) = m - Cardinality(T) /\ open \subseteq S \ T
    BY <1>3, <1>4, <2>3 DEF S, T
  <2> HIDE DEF open
  <2>5. Cardinality(open) <= m - Cardinality(T) /\ Cardinality(open) \in Nat
    BY <2>4, FS_Subset, FS_CardinalityType
  <2> QED BY <2>5 DEF T
<1>7. m >= 1 => 4 * (m - 1) + Bit(Opener) < Bit(Acceptor) + 4 * Cardinality(returned) + 6 * I
  <2> SUFFICES ASSUME m >= 1
               PROVE  4 * (m - 1) + Bit(Opener) < Bit(Acceptor) + 4 * Cardinality(returned) + 6 * I
    OBVIOUS
  <2>1. m \in Ranks /\ m < a.next
    BY <1>1 DEF LInv, Opened
  <2>2. StreamId(m) <= limit.local
    BY <2>1 DEF LInv, Permitted
  <2>3. limit.local < a.computed + 6 * I
    BY DEF LInv, Spent
  <2>4. Bit(Opener) \in Int /\ Bit(Acceptor) \in Int
    BY DEF Bit
  <2> HIDE DEF a, m, returned, Bit
  <2> QED BY <1>1, <1>5, <2>2, <2>3, <2>4 DEF StreamId, IdFromRank
<1>8. Bit(Opener) \in 0..1 /\ Bit(Acceptor) \in 0..1
  BY DEF Bit
<1> HIDE DEF a, m, open, returned, Bit
<1>9. Cardinality(open) <= 2 * I
  BY <1>1, <1>5, <1>6, <1>7, <1>8
<1> QED BY <1>9 DEF BoundedOpen, open, m, a

(* The acceptor never keeps more than twice the streams it first permitted *)
(* that are not over, whichever end opens them, however closings, resets,  *)
(* deletions and repeated frames interleave                                *)
(* (picoquic_update_max_stream_ID_local,                                   *)
(* picoquic_format_max_streams_frame_if_needed).                           *)
THEOREM OpenIsBounded == ASSUME SomePermitted PROVE Spec => []BoundedOpen
<1>1. Init => IInv /\ LInv
  BY InitInv, InitPermits
<1>2. (IInv /\ LInv) /\ [Next]_vars => (IInv /\ LInv)'
  BY NextInv, NextPermits
<1>3. IInv /\ LInv => BoundedOpen
  BY PermitsBounds
<1> QED BY <1>1, <1>2, <1>3, PTL DEF Spec
=============================================================================
