------------------------ MODULE OutputStreams_proofs ------------------------
(***************************************************************************)
(* Proofs about OutputStreams for bidirectional streams: every number of   *)
(* streams, every amount of data, every credit and limit the server may    *)
(* give and every priority.  For unidirectional streams ListIsReadySet     *)
(* does not hold: the walk that starts from no limit, the id 0, takes it   *)
(* for the id of the first stream and passes over that one, whose id is 2. *)
(***************************************************************************)
EXTENDS OutputStreams, WellFoundedInduction, TLAPS

(* The streams that may send under a limit.                                *)
Sendable(t, lim) == {s \in Streams : Allowed(lim, s) /\ HasData(t, lim, s)}

(* A stream that may be listed before another: the order that Before       *)
(* leaves once streams of one even priority have sent.                     *)
NotAfter(t, a, b) ==
  \/ t[a].priority < t[b].priority
  \/ t[a].priority = t[b].priority /\ (t[a].priority % 2 = 1 => a <= b)

Sorted(t, l) == \A i, j \in DOMAIN l : i < j => NotAfter(t, l[i], l[j])

(* A list of the streams of S, each once, in order.                        *)
Lines(t, l, S) == l \in Lists /\ IsInjective(l) /\ ToSet(l) = S /\ Sorted(t, l)

(* Only a stream that the peer asked to stop is left out of the list.      *)
Exact(t, lim, S) ==
  /\ S \subseteq Sendable(t, lim)
  /\ \A s \in Sendable(t, lim) : s \in S \/ t[s].stop_received

ListOK(t, lim, l) == Lines(t, l, ToSet(l)) /\ Exact(t, lim, ToSet(l))

(* A stream that does not exist yet has nothing to send.                   *)
Fresh(t, n) ==
  \A s \in Streams : s >= n => ~t[s].active /\ ~t[s].fin_requested /\ t[s].queue = 0

(* The limit is the id of a stream, or the largest one: that of a limit of *)
(* zero streams, which also stands before any limit is known.              *)
LimitOK(lim) == lim = IdSpan - 4 \/ \E s \in Streams : lim = 4 * s

(* The inductive invariant.  ListIsReadySet needs the credit of the        *)
(* streams to be zero before the parameters, when every id is allowed; the *)
(* walk of picoquic_add_output_streams needs the limit to be the id of a   *)
(* stream; and the first listed stream is the most urgent because the list *)
(* is sorted.                                                              *)
IInv ==
  /\ TypeOK
  /\ \A s \in Streams : Written(s) <= MaxBytes
  /\ ListOK(st, max_stream_id, out)
  /\ Fresh(st, created)
  /\ ~received => \A s \in Streams : st[s].maxdata_remote = 0
  /\ LimitOK(max_stream_id)
-----------------------------------------------------------------------------
(* The least of a set of numbers.                                          *)
LEMMA LeastIs ==
  ASSUME NEW S, S \subseteq Nat, S # {}
  PROVE  Min(S) \in S /\ \A i \in S : Min(S) <= i
<1>1. PICK n \in S : \A i \in S : ~(<<i, n>> \in OpToRel(<, Nat))
  BY NatLessThanWellFounded, WFMin, Zenon
<1>2. \A i \in S : ~(i < n)
  BY <1>1 DEF OpToRel
<1>3. n \in S /\ \A i \in S : n <= i
  BY <1>2
<1> QED BY <1>3, Zenon DEF Min

(* What a set of numbers holds up to m, when it holds 0 and the successor  *)
(* of what it holds.                                                       *)
LEMMA UpTo ==
  ASSUME NEW m \in Nat, NEW S, 0 \in S, \A n \in 1 .. m : n - 1 \in S => n \in S
  PROVE  \A n \in 0 .. m : n \in S
<1> DEFINE left == (0 .. m) \ S
<1>1. ASSUME left # {}
      PROVE  FALSE
  <2>1. left \subseteq Nat
    OBVIOUS
  <2> HIDE DEF left
  <2>2. Min(left) \in left /\ \A i \in left : Min(left) <= i
    BY <1>1, <2>1, LeastIs
  <2>3. PICK n \in left : \A i \in left : n <= i
    BY <2>2
  <2>4. n \in 1 .. m /\ n - 1 \in 0 .. m /\ n - 1 < n
    BY <2>3 DEF left
  <2>5. n - 1 \in S
    BY <2>3, <2>4 DEF left
  <2> QED BY <2>3, <2>4, <2>5 DEF left
<1> QED BY <1>1

(* The function that Walk computes with, on its first n values.            *)
Visits(f, visit, l, n) ==
  f = [i \in 0 .. n |-> IF i = 0 THEN l ELSE visit[i - 1][f[i - 1]]]

LEMMA VisitsExist ==
  ASSUME NEW visit, NEW l, NEW m \in Nat
  PROVE  \E f : Visits(f, visit, l, m)
<1> DEFINE S == {n \in 0 .. m : \E f : Visits(f, visit, l, n)}
<1>1. 0 \in S
  <2> DEFINE f == [n \in 0 .. 0 |-> l]
  <2>1. Visits(f, visit, l, 0)
    BY DEF Visits
  <2> QED BY <2>1
<1>2. ASSUME NEW n \in 1 .. m, n - 1 \in S
      PROVE  n \in S
  <2>1. PICK g : Visits(g, visit, l, n - 1)
    BY <1>2
  <2> DEFINE f == [i \in 0 .. n |-> IF i < n THEN g[i] ELSE visit[n - 1][g[n - 1]]]
  <2>2. \A i \in 0 .. n - 1 : f[i] = g[i] /\ g[i] = IF i = 0 THEN l
                                                    ELSE visit[i - 1][g[i - 1]]
    <3>1. \A i \in 0 .. n - 1 : g[i] = IF i = 0 THEN l ELSE visit[i - 1][g[i - 1]]
      BY <2>1, Zenon DEF Visits
    <3>2. \A i \in 0 .. n - 1 : i \in 0 .. n /\ i < n
      OBVIOUS
    <3>3. \A i \in 0 .. n - 1 : f[i] = g[i]
      BY <3>2, Zenon
    <3> QED BY <3>1, <3>3, Zenon
  <2>3. f[n] = visit[n - 1][g[n - 1]]
    OBVIOUS
  <2>4. f = [i \in 0 .. n |-> f[i]]
    OBVIOUS
  <2> HIDE DEF f
  <2>5. ASSUME NEW i \in 0 .. n
        PROVE  f[i] = IF i = 0 THEN l ELSE visit[i - 1][f[i - 1]]
    <3>1. CASE i = n
      <4>1. f[n - 1] = g[n - 1] /\ n # 0
        BY <2>2
      <4> QED BY <2>3, <3>1, <4>1
    <3>2. CASE i # n /\ i # 0
      <4>1. i \in 0 .. n - 1 /\ i - 1 \in 0 .. n - 1
        BY <3>2
      <4>2. f[i - 1] = g[i - 1] /\ f[i] = g[i]
        BY <2>2, <4>1
      <4> QED BY <2>2, <3>2, <4>1, <4>2
    <3>3. CASE i = 0
      <4>1. 0 \in 0 .. n - 1
        OBVIOUS
      <4> QED BY <2>2, <3>3, <4>1
    <3> QED BY <3>1, <3>2, <3>3
  <2>6. Visits(f, visit, l, n)
    BY <2>4, <2>5, Zenon DEF Visits
  <2> QED BY <2>6
<1>3. \A n \in 0 .. m : n \in S
  <2> HIDE DEF S
  <2> QED BY <1>1, <1>2, UpTo
<1> QED BY <1>3

(* A walk leads to Q[n] if each visit leads from one member of Q to the    *)
(* next.                                                                   *)
LEMMA WalkLeads ==
  ASSUME NEW visit, NEW l, NEW n \in Nat, NEW Q, l \in Q[0],
         \A i \in 1 .. n : \A k \in Q[i - 1] : visit[i - 1][k] \in Q[i]
  PROVE  Walk(visit, l, n) \in Q[n]
<1> DEFINE f == CHOOSE g : Visits(g, visit, l, n)
<1>1. Visits(f, visit, l, n)
  BY VisitsExist, Zenon
<1>2. Walk(visit, l, n) = f[n]
  BY Zenon DEF Walk, Visits
<1> HIDE DEF f
<1> DEFINE S == {i \in 0 .. n : f[i] \in Q[i]}
<1>3. 0 \in S
  BY <1>1 DEF Visits
<1>4. ASSUME NEW i \in 1 .. n, i - 1 \in S
      PROVE  i \in S
  <2>1. i \in 0 .. n /\ i # 0
    OBVIOUS
  <2>2. f[i] = IF i = 0 THEN l ELSE visit[i - 1][f[i - 1]]
    BY <1>1, <2>1, Zenon DEF Visits
  <2>3. f[i] = visit[i - 1][f[i - 1]]
    BY <2>1, <2>2
  <2> QED BY <1>4, <2>1, <2>3
<1>5. n \in S
  <2> HIDE DEF S
  <2>1. n \in 0 .. n
    OBVIOUS
  <2> QED BY <1>3, <1>4, <2>1, UpTo
<1> QED BY <1>2, <1>5
-----------------------------------------------------------------------------
(* NotAfter is a total order of the streams, and what Before decides       *)
(* agrees with it.                                                         *)
LEMMA OrderIs ==
  ASSUME NEW t \in [Streams -> Stream], NEW a \in Streams, NEW b \in Streams
  PROVE  /\ Before(t, a, b) => NotAfter(t, a, b)
         /\ ~Before(t, a, b) => NotAfter(t, b, a)
         /\ ~Before(t, a, a)
<1>1. t[a].priority \in Int /\ t[b].priority \in Int
  BY DEF Stream
<1>2. a \in Int /\ b \in Int
  BY DEF Streams
<1>3. t[a].priority % 2 \in {0, 1}
  BY <1>1
<1> QED BY <1>1, <1>2, <1>3 DEF Before, NotAfter

LEMMA OrderChains ==
  ASSUME NEW t \in [Streams -> Stream],
         NEW a \in Streams, NEW b \in Streams, NEW c \in Streams,
         NotAfter(t, a, b), NotAfter(t, b, c)
  PROVE  NotAfter(t, a, c)
<1>1. t[a].priority \in Int /\ t[b].priority \in Int /\ t[c].priority \in Int
  BY DEF Stream
<1>2. a \in Int /\ b \in Int /\ c \in Int
  BY DEF Streams
<1> QED BY <1>1, <1>2 DEF NotAfter

(* A list stays in order as long as the priorities stay.                   *)
LEMMA SortedSame ==
  ASSUME NEW t, NEW u, NEW l \in Lists, Sorted(t, l),
         \A s \in ToSet(l) : u[s].priority = t[s].priority
  PROVE  Sorted(u, l)
<1>1. \A i \in DOMAIN l : u[l[i]].priority = t[l[i]].priority
  BY DEF ToSet
<1> QED BY <1>1 DEF Sorted, NotAfter
-----------------------------------------------------------------------------
LEMMA ConcatIs ==
  ASSUME NEW a \in Seq(Streams), NEW b \in Seq(Streams)
  PROVE  /\ a \o b \in Seq(Streams) /\ Len(a \o b) = Len(a) + Len(b)
         /\ \A j \in 1 .. Len(a) + Len(b) :
              (a \o b)[j] = IF j <= Len(a) THEN a[j] ELSE b[j - Len(a)]
  OBVIOUS

(* A list with s put before its element i.                                 *)
LEMMA InsertedIs ==
  ASSUME NEW l \in Lists, NEW s \in Streams, NEW i \in 1 .. Len(l) + 1
  PROVE  LET m == InsertAt(l, i, s)
         IN  /\ m \in Lists /\ Len(m) = Len(l) + 1
             /\ \A j \in 1 .. Len(l) + 1 :
                  m[j] = IF j < i THEN l[j] ELSE IF j = i THEN s ELSE l[j - 1]
<1> DEFINE A == SubSeq(l, 1, i - 1)
           C == SubSeq(l, i, Len(l))
           B == A \o <<s>>
<1>1. l \in Seq(Streams) /\ Len(l) \in Nat
  BY DEF Lists
<1>2. A \in Seq(Streams) /\ Len(A) = i - 1 /\ \A j \in 1 .. i - 1 : A[j] = l[j]
  BY <1>1
<1>3. C \in Seq(Streams) /\ Len(C) = Len(l) + 1 - i
      /\ \A j \in 1 .. Len(l) + 1 - i : C[j] = l[i + j - 1]
  BY <1>1
<1> HIDE DEF A, C
<1>4. B \in Seq(Streams) /\ Len(B) = i /\ B[i] = s /\ \A j \in 1 .. i - 1 : B[j] = l[j]
  <2>1. <<s>> \in Seq(Streams) /\ Len(<<s>>) = 1 /\ <<s>>[1] = s
    OBVIOUS
  <2> DEFINE e == <<s>>
  <2> HIDE DEF e
  <2>2. A \o e \in Seq(Streams) /\ Len(A \o e) = Len(A) + Len(e)
        /\ \A j \in 1 .. Len(A) + Len(e) :
             (A \o e)[j] = IF j <= Len(A) THEN A[j] ELSE e[j - Len(A)]
    BY <1>2, <2>1, ConcatIs DEF e
  <2>3. Len(e) = 1 /\ e[1] = s /\ i - (i - 1) = 1
    BY <2>1 DEF e
  <2>4. A \o e \in Seq(Streams) /\ Len(A \o e) = i
        /\ \A j \in 1 .. i : (A \o e)[j] = IF j <= i - 1 THEN A[j] ELSE e[j - (i - 1)]
    BY <1>1, <1>2, <2>2, <2>3
  <2>5. (A \o e)[i] = s /\ \A j \in 1 .. i - 1 : (A \o e)[j] = l[j]
    BY <1>1, <1>2, <2>3, <2>4
  <2> QED BY <2>4, <2>5 DEF e
<1> HIDE DEF B
<1>5. B \o C \in Seq(Streams) /\ Len(B \o C) = Len(l) + 1
      /\ \A j \in 1 .. Len(l) + 1 : (B \o C)[j] = IF j <= i THEN B[j] ELSE C[j - i]
  <2>1. B \o C \in Seq(Streams) /\ Len(B \o C) = Len(B) + Len(C)
        /\ \A j \in 1 .. Len(B) + Len(C) :
             (B \o C)[j] = IF j <= Len(B) THEN B[j] ELSE C[j - Len(B)]
    BY <1>3, <1>4, ConcatIs
  <2>2. Len(B) = i /\ Len(B) + Len(C) = Len(l) + 1
    BY <1>1, <1>3, <1>4
  <2> QED BY <2>1, <2>2, Zenon
<1>6. ASSUME NEW j \in 1 .. Len(l) + 1
      PROVE  (B \o C)[j] = IF j < i THEN l[j] ELSE IF j = i THEN s ELSE l[j - 1]
  <2>1. CASE j > i
    <3>1. j - i \in 1 .. Len(l) + 1 - i /\ i + (j - i) - 1 = j - 1
      BY <1>1, <2>1
    <3>2. (B \o C)[j] = C[j - i] /\ C[j - i] = l[j - 1]
      BY <1>3, <1>5, <2>1, <3>1
    <3> QED BY <2>1, <3>2
  <2>2. CASE j <= i
    <3>1. (B \o C)[j] = B[j]
      BY <1>5, <2>2
    <3>2. (j = i /\ ~(j < i)) \/ (j \in 1 .. i - 1 /\ j < i)
      BY <1>1, <2>2
    <3>3. B[j] = IF j < i THEN l[j] ELSE s
      BY <1>4, <3>2, Zenon
    <3> QED BY <3>1, <3>2, <3>3, Zenon
  <2>3. j > i \/ j <= i
    BY <1>1
  <2> QED BY <2>1, <2>2, <2>3, Zenon
<1>7. InsertAt(l, i, s) = B \o C
  BY DEF InsertAt, A, B, C
<1> QED BY <1>5, <1>6, <1>7 DEF Lists

LEMMA InsertedLines ==
  ASSUME NEW t, NEW S, NEW l, Lines(t, l, S), NEW s \in Streams, s \notin S,
         NEW i \in 1 .. Len(l) + 1,
         \A j \in 1 .. i - 1 : NotAfter(t, l[j], s),
         \A j \in i .. Len(l) : NotAfter(t, s, l[j])
  PROVE  Lines(t, InsertAt(l, i, s), S \cup {s})
<1> DEFINE m == InsertAt(l, i, s)
           n == Len(l)
<1>1. l \in Lists /\ IsInjective(l) /\ ToSet(l) = S /\ Sorted(t, l)
  BY DEF Lines
<1>2. m \in Lists /\ Len(m) = n + 1
      /\ \A j \in 1 .. n + 1 :
           m[j] = IF j < i THEN l[j] ELSE IF j = i THEN s ELSE l[j - 1]
  BY <1>1, InsertedIs
<1>3. n \in Nat /\ DOMAIN l = 1 .. n /\ DOMAIN m = 1 .. n + 1
  BY <1>1, <1>2 DEF Lists
<1> HIDE DEF m, n
<1>4. \A j \in 1 .. n + 1 : \/ j < i /\ j \in 1 .. n /\ m[j] = l[j]
                            \/ j = i /\ m[j] = s
                            \/ j > i /\ j - 1 \in i .. n /\ m[j] = l[j - 1]
  BY <1>2, <1>3
<1>5. \A j \in 1 .. n : l[j] \in S /\ l[j] # s
  BY <1>1, <1>3 DEF ToSet
<1>6. ToSet(m) = S \cup {s}
  <2>1. ASSUME NEW j \in 1 .. n + 1
        PROVE  m[j] \in S \cup {s}
    BY <1>3, <1>4, <1>5
  <2>2. ASSUME NEW x \in S
        PROVE  \E j \in 1 .. n + 1 : m[j] = x
    <3>1. PICK j \in 1 .. n : l[j] = x
      BY <1>1, <1>3 DEF ToSet
    <3>2. CASE j < i
      BY <1>2, <1>3, <3>1, <3>2
    <3>3. CASE j >= i
      <4>1. j + 1 \in 1 .. n + 1 /\ ~(j + 1 < i) /\ j + 1 # i /\ (j + 1) - 1 = j
        BY <1>3, <3>3
      <4>2. m[j + 1] = l[(j + 1) - 1]
        BY <1>2, <4>1
      <4> QED BY <3>1, <4>1, <4>2
    <3> QED BY <1>3, <3>2, <3>3
  <2>3. i \in 1 .. n + 1 /\ m[i] = s
    BY <1>2, <1>3 DEF n
  <2> QED BY <1>3, <2>1, <2>2, <2>3 DEF ToSet
<1>7. IsInjective(m)
  <2> SUFFICES ASSUME NEW a \in 1 .. n + 1, NEW b \in 1 .. n + 1, m[a] = m[b]
               PROVE  a = b
    BY <1>3 DEF IsInjective
  <2>1. \A x, y \in 1 .. n : l[x] = l[y] => x = y
    BY <1>1, <1>3 DEF IsInjective
  <2>2. i \in 1 .. n + 1
    BY DEF n
  <2>3. CASE a = i \/ b = i
    BY <1>3, <1>4, <1>5, <2>2, <2>3
  <2>4. CASE a # i /\ b # i
    <3>1. PICK x \in 1 .. n : m[a] = l[x] /\ x = IF a < i THEN a ELSE a - 1
      BY <1>3, <1>4, <2>2, <2>4
    <3>2. PICK y \in 1 .. n : m[b] = l[y] /\ y = IF b < i THEN b ELSE b - 1
      BY <1>3, <1>4, <2>2, <2>4
    <3>3. x = y
      BY <2>1, <3>1, <3>2
    <3> QED BY <2>2, <2>4, <3>1, <3>2, <3>3, <1>3
  <2> QED BY <2>3, <2>4
<1>8. Sorted(t, m)
  <2> SUFFICES ASSUME NEW a \in 1 .. n + 1, NEW b \in 1 .. n + 1, a < b
               PROVE  NotAfter(t, m[a], m[b])
    BY <1>3 DEF Sorted
  <2>1. \A x, y \in 1 .. n : x < y => NotAfter(t, l[x], l[y])
    BY <1>1, <1>3 DEF Sorted
  <2>2. i \in 1 .. n + 1 /\ \A j \in i .. n : NotAfter(t, s, l[j])
    BY DEF n
  <2>3. CASE a = i
    BY <1>3, <1>4, <2>2, <2>3
  <2>4. CASE b = i
    BY <1>3, <1>4, <2>2, <2>4
  <2>5. CASE a # i /\ b # i
    <3>1. PICK x \in 1 .. n : m[a] = l[x] /\ x = IF a < i THEN a ELSE a - 1
      BY <1>3, <1>4, <2>2, <2>5
    <3>2. PICK y \in 1 .. n : m[b] = l[y] /\ y = IF b < i THEN b ELSE b - 1
      BY <1>3, <1>4, <2>2, <2>5
    <3>3. x < y
      BY <1>3, <2>2, <2>5, <3>1, <3>2
    <3> QED BY <2>1, <3>1, <3>2, <3>3
  <2> QED BY <2>3, <2>4, <2>5
<1> QED BY <1>2, <1>6, <1>7, <1>8 DEF Lines, m

(* A list without its element i.                                           *)
LEMMA RemovedIs ==
  ASSUME NEW l \in Lists, NEW i \in 1 .. Len(l)
  PROVE  LET m == RemoveAt(l, i)
         IN  /\ m \in Lists /\ Len(m) = Len(l) - 1
             /\ \A j \in 1 .. Len(l) - 1 : m[j] = IF j < i THEN l[j] ELSE l[j + 1]
<1> DEFINE A == SubSeq(l, 1, i - 1)
           C == SubSeq(l, i + 1, Len(l))
<1>1. l \in Seq(Streams) /\ Len(l) \in Nat
  BY DEF Lists
<1>2. A \in Seq(Streams) /\ Len(A) = i - 1 /\ \A j \in 1 .. i - 1 : A[j] = l[j]
  BY <1>1
<1>3. C \in Seq(Streams) /\ Len(C) = Len(l) - i
      /\ \A j \in 1 .. Len(l) - i : C[j] = l[i + j]
  BY <1>1
<1> HIDE DEF A, C
<1>4. A \o C \in Seq(Streams) /\ Len(A \o C) = Len(l) - 1
      /\ \A j \in 1 .. Len(l) - 1 : (A \o C)[j] = IF j <= i - 1 THEN A[j] ELSE C[j - (i - 1)]
  <2>1. A \o C \in Seq(Streams) /\ Len(A \o C) = Len(A) + Len(C)
        /\ \A j \in 1 .. Len(A) + Len(C) :
             (A \o C)[j] = IF j <= Len(A) THEN A[j] ELSE C[j - Len(A)]
    BY <1>2, <1>3, ConcatIs
  <2>2. Len(A) = i - 1 /\ Len(A) + Len(C) = Len(l) - 1
    BY <1>1, <1>2, <1>3
  <2> QED BY <2>1, <2>2, Zenon
<1>5. ASSUME NEW j \in 1 .. Len(l) - 1
      PROVE  (A \o C)[j] = IF j < i THEN l[j] ELSE l[j + 1]
  <2>1. CASE j >= i
    <3>1. j - (i - 1) \in 1 .. Len(l) - i /\ i + (j - (i - 1)) = j + 1
      BY <1>1, <2>1
    <3>2. C[j - (i - 1)] = l[j + 1]
      BY <1>3, <3>1
    <3>3. (A \o C)[j] = C[j - (i - 1)]
      BY <1>4, <2>1
    <3> QED BY <2>1, <3>2, <3>3
  <2>2. CASE j < i
    <3>1. j \in 1 .. i - 1 /\ j <= i - 1
      BY <1>1, <2>2
    <3>2. (A \o C)[j] = A[j]
      BY <1>4, <3>1, Zenon
    <3> QED BY <1>2, <2>2, <3>1, <3>2, Zenon
  <2>3. j >= i \/ j < i
    BY <1>1
  <2> QED BY <2>1, <2>2, <2>3, Zenon
<1>6. RemoveAt(l, i) = A \o C
  BY DEF RemoveAt, A, C
<1> QED BY <1>4, <1>5, <1>6 DEF Lists

LEMMA RemovedLines ==
  ASSUME NEW t, NEW S, NEW l, Lines(t, l, S), NEW i \in 1 .. Len(l)
  PROVE  Lines(t, RemoveAt(l, i), S \ {l[i]})
<1> DEFINE m == RemoveAt(l, i)
           n == Len(l)
<1>1. l \in Lists /\ IsInjective(l) /\ ToSet(l) = S /\ Sorted(t, l)
  BY DEF Lines
<1>2. m \in Lists /\ Len(m) = n - 1
      /\ \A j \in 1 .. n - 1 : m[j] = IF j < i THEN l[j] ELSE l[j + 1]
  BY <1>1, RemovedIs
<1>3. n \in Nat /\ DOMAIN l = 1 .. n /\ DOMAIN m = 1 .. n - 1 /\ i \in 1 .. n
  BY <1>1, <1>2 DEF Lists
<1> HIDE DEF m, n
<1>4. \A j \in 1 .. n - 1 : \E x \in 1 .. n :
        m[j] = l[x] /\ x # i /\ x = IF j < i THEN j ELSE j + 1
  BY <1>2, <1>3
<1>5. \A x, y \in 1 .. n : l[x] = l[y] => x = y
  BY <1>1, <1>3 DEF IsInjective
<1>6. ToSet(m) = S \ {l[i]}
  <2>1. ASSUME NEW j \in 1 .. n - 1
        PROVE  m[j] \in S \ {l[i]}
    <3>1. PICK x \in 1 .. n : m[j] = l[x] /\ x # i
      BY <1>4
    <3> QED BY <1>1, <1>3, <1>5, <3>1 DEF ToSet
  <2>2. ASSUME NEW v \in S \ {l[i]}
        PROVE  \E j \in 1 .. n - 1 : m[j] = v
    <3>1. PICK x \in 1 .. n : l[x] = v /\ x # i
      BY <1>1, <1>3 DEF ToSet
    <3>2. CASE x < i
      BY <1>2, <1>3, <3>1, <3>2
    <3>3. CASE x > i
      <4>1. x - 1 \in 1 .. n - 1 /\ ~(x - 1 < i) /\ (x - 1) + 1 = x
        BY <1>3, <3>3
      <4>2. m[x - 1] = l[(x - 1) + 1]
        BY <1>2, <4>1
      <4> QED BY <3>1, <4>1, <4>2
    <3> QED BY <1>3, <3>1, <3>2, <3>3
  <2> QED BY <1>3, <2>1, <2>2 DEF ToSet
<1>7. IsInjective(m)
  <2> SUFFICES ASSUME NEW a \in 1 .. n - 1, NEW b \in 1 .. n - 1, m[a] = m[b]
               PROVE  a = b
    BY <1>3 DEF IsInjective
  <2>1. PICK x \in 1 .. n : m[a] = l[x] /\ x = IF a < i THEN a ELSE a + 1
    BY <1>4
  <2>2. PICK y \in 1 .. n : m[b] = l[y] /\ y = IF b < i THEN b ELSE b + 1
    BY <1>4
  <2>3. x = y
    BY <1>5, <2>1, <2>2
  <2> QED BY <1>3, <2>1, <2>2, <2>3
<1>8. Sorted(t, m)
  <2> SUFFICES ASSUME NEW a \in 1 .. n - 1, NEW b \in 1 .. n - 1, a < b
               PROVE  NotAfter(t, m[a], m[b])
    BY <1>3 DEF Sorted
  <2>1. PICK x \in 1 .. n : m[a] = l[x] /\ x = IF a < i THEN a ELSE a + 1
    BY <1>4
  <2>2. PICK y \in 1 .. n : m[b] = l[y] /\ y = IF b < i THEN b ELSE b + 1
    BY <1>4
  <2>3. x < y
    BY <1>3, <2>1, <2>2
  <2> QED BY <1>1, <1>3, <2>1, <2>2, <2>3 DEF Sorted
<1> QED BY <1>2, <1>6, <1>7, <1>8 DEF Lines, m
-----------------------------------------------------------------------------
(* Inserting a stream lists it if it may send, and nothing else.           *)
LEMMA InsertLines ==
  ASSUME NEW t \in [Streams -> Stream], NEW lim, NEW l, NEW S, Lines(t, l, S),
         NEW s \in Streams
  PROVE  Lines(t, InsertOutput(t, lim, l, s),
               IF s \in Sendable(t, lim) THEN S \cup {s} ELSE S)
<1> DEFINE after == {i \in DOMAIN l : Before(t, s, l[i])}
           m == InsertOutput(t, lim, l, s)
<1>1. l \in Lists /\ ToSet(l) = S /\ Sorted(t, l) /\ Len(l) \in Nat
      /\ DOMAIN l = 1 .. Len(l) /\ \A i \in 1 .. Len(l) : l[i] \in Streams
  BY DEF Lines, Lists
<1>2. CASE s \in S \/ s \notin Sendable(t, lim)
  <2>1. m = l
    BY <1>1, <1>2 DEF InsertOutput, Sendable
  <2>2. (IF s \in Sendable(t, lim) THEN S \cup {s} ELSE S) = S
    BY <1>2
  <2> QED BY <2>1, <2>2
<1>3. CASE s \notin S /\ s \in Sendable(t, lim) /\ l # <<>> /\ Before(t, s, Last(l))
  <2>1. m = InsertAt(l, Min(after), s)
    BY <1>1, <1>3 DEF InsertOutput, Sendable
  <2>2. Len(l) \in after /\ after \subseteq Nat
    BY <1>1, <1>3 DEF Last, Lists
  <2>3. Min(after) \in after /\ \A i \in after : Min(after) <= i
    <3> HIDE DEF after
    <3> QED BY <2>2, LeastIs
  <2> DEFINE i == Min(after)
  <2>4. i \in 1 .. Len(l) /\ Before(t, s, l[i]) /\ \A j \in after : i <= j
    BY <1>1, <2>3
  <2> HIDE DEF i
  <2>5. ASSUME NEW j \in 1 .. i - 1
        PROVE  NotAfter(t, l[j], s)
    <3>1. j \in 1 .. Len(l) /\ ~Before(t, s, l[j])
      BY <1>1, <2>4
    <3> QED BY <1>1, <3>1, OrderIs
  <2>6. ASSUME NEW j \in i .. Len(l)
        PROVE  NotAfter(t, s, l[j])
    <3>1. NotAfter(t, s, l[i]) /\ l[i] \in Streams /\ l[j] \in Streams
      BY <1>1, <2>4, OrderIs
    <3>2. j = i \/ NotAfter(t, l[i], l[j])
      BY <1>1, <2>4 DEF Sorted
    <3> QED BY <3>1, <3>2, OrderChains
  <2>7. Lines(t, InsertAt(l, i, s), S \cup {s})
    BY <1>1, <1>3, <2>4, <2>5, <2>6, InsertedLines
  <2> QED BY <1>3, <2>1, <2>7 DEF i
<1>4. CASE s \notin S /\ s \in Sendable(t, lim) /\ ~(l # <<>> /\ Before(t, s, Last(l)))
  <2>1. m = Append(l, s)
    BY <1>1, <1>4, Zenon DEF InsertOutput, Sendable
  <2>2. Append(l, s) = InsertAt(l, Len(l) + 1, s)
    <3>1. Len(l) + 1 \in 1 .. Len(l) + 1
      BY <1>1
    <3> DEFINE k == InsertAt(l, Len(l) + 1, s)
    <3>2. k \in Lists /\ Len(k) = Len(l) + 1
          /\ \A j \in 1 .. Len(l) + 1 : k[j] = IF j < Len(l) + 1 THEN l[j]
                                                ELSE IF j = Len(l) + 1 THEN s ELSE l[j - 1]
      BY <1>1, <3>1, InsertedIs
    <3> HIDE DEF k
    <3>3. k \in Seq(Streams) /\ l \in Seq(Streams) /\ Append(l, s) \in Seq(Streams)
          /\ Len(Append(l, s)) = Len(l) + 1
      BY <1>1, <3>2 DEF Lists
    <3>4. \A j \in 1 .. Len(l) + 1 : Append(l, s)[j] = k[j]
      BY <1>1, <3>2, <3>3
    <3>5. Append(l, s) = k
      BY <3>2, <3>3, <3>4
    <3> QED BY <3>5 DEF k
  <2>3. ASSUME NEW j \in 1 .. Len(l)
        PROVE  NotAfter(t, l[j], s)
    <3>1. l # <<>> /\ Len(l) \in 1 .. Len(l) /\ ~Before(t, s, l[Len(l)])
      BY <1>1, <1>4 DEF Last, Lists
    <3>2. NotAfter(t, l[Len(l)], s) /\ l[j] \in Streams /\ l[Len(l)] \in Streams
      BY <1>1, <3>1, OrderIs
    <3>3. j = Len(l) \/ NotAfter(t, l[j], l[Len(l)])
      <4>1. Len(l) \in Nat
        BY <1>1
      <4>2. j = Len(l) \/ j < Len(l)
        BY <4>1
      <4> QED BY <1>1, <3>1, <4>2, Zenon DEF Sorted
    <3> QED BY <3>2, <3>3, OrderChains
  <2>4. Len(l) + 1 \in 1 .. Len(l) + 1 /\ (Len(l) + 1) - 1 = Len(l)
        /\ (Len(l) + 1) .. Len(l) = {}
    BY <1>1
  <2>5. Lines(t, InsertAt(l, Len(l) + 1, s), S \cup {s})
    BY <1>4, <2>3, <2>4, InsertedLines
  <2> QED BY <1>4, <2>1, <2>2, <2>5
<1> QED BY <1>2, <1>3, <1>4

(* Removing a stream takes it out, and nothing else.                       *)
LEMMA RemoveLines ==
  ASSUME NEW t, NEW l, NEW S, Lines(t, l, S), NEW s
  PROVE  Lines(t, RemoveOutput(l, s), S \ {s})
<1> DEFINE I == {i \in 1 .. Len(l) : l[i] = s}
<1>1. ToSet(l) = S /\ DOMAIN l = 1 .. Len(l) /\ Len(l) \in Nat
  BY DEF Lines, Lists
<1>2. CASE s \in S
  <2>1. I # {} /\ I \subseteq Nat
    BY <1>1, <1>2 DEF ToSet
  <2>2. Min(I) \in I
    <3> HIDE DEF I
    <3> QED BY <2>1, LeastIs
  <2>3. RemoveOutput(l, s) = RemoveAt(l, Min(I))
    BY <2>1, Zenon DEF RemoveOutput, RemoveFirst, SelectInSeq
  <2>4. Min(I) \in 1 .. Len(l) /\ l[Min(I)] = s
    BY <2>2
  <2> HIDE DEF I
  <2> QED BY <2>3, <2>4, RemovedLines
<1>3. CASE s \notin S
  <2>1. RemoveOutput(l, s) = l
    BY <1>1, <1>3 DEF RemoveOutput, RemoveFirst, ToSet
  <2>2. S \ {s} = S
    BY <1>3
  <2> QED BY <2>1, <2>2
<1> QED BY <1>2, <1>3

LEMMA UpdateLines ==
  ASSUME NEW t \in [Streams -> Stream], NEW lim, NEW l, NEW S, Lines(t, l, S),
         NEW s \in Streams, s \in S => Allowed(lim, s)
  PROVE  Lines(t, UpdateOutput(t, lim, l, s), (S \ {s}) \cup (Sendable(t, lim) \cap {s}))
<1>1. CASE HasData(t, lim, s)
  <2>1. UpdateOutput(t, lim, l, s) = InsertOutput(t, lim, l, s)
    BY <1>1 DEF UpdateOutput
  <2>2. (S \ {s}) \cup (Sendable(t, lim) \cap {s})
          = IF s \in Sendable(t, lim) THEN S \cup {s} ELSE S
    BY <1>1 DEF Sendable
  <2>3. Lines(t, InsertOutput(t, lim, l, s),
              IF s \in Sendable(t, lim) THEN S \cup {s} ELSE S)
    BY InsertLines
  <2> QED BY <2>1, <2>2, <2>3, Zenon
<1>2. CASE ~HasData(t, lim, s)
  <2>1. UpdateOutput(t, lim, l, s) = RemoveOutput(l, s)
    BY <1>2 DEF UpdateOutput
  <2>2. (S \ {s}) \cup (Sendable(t, lim) \cap {s}) = S \ {s}
    BY <1>2 DEF Sendable
  <2> QED BY <2>1, <2>2, RemoveLines
<1> QED BY <1>1, <1>2

(* A list stays sorted when the priority of one of its streams changes:    *)
(* looking at its two neighbours is enough.                                *)
LEMMA ReorderLines ==
  ASSUME NEW u \in [Streams -> Stream], NEW t \in [Streams -> Stream],
         NEW lim, NEW l, NEW S, Lines(u, l, S), NEW s \in Streams,
         \A r \in Streams \ {s} : t[r].priority = u[r].priority,
         s \in S => s \in Sendable(t, lim)
  PROVE  Lines(t, Reorder(t, lim, l, s), S)
<1> DEFINE misplaced == \E i \in DOMAIN l :
             /\ l[i] = s
             /\ \/ i > 1 /\ Before(t, s, l[i - 1])
                \/ i < Len(l) /\ Before(t, l[i + 1], s)
<1>1. l \in Lists /\ IsInjective(l) /\ ToSet(l) = S /\ Sorted(u, l) /\ Len(l) \in Nat
      /\ DOMAIN l = 1 .. Len(l) /\ \A i \in 1 .. Len(l) : l[i] \in Streams
  BY DEF Lines, Lists
<1>2. CASE misplaced
  <2>1. Reorder(t, lim, l, s) = InsertOutput(t, lim, RemoveOutput(l, s), s)
    BY <1>2 DEF Reorder
  <2>2. s \in S
    BY <1>1, <1>2 DEF ToSet
  <2> DEFINE k == RemoveOutput(l, s)
  <2>3. Lines(u, k, S \ {s})
    BY RemoveLines
  <2> HIDE DEF k
  <2>4. k \in Lists /\ IsInjective(k) /\ ToSet(k) = S \ {s} /\ Sorted(u, k)
    BY <2>3 DEF Lines
  <2>5. \A r \in ToSet(k) : t[r].priority = u[r].priority
    <3>1. S \subseteq Streams
      BY <1>1 DEF ToSet
    <3> QED BY <2>4, <3>1
  <2>6. Lines(t, k, S \ {s})
    BY <2>4, <2>5, SortedSame DEF Lines
  <2>7. (IF s \in Sendable(t, lim) THEN (S \ {s}) \cup {s} ELSE S \ {s}) = S
    BY <2>2
  <2>8. Lines(t, InsertOutput(t, lim, k, s), S)
    <3>1. Lines(t, InsertOutput(t, lim, k, s),
                IF s \in Sendable(t, lim) THEN (S \ {s}) \cup {s} ELSE S \ {s})
      BY <2>6, InsertLines
    <3> QED BY <2>7, <3>1, Zenon
  <2> QED BY <2>1, <2>8 DEF k
<1>3. CASE ~misplaced
  <2>1. Reorder(t, lim, l, s) = l
    BY <1>3 DEF Reorder
  <2>2. ASSUME NEW a \in 1 .. Len(l), NEW b \in 1 .. Len(l), a < b
        PROVE  NotAfter(t, l[a], l[b])
    <3>1. \A x, y \in 1 .. Len(l) : x < y /\ l[x] # s /\ l[y] # s => NotAfter(t, l[x], l[y])
      BY <1>1 DEF Sorted, NotAfter
    <3>2. \A x, y \in 1 .. Len(l) : l[x] = s /\ l[y] = s => x = y
      BY <1>1, Zenon DEF IsInjective
    <3>3. CASE l[a] # s /\ l[b] # s
      BY <2>2, <3>1, <3>3
    <3>4. CASE l[a] = s
      <4>1. a + 1 \in 1 .. Len(l) /\ a < Len(l) /\ a + 1 # a /\ (b = a + 1 \/ a + 1 < b) /\ b # a
        BY <1>1, <2>2
      <4>2. ~Before(t, l[a + 1], s)
        BY <1>1, <1>3, <3>4, <4>1
      <4>3. NotAfter(t, s, l[a + 1])
        BY <1>1, <4>1, <4>2, OrderIs
      <4>4. b = a + 1 \/ NotAfter(t, l[a + 1], l[b])
        BY <3>1, <3>2, <3>4, <4>1
      <4>5. l[a + 1] \in Streams /\ l[b] \in Streams
        BY <1>1, <4>1
      <4> QED BY <3>4, <4>3, <4>4, <4>5, OrderChains
    <3>5. CASE l[b] = s
      <4>1. b - 1 \in 1 .. Len(l) /\ b > 1 /\ b - 1 # b /\ (a = b - 1 \/ a < b - 1) /\ b # a
        BY <1>1, <2>2
      <4>2. ~Before(t, s, l[b - 1])
        BY <1>1, <1>3, <3>5, <4>1
      <4>3. NotAfter(t, l[b - 1], s)
        BY <1>1, <4>1, <4>2, OrderIs
      <4>4. a = b - 1 \/ NotAfter(t, l[a], l[b - 1])
        BY <3>1, <3>2, <3>5, <4>1
      <4>5. l[b - 1] \in Streams /\ l[a] \in Streams
        BY <1>1, <4>1
      <4> QED BY <3>5, <4>3, <4>4, <4>5, OrderChains
    <3> QED BY <3>3, <3>4, <3>5
  <2>3. Sorted(t, l)
    BY <1>1, <2>2 DEF Sorted
  <2> QED BY <1>1, <2>1, <2>3 DEF Lines
<1> QED BY <1>2, <1>3

(* The search for a new place after a frame never passes the stream        *)
(* itself: it leaves the list as it is, or takes an exhausted stream out.  *)
LEMMA AfterSendLines ==
  ASSUME NEW t \in [Streams -> Stream], NEW lim, NEW l, NEW S, Lines(t, l, S),
         NEW s \in Streams, NEW old
  PROVE  Lines(t, ReorderAfterSend(t, lim, l, s, old),
               IF HasData(t, lim, s) THEN S ELSE S \ {s})
<1> DEFINE place == CHOOSE i \in DOMAIN l : l[i] = s
           start == place - 1
           passed == {j \in DOMAIN l : start >= 1 /\ start <= j
                                       /\ \A k \in start .. j : Before(t, l[k], s)}
           m == ReorderAfterSend(t, lim, l, s, old)
<1>1. ToSet(l) = S /\ DOMAIN l = 1 .. Len(l) /\ Len(l) \in Nat
  BY DEF Lines, Lists
<1>2. CASE s \notin S
  <2>1. m = l
    BY <1>1, <1>2 DEF ReorderAfterSend
  <2>2. (IF HasData(t, lim, s) THEN S ELSE S \ {s}) = S
    BY <1>2
  <2> QED BY <2>1, <2>2
<1>3. CASE s \in S /\ ~HasData(t, lim, s)
  <2>1. m = RemoveOutput(l, s)
    BY <1>1, <1>3, Zenon DEF ReorderAfterSend
  <2>2. Lines(t, m, S \ {s})
    BY <2>1, RemoveLines
  <2> QED BY <1>3, <2>2
<1>4. CASE s \in S /\ HasData(t, lim, s)
  <2>1. place \in 1 .. Len(l) /\ l[place] = s
    <3>1. \E i \in DOMAIN l : l[i] = s
      BY <1>1, <1>4 DEF ToSet
    <3> QED BY <1>1, <3>1
  <2>2. passed \subseteq {start}
    <3> SUFFICES ASSUME NEW j \in passed, j # start
                 PROVE  FALSE
      OBVIOUS
    <3>1. j \in 1 .. Len(l) /\ start <= j
      BY <1>1
    <3>2. place \in start .. j
      BY <1>1, <2>1, <3>1
    <3>3. Before(t, l[place], s)
      BY <3>2, Zenon
    <3> QED BY <2>1, <3>3, OrderIs
  <2>3. passed \cup {start} = {start} /\ start \in Int
    BY <1>1, <2>1, <2>2
  <2>4. Max(passed \cup {start}) = start
    <3> HIDE DEF passed, start
    <3>1. Max({start}) = start
      BY <2>3 DEF Max
    <3> QED BY <2>3, <3>1
  <2>5. m = l
    BY <1>1, <1>4, <2>4, Zenon DEF ReorderAfterSend
  <2> QED BY <1>4, <2>5
<1> QED BY <1>2, <1>3, <1>4
-----------------------------------------------------------------------------
LEMMA NoLines ==
  ASSUME NEW t
  PROVE  Lines(t, <<>>, {})
  BY DEF Lines, Lists, IsInjective, ToSet, Sorted

(* A walk that inserts the streams of a set lists those that may send.     *)
LEMMA InsertWalk ==
  ASSUME NEW t \in [Streams -> Stream], NEW lim, NEW l, NEW S, Lines(t, l, S),
         NEW walked \in SUBSET Streams
  PROVE  LET visit == [s \in Streams |-> [k \in Lists |->
                         IF s \in walked THEN InsertOutput(t, lim, k, s) ELSE k]]
         IN  Lines(t, Walk(visit, l, MaxStreams), S \cup (walked \cap Sendable(t, lim)))
<1> DEFINE visit == [s \in Streams |-> [k \in Lists |->
                       IF s \in walked THEN InsertOutput(t, lim, k, s) ELSE k]]
           T(i) == S \cup {s \in walked \cap Sendable(t, lim) : s < i}
           Q == [i \in 0 .. MaxStreams |-> {k \in Lists : Lines(t, k, T(i))}]
<1>1. MaxStreams \in Nat /\ \A s \in walked : s \in Nat /\ 0 <= s /\ s < MaxStreams
  BY OutputStreamsAssumption DEF Streams
<1>2. T(0) = S /\ T(MaxStreams) = S \cup (walked \cap Sendable(t, lim))
  BY <1>1
<1>3. l \in Q[0]
  <2>1. 0 \in 0 .. MaxStreams /\ l \in Lists
    BY <1>1 DEF Lines
  <2> QED BY <1>2, <2>1
<1>4. ASSUME NEW i \in 1 .. MaxStreams, NEW k \in Q[i - 1]
      PROVE  visit[i - 1][k] \in Q[i]
  <2>1. i - 1 \in Streams /\ i - 1 \in 0 .. MaxStreams /\ i \in 0 .. MaxStreams
    BY <1>1 DEF Streams
  <2>2. k \in Lists /\ Lines(t, k, T(i - 1))
    BY <2>1
  <2>3. T(i) = IF i - 1 \in walked /\ i - 1 \in Sendable(t, lim)
               THEN T(i - 1) \cup {i - 1} ELSE T(i - 1)
    <3>1. \A s \in walked : s < i <=> s < i - 1 \/ s = i - 1
      BY <1>1
    <3> QED BY <3>1
  <2> HIDE DEF T
  <2>4. visit[i - 1][k] = IF i - 1 \in walked THEN InsertOutput(t, lim, k, i - 1) ELSE k
    BY <2>1, <2>2
  <2>5. Lines(t, visit[i - 1][k], T(i))
    <3>1. CASE i - 1 \in walked
      BY <2>1, <2>2, <2>3, <2>4, <3>1, InsertLines
    <3>2. CASE i - 1 \notin walked
      BY <2>2, <2>3, <2>4, <3>2
    <3> QED BY <3>1, <3>2
  <2>6. visit[i - 1][k] \in Lists
    BY <2>5 DEF Lines
  <2> QED BY <2>1, <2>5, <2>6
<1>5. Walk(visit, l, MaxStreams) \in Q[MaxStreams]
  <2> HIDE DEF visit, Q
  <2> QED BY <1>1, <1>3, <1>4, WalkLeads
<1>6. Lines(t, Walk(visit, l, MaxStreams), T(MaxStreams))
  <2>1. MaxStreams \in 0 .. MaxStreams
    BY <1>1
  <2> HIDE DEF visit, T
  <2> QED BY <1>5, <2>1
<1> QED BY <1>2, <1>6

(* The walk of picoquic_update_stream_initial_remote makes the list anew.  *)
LEMMA UpdateWalk ==
  ASSUME NEW t \in [Streams -> Stream], NEW lim, created \in 0 .. MaxStreams
  PROVE  Lines(t, UpdateOutputs(t, lim, <<>>), {s \in Sendable(t, lim) : s < created})
<1> DEFINE visit == [s \in Streams |-> [k \in Lists |-> UpdateOutput(t, lim, k, s)]]
           T(i) == {s \in Sendable(t, lim) : s < i}
           Q == [i \in 0 .. created |-> {k \in Lists : Lines(t, k, T(i))}]
<1>1. created \in Nat /\ \A s \in Sendable(t, lim) : s \in Nat /\ 0 <= s
  BY OutputStreamsAssumption DEF Sendable, Streams
<1>2. <<>> \in Q[0]
  <2>1. 0 \in 0 .. created /\ T(0) = {}
    BY <1>1
  <2>2. <<>> \in Lists
    BY DEF Lists
  <2> QED BY <2>1, <2>2, NoLines
<1>3. ASSUME NEW i \in 1 .. created, NEW k \in Q[i - 1]
      PROVE  visit[i - 1][k] \in Q[i]
  <2>1. i - 1 \in Streams /\ i - 1 \in 0 .. created /\ i \in 0 .. created
    BY <1>1, OutputStreamsAssumption DEF Streams
  <2>2. k \in Lists /\ Lines(t, k, T(i - 1))
    BY <2>1
  <2>3. /\ i - 1 \notin T(i - 1)
        /\ T(i) = (T(i - 1) \ {i - 1}) \cup (Sendable(t, lim) \cap {i - 1})
    <3>1. \A s \in Sendable(t, lim) : (s < i <=> s < i - 1 \/ s = i - 1) /\ ~(i - 1 < i - 1)
      BY <1>1
    <3> QED BY <3>1
  <2> HIDE DEF T
  <2>4. visit[i - 1][k] = UpdateOutput(t, lim, k, i - 1)
    BY <2>1, <2>2
  <2>5. Lines(t, visit[i - 1][k], T(i))
    BY <2>1, <2>2, <2>3, <2>4, UpdateLines
  <2>6. visit[i - 1][k] \in Lists
    BY <2>5 DEF Lines
  <2> QED BY <2>1, <2>5, <2>6
<1>4. Walk(visit, <<>>, created) \in Q[created]
  <2> HIDE DEF visit, Q
  <2> QED BY <1>1, <1>2, <1>3, WalkLeads
<1>5. Lines(t, Walk(visit, <<>>, created), T(created))
  <2>1. created \in 0 .. created
    BY <1>1
  <2> HIDE DEF visit, T
  <2> QED BY <1>4, <2>1
<1> QED BY <1>5 DEF UpdateOutputs

(* When every listed stream may send, the sender takes the first one, and  *)
(* no exhausted stream is passed on the way.                               *)
LEMMA NothingPassed ==
  ASSUME NEW s, out \in Lists, \A r \in ToSet(out) : HasData(st, max_stream_id, r)
  PROVE  Kept(s) = out
<1> DEFINE passed == {r \in Streams : /\ ~HasData(st, max_stream_id, r)
                                      /\ \E i, j \in DOMAIN out :
                                           i < j /\ out[i] = r /\ out[j] = s}
           exhausted(r) == (st[r].fin_requested /\ st[r].fin_sent) \/ st[r].reset_sent
           visit == [r \in Streams |-> [k \in Lists |->
                       IF r \in passed /\ exhausted(r) THEN RemoveOutput(k, r) ELSE k]]
           Q == [i \in 0 .. MaxStreams |-> {out}]
<1>1. passed = {}
  BY DEF ToSet
<1>2. MaxStreams \in Nat
  BY OutputStreamsAssumption
<1>3. ASSUME NEW i \in 1 .. MaxStreams, NEW k \in Q[i - 1]
      PROVE  visit[i - 1][k] \in Q[i]
  <2>1. i - 1 \in Streams /\ i - 1 \in 0 .. MaxStreams /\ i \in 0 .. MaxStreams
    BY <1>2 DEF Streams
  <2>2. k = out
    BY <2>1
  <2>3. visit[i - 1][k] = k
    <3> HIDE DEF passed, exhausted
    <3> QED BY <1>1, <2>1, <2>2
  <2> HIDE DEF visit
  <2> QED BY <2>1, <2>2, <2>3
<1>4. out \in Q[0]
  BY <1>2
<1>5. Walk(visit, out, MaxStreams) \in Q[MaxStreams]
  <2> HIDE DEF visit, Q
  <2> QED BY <1>2, <1>3, <1>4, WalkLeads
<1>6. Walk(visit, out, MaxStreams) = out
  <2>1. MaxStreams \in 0 .. MaxStreams
    BY <1>2
  <2> HIDE DEF visit
  <2> QED BY <1>5, <2>1
<1> QED BY <1>6 DEF Kept
-----------------------------------------------------------------------------
LEMMA ModSmall ==
  ASSUME NEW n \in Nat, NEW x \in Nat, x < n
  PROVE  x % n = x
  OBVIOUS

(* The ids of bidirectional streams that a client opens, and the id that   *)
(* stands for a limit of zero streams.                                     *)
LEMMA IdsAre ==
  ASSUME Unidir = FALSE
  PROVE  /\ IdFromRank(0) = IdSpan - 4
         /\ \A n \in 1 .. MaxStreams + 1 : IdFromRank(n) = 4 * (n - 1)
         /\ \A s \in Streams : Id(s) = 4 * s
<1>1. MaxStreams \in Nat /\ IdSpan \in Nat /\ IdSpan > 4 * (MaxStreams + 1)
  BY OutputStreamsAssumption
<1>2. \A n : IdFromRank(n) = (4 * (n - 1) + 2 * 0) % IdSpan
  BY DEF IdFromRank, Bit
<1>3. ASSUME NEW n \in 1 .. MaxStreams + 1
      PROVE  IdFromRank(n) = 4 * (n - 1)
  <2>1. 4 * (n - 1) + 2 * 0 = 4 * (n - 1) /\ 4 * (n - 1) \in Nat /\ 4 * (n - 1) < IdSpan
    BY <1>1
  <2> QED BY <1>1, <1>2, <2>1, ModSmall
<1>4. IdFromRank(0) = IdSpan - 4
  <2>1. 4 * (0 - 1) + 2 * 0 = -4 /\ IdSpan > 4
    BY <1>1
  <2>2. (-4) % IdSpan = IdSpan - 4
    BY <1>1, <2>1
  <2> QED BY <1>2, <2>1, <2>2
<1>5. ASSUME NEW s \in Streams
      PROVE  Id(s) = 4 * s
  <2>1. s + 1 \in 1 .. MaxStreams + 1 /\ (s + 1) - 1 = s
    BY <1>1 DEF Streams
  <2> QED BY <1>3, <2>1 DEF Id
<1> QED BY <1>3, <1>4, <1>5

(* The walk of picoquic_add_output_streams, if it starts at all.           *)
LEMMA AddWalk ==
  ASSUME NEW t \in [Streams -> Stream], NEW l, NEW S, Lines(t, l, S), NEW old, NEW new
  PROVE  LET first == IdFromRank((old + 4) \div 4 + 1)
             walked == {s \in Streams : /\ s < created
                                        /\ first <= Id(s) /\ old < Id(s) /\ Id(s) <= new}
         IN  Lines(t, AddOutputStreams(t, l, old, new),
                   IF \E s \in Streams : s < created /\ Id(s) = first
                   THEN S \cup (walked \cap Sendable(t, new)) ELSE S)
<1> DEFINE first == IdFromRank((old + 4) \div 4 + 1)
           starts == \E s \in Streams : s < created /\ Id(s) = first
           walked == {s \in Streams : /\ s < created
                                      /\ first <= Id(s) /\ old < Id(s) /\ Id(s) <= new}
           visit == [s \in Streams |-> [k \in Lists |->
                       IF s \in walked THEN InsertOutput(t, new, k, s) ELSE k]]
<1>1. AddOutputStreams(t, l, old, new) = IF starts THEN Walk(visit, l, MaxStreams) ELSE l
  BY Zenon DEF AddOutputStreams
<1>2. walked \in SUBSET Streams
  OBVIOUS
<1> HIDE DEF first, walked
<1>3. Lines(t, Walk(visit, l, MaxStreams), S \cup (walked \cap Sendable(t, new)))
  BY <1>2, InsertWalk
<1> HIDE DEF starts, visit
<1>4. Lines(t, AddOutputStreams(t, l, old, new),
            IF starts THEN S \cup (walked \cap Sendable(t, new)) ELSE S)
  <2>1. CASE starts
    BY <1>1, <1>3, <2>1
  <2>2. CASE ~starts
    BY <1>1, <2>2
  <2> QED BY <2>1, <2>2
<1> QED BY <1>4 DEF starts, walked, first
-----------------------------------------------------------------------------
(* A change of one stream does not change which others may send.           *)
LEMMA OthersSame ==
  ASSUME NEW t \in [Streams -> Stream], NEW s \in Streams, NEW r \in Stream, NEW lim
  PROVE  LET u == [t EXCEPT ![s] = r]
         IN  /\ u \in [Streams -> Stream] /\ u[s] = r
             /\ \A x \in Streams \ {s} :
                  u[x] = t[x] /\ (x \in Sendable(u, lim) <=> x \in Sendable(t, lim))
<1> DEFINE u == [t EXCEPT ![s] = r]
<1>1. u \in [Streams -> Stream] /\ u[s] = r /\ \A x \in Streams \ {s} : u[x] = t[x]
  OBVIOUS
<1> HIDE DEF u
<1>2. \A x \in Streams \ {s} : x \in Sendable(u, lim) <=> x \in Sendable(t, lim)
  BY <1>1 DEF Sendable, HasData
<1> QED BY <1>1, <1>2 DEF u

(* A stream changes, not its priority, and is inserted or removed.         *)
LEMMA UpdatedList ==
  ASSUME IInv, NEW s \in Streams, NEW r \in Stream, r.priority = st[s].priority
  PROVE  LET u == [st EXCEPT ![s] = r]
         IN  ListOK(u, max_stream_id, UpdateOutput(u, max_stream_id, out, s))
<1> DEFINE u == [st EXCEPT ![s] = r]
           S == ToSet(out)
           m == UpdateOutput(u, max_stream_id, out, s)
           T == (S \ {s}) \cup (Sendable(u, max_stream_id) \cap {s})
<1>1. st \in [Streams -> Stream] /\ Lines(st, out, S) /\ Exact(st, max_stream_id, S)
  BY DEF IInv, TypeOK, ListOK
<1>2. /\ u \in [Streams -> Stream] /\ u[s] = r
      /\ \A x \in Streams \ {s} :
           u[x] = st[x] /\ (x \in Sendable(u, max_stream_id) <=> x \in Sendable(st, max_stream_id))
  BY <1>1, OthersSame
<1> HIDE DEF u
<1>3. Lines(u, out, S)
  <2>1. \A x \in Streams : u[x].priority = st[x].priority
    BY <1>2
  <2>2. S \subseteq Streams
    BY <1>1 DEF Exact, Sendable
  <2> QED BY <1>1, <2>1, <2>2, SortedSame DEF Lines
<1>4. s \in S => Allowed(max_stream_id, s)
  BY <1>1 DEF Exact, Sendable
<1> HIDE DEF S
<1>5. Lines(u, m, T)
  BY <1>2, <1>3, <1>4, UpdateLines
<1>6. ToSet(m) = T
  BY <1>5 DEF Lines
<1>7. Exact(u, max_stream_id, T)
  BY <1>1, <1>2 DEF Exact, Sendable
<1> QED BY <1>5, <1>6, <1>7 DEF ListOK, u

(* A stream changes, and may still send if it could; if it may send now    *)
(* and could not before, the peer has asked to stop it.                    *)
LEMMA KeptList ==
  ASSUME IInv, NEW s \in Streams, NEW r \in Stream, r.priority = st[s].priority,
         LET u == [st EXCEPT ![s] = r]
         IN  /\ HasData(st, max_stream_id, s) => HasData(u, max_stream_id, s)
             /\ HasData(u, max_stream_id, s) => HasData(st, max_stream_id, s) \/ r.stop_received,
         st[s].stop_received => r.stop_received
  PROVE  ListOK([st EXCEPT ![s] = r], max_stream_id, out)
<1> DEFINE u == [st EXCEPT ![s] = r]
           S == ToSet(out)
<1>1. st \in [Streams -> Stream] /\ Lines(st, out, S) /\ Exact(st, max_stream_id, S)
  BY DEF IInv, TypeOK, ListOK
<1>2. /\ u \in [Streams -> Stream] /\ u[s] = r
      /\ \A x \in Streams \ {s} :
           u[x] = st[x] /\ (x \in Sendable(u, max_stream_id) <=> x \in Sendable(st, max_stream_id))
  BY <1>1, OthersSame
<1>3. /\ HasData(st, max_stream_id, s) => HasData(u, max_stream_id, s)
      /\ HasData(u, max_stream_id, s) => HasData(st, max_stream_id, s) \/ r.stop_received
  OBVIOUS
<1> HIDE DEF u
<1>4. Lines(u, out, S)
  <2>1. \A x \in Streams : u[x].priority = st[x].priority
    BY <1>2
  <2>2. S \subseteq Streams
    BY <1>1 DEF Exact, Sendable
  <2> QED BY <1>1, <2>1, <2>2, SortedSame DEF Lines
<1> HIDE DEF S
<1>5. Exact(u, max_stream_id, S)
  <2>1. s \in Sendable(st, max_stream_id) => s \in Sendable(u, max_stream_id)
    BY <1>3 DEF Sendable
  <2>2. s \in Sendable(u, max_stream_id) => s \in Sendable(st, max_stream_id) \/ u[s].stop_received
    BY <1>2, <1>3 DEF Sendable
  <2>3. \A x \in Streams : st[x].stop_received => u[x].stop_received
    BY <1>2
  <2>4. Sendable(st, max_stream_id) \subseteq Streams /\ Sendable(u, max_stream_id) \subseteq Streams
    BY DEF Sendable
  <2> QED BY <1>1, <1>2, <2>1, <2>2, <2>3, <2>4, Zenon DEF Exact
<1> QED BY <1>4, <1>5 DEF ListOK, S, u

(* What a call on one stream keeps, besides the list.                      *)
LEMMA WriteKeeps ==
  ASSUME IInv, NEW s \in Streams, NEW r \in Stream, Write(s, r),
         r.sent + r.queue <= MaxBytes, r.maxdata_remote = st[s].maxdata_remote \/ received,
         ListOK(st', max_stream_id, out')
  PROVE  IInv'
<1>1. st \in [Streams -> Stream] /\ MaxStreams \in Nat
  BY OutputStreamsAssumption DEF IInv, TypeOK
<1>2. /\ st' \in [Streams -> Stream] /\ st'[s] = r
      /\ \A x \in Streams \ {s} : st'[x] = st[x]
  BY <1>1 DEF Write
<1>3. TypeOK'
  <2>1. created' \in 0 .. MaxStreams
    BY <1>1 DEF Write, IInv, TypeOK, Streams
  <2>2. out' \in Seq(Streams)
    BY DEF ListOK, Lines, Lists
  <2> QED BY <1>2, <2>1, <2>2 DEF Write, IInv, TypeOK
<1>4. (\A x \in Streams : Written(x) <= MaxBytes)'
  BY <1>2 DEF IInv, Written
<1>5. Fresh(st, created)'
  <2>1. \A x \in Streams : x >= created' => x >= created /\ x # s
    BY <1>1 DEF Write, IInv, TypeOK, Streams
  <2> QED BY <1>2, <2>1 DEF Fresh, IInv
<1>6. (~received => \A x \in Streams : st[x].maxdata_remote = 0)'
  BY <1>2 DEF Write, IInv
<1> QED BY <1>3, <1>4, <1>5, <1>6 DEF IInv, Write
-----------------------------------------------------------------------------
(* What setting a flag of a stream leaves alone.                           *)
SameCounts(v, w) ==
  /\ w.sent = v.sent /\ w.queue = v.queue
  /\ w.priority = v.priority /\ w.maxdata_remote = v.maxdata_remote

LEMMA FlagsAre ==
  ASSUME NEW v \in Stream, NEW b \in BOOLEAN
  PROVE  /\ LET w == [v EXCEPT !.active = b] IN w \in Stream /\ SameCounts(v, w)
         /\ LET w == [v EXCEPT !.fin_requested = b] IN w \in Stream /\ SameCounts(v, w)
         /\ LET w == [v EXCEPT !.fin_sent = b] IN w \in Stream /\ SameCounts(v, w)
<1>1. LET w == [v EXCEPT !.active = b] IN w \in Stream /\ SameCounts(v, w)
  BY DEF Stream, SameCounts
<1>2. LET w == [v EXCEPT !.fin_requested = b] IN w \in Stream /\ SameCounts(v, w)
  BY DEF Stream, SameCounts
<1>3. LET w == [v EXCEPT !.fin_sent = b] IN w \in Stream /\ SameCounts(v, w)
  BY DEF Stream, SameCounts
<1> QED BY <1>1, <1>2, <1>3

LEMMA AddToStreamKeeps ==
  ASSUME IInv, NEW s \in Streams, NEW n \in 0 .. MaxBytes, NEW fin \in BOOLEAN,
         AddToStream(s, n, fin)
  PROVE  IInv'
<1> DEFINE r == [st[s] EXCEPT !.fin_requested = @ \/ fin]
           w == [r EXCEPT !.queue = @ + n, !.active = FALSE]
<1>1. st[s] \in Stream /\ Written(s) + n <= MaxBytes /\ Written(s) <= MaxBytes
      /\ ~st[s].fin_requested /\ MaxBytes \in Nat
  BY OutputStreamsAssumption DEF IInv, TypeOK, AddToStream
<1>2. r \in Stream /\ r.sent = st[s].sent /\ r.queue = st[s].queue
      /\ r.priority = st[s].priority /\ r.maxdata_remote = st[s].maxdata_remote
      /\ r.stop_received = st[s].stop_received /\ r.reset_sent = st[s].reset_sent
      /\ r.active = st[s].active /\ r.fin_sent = st[s].fin_sent
      /\ (st[s].fin_requested => r.fin_requested)
  BY <1>1 DEF Stream
<1> HIDE DEF r
<1>3. w \in Stream /\ w.sent = r.sent /\ w.queue = r.queue + n
      /\ w.priority = r.priority /\ w.maxdata_remote = r.maxdata_remote
  <2>1. r.queue + n \in 0 .. MaxBytes
    BY <1>1, <1>2 DEF Stream, Written
  <2> DEFINE q == r.queue + n
  <2> HIDE DEF q
  <2>2. q \in 0 .. MaxBytes
    BY <2>1 DEF q
  <2> DEFINE v == [r EXCEPT !.queue = q]
  <2>3. v \in Stream /\ v.sent = r.sent /\ v.queue = q
        /\ v.priority = r.priority /\ v.maxdata_remote = r.maxdata_remote
    BY <1>2, <2>2 DEF Stream
  <2>4. w = [v EXCEPT !.active = FALSE]
    BY DEF q
  <2> HIDE DEF v, w
  <2>5. w \in Stream /\ w.sent = v.sent /\ w.queue = v.queue
        /\ w.priority = v.priority /\ w.maxdata_remote = v.maxdata_remote
    BY <2>3, <2>4, FlagsAre DEF SameCounts
  <2> QED BY <2>3, <2>5 DEF q
<1>4. st[s].sent \in Nat /\ st[s].queue \in Nat
  BY <1>1 DEF Stream
<1>5. CASE r.reset_sent \/ r.stop_received
  <2>1. Write(s, r) /\ out' = out
    BY <1>5 DEF AddToStream, r
  <2>2. st' = [st EXCEPT ![s] = r] /\ st'[s] = r
    BY <2>1 DEF Write, IInv, TypeOK
  <2> DEFINE u == [st EXCEPT ![s] = r]
  <2>3. u[s] = r
    BY DEF IInv, TypeOK
  <2> HIDE DEF u
  <2>4. HasData(st, max_stream_id, s) => HasData(u, max_stream_id, s)
    BY <1>2, <2>3 DEF HasData
  <2>5. HasData(u, max_stream_id, s) => r.stop_received
    BY <1>2, <1>5, <2>3 DEF HasData
  <2>6. ListOK(st', max_stream_id, out')
    BY <1>2, <2>1, <2>2, <2>4, <2>5, KeptList DEF u
  <2> QED BY <1>1, <1>2, <1>4, <2>1, <2>6, WriteKeeps DEF Written
<1>6. CASE ~(r.reset_sent \/ r.stop_received)
  <2>1. Write(s, w) /\ out' = UpdateOutput(st', max_stream_id, out, s)
    BY <1>6 DEF AddToStream, r
  <2> HIDE DEF w
  <2>2. st' = [st EXCEPT ![s] = w]
    BY <2>1 DEF Write
  <2>3. ListOK(st', max_stream_id, out')
    BY <1>2, <1>3, <2>1, <2>2, UpdatedList
  <2>4. w.sent + w.queue <= MaxBytes
    BY <1>1, <1>2, <1>3, <1>4 DEF Written
  <2> QED BY <1>2, <1>3, <2>1, <2>3, <2>4, WriteKeeps
<1> QED BY <1>5, <1>6

(* A call that writes the stream and then inserts or removes it.           *)
LEMMA UpdateKeeps ==
  ASSUME IInv, NEW s \in Streams, NEW r \in Stream, Write(s, r),
         out' = UpdateOutput(st', max_stream_id, out, s), r.priority = st[s].priority,
         r.sent + r.queue <= MaxBytes, r.maxdata_remote = st[s].maxdata_remote \/ received
  PROVE  IInv'
<1>1. st' = [st EXCEPT ![s] = r]
  BY DEF Write
<1>2. ListOK(st', max_stream_id, out')
  BY <1>1, UpdatedList
<1> QED BY <1>2, WriteKeeps

LEMMA MarkKeeps ==
  ASSUME IInv, NEW s \in Streams, MarkActive(s) \/ MarkInactive(s)
  PROVE  IInv'
<1>1. st[s] \in Stream /\ Written(s) <= MaxBytes
  BY DEF IInv, TypeOK
<1>2. PICK b \in BOOLEAN : /\ Write(s, [st[s] EXCEPT !.active = b])
                          /\ out' = UpdateOutput(st', max_stream_id, out, s)
  BY DEF MarkActive, MarkInactive
<1> DEFINE r == [st[s] EXCEPT !.active = b]
<1>3. r \in Stream /\ r.priority = st[s].priority /\ r.sent = st[s].sent
      /\ r.queue = st[s].queue /\ r.maxdata_remote = st[s].maxdata_remote
  BY <1>1 DEF Stream
<1>4. Write(s, r)
  BY <1>2
<1> HIDE DEF r
<1> QED BY <1>1, <1>2, <1>3, <1>4, UpdateKeeps DEF Written

LEMMA ResetStreamKeeps ==
  ASSUME IInv, NEW s \in Streams, ResetStream(s)
  PROVE  IInv'
<1>1. st[s] \in Stream /\ Written(s) <= MaxBytes /\ MaxBytes \in Nat
  BY OutputStreamsAssumption DEF IInv, TypeOK
<1> DEFINE r == [st[s] EXCEPT !.reset_sent = TRUE, !.queue = 0]
<1>2. r \in Stream /\ r.priority = st[s].priority /\ r.sent = st[s].sent
      /\ r.queue = 0 /\ r.maxdata_remote = st[s].maxdata_remote
  <2> DEFINE v == [st[s] EXCEPT !.reset_sent = TRUE]
  <2>1. v \in Stream /\ v.priority = st[s].priority /\ v.sent = st[s].sent
        /\ v.maxdata_remote = st[s].maxdata_remote
    BY <1>1 DEF Stream
  <2>2. r = [v EXCEPT !.queue = 0]
    OBVIOUS
  <2> HIDE DEF v, r
  <2>3. 0 \in 0 .. MaxBytes
    BY <1>1
  <2>4. r \in Stream /\ r.priority = v.priority /\ r.sent = v.sent
        /\ r.queue = 0 /\ r.maxdata_remote = v.maxdata_remote
    BY <2>1, <2>2, <2>3 DEF Stream
  <2> QED BY <2>1, <2>4
<1>3. Write(s, r) /\ out' = UpdateOutput(st', max_stream_id, out, s)
  BY DEF ResetStream
<1> HIDE DEF r
<1>4. r.sent + r.queue <= MaxBytes
  BY <1>1, <1>2 DEF Written, Stream
<1> QED BY <1>2, <1>3, <1>4, UpdateKeeps

LEMMA MaxStreamDataKeeps ==
  ASSUME IInv, NEW s \in Streams, NEW v \in StreamCredits, MaxStreamData(s, v)
  PROVE  IInv'
<1>1. st[s] \in Stream /\ Written(s) <= MaxBytes /\ v \in Nat
  BY OutputStreamsAssumption DEF IInv, TypeOK
<1> DEFINE r == [st[s] EXCEPT !.maxdata_remote = v]
<1>2. r \in Stream /\ r.priority = st[s].priority /\ r.sent = st[s].sent
      /\ r.queue = st[s].queue
  BY <1>1 DEF Stream
<1>3. Write(s, r) /\ out' = UpdateOutput(st', max_stream_id, out, s) /\ received
  BY DEF MaxStreamData
<1> HIDE DEF r
<1> QED BY <1>1, <1>2, <1>3, UpdateKeeps DEF Written

LEMMA SetPriorityKeeps ==
  ASSUME IInv, NEW s \in Streams, NEW p \in Priorities, SetPriority(s, p)
  PROVE  IInv'
<1>1. /\ st \in [Streams -> Stream] /\ st[s] \in Stream /\ Written(s) <= MaxBytes
      /\ p \in 0 .. 255
      /\ Lines(st, out, ToSet(out)) /\ Exact(st, max_stream_id, ToSet(out))
  BY OutputStreamsAssumption DEF IInv, TypeOK, ListOK
<1> DEFINE r == [st[s] EXCEPT !.priority = p]
<1>2. r \in Stream /\ r.sent = st[s].sent /\ r.queue = st[s].queue
      /\ r.maxdata_remote = st[s].maxdata_remote /\ r.active = st[s].active
      /\ r.fin_requested = st[s].fin_requested /\ r.fin_sent = st[s].fin_sent
      /\ r.reset_sent = st[s].reset_sent /\ r.stop_received = st[s].stop_received
  BY <1>1 DEF Stream
<1>3. Write(s, r) /\ out' = Reorder(st', max_stream_id, out, s)
  BY DEF SetPriority
<1> HIDE DEF r
<1>4. /\ st' \in [Streams -> Stream] /\ st'[s] = r
      /\ \A x \in Streams \ {s} : st'[x] = st[x]
  BY <1>1, <1>2, <1>3 DEF Write
<1>5. Sendable(st', max_stream_id) = Sendable(st, max_stream_id)
  BY <1>2, <1>4 DEF Sendable, HasData
<1>6. Lines(st', out', ToSet(out))
  <2> DEFINE u == st'
             S == ToSet(out)
  <2>1. u \in [Streams -> Stream] /\ \A x \in Streams \ {s} : u[x].priority = st[x].priority
    BY <1>4
  <2>2. s \in S => s \in Sendable(u, max_stream_id)
    BY <1>1, <1>5 DEF Exact
  <2>3. out' = Reorder(u, max_stream_id, out, s)
    BY <1>3
  <2> HIDE DEF u, S
  <2>4. Lines(u, out', S)
    BY <1>1, <2>1, <2>2, <2>3, ReorderLines DEF S
  <2> QED BY <2>4 DEF u, S
<1>7. ListOK(st', max_stream_id, out')
  <2>1. ToSet(out') = ToSet(out)
    BY <1>6 DEF Lines
  <2>2. \A x \in Streams : st'[x].stop_received = st[x].stop_received
    BY <1>2, <1>4
  <2>3. Exact(st', max_stream_id, ToSet(out'))
    BY <1>1, <1>5, <2>1, <2>2 DEF Exact, Sendable
  <2> QED BY <1>6, <2>1, <2>3 DEF ListOK
<1> QED BY <1>1, <1>2, <1>3, <1>7, WriteKeeps DEF Written

LEMMA StopSendingKeeps ==
  ASSUME IInv, NEW s \in Streams, StopSending(s)
  PROVE  IInv'
<1>1. st \in [Streams -> Stream] /\ st[s] \in Stream /\ Written(s) <= MaxBytes
  BY DEF IInv, TypeOK
<1> DEFINE r == [st[s] EXCEPT !.stop_received = TRUE]
           u == [st EXCEPT ![s] = r]
<1>2. r \in Stream /\ r.sent = st[s].sent /\ r.queue = st[s].queue
      /\ r.maxdata_remote = st[s].maxdata_remote /\ r.active = st[s].active
      /\ r.fin_requested = st[s].fin_requested /\ r.fin_sent = st[s].fin_sent
      /\ r.reset_sent = st[s].reset_sent /\ r.priority = st[s].priority /\ r.stop_received
  BY <1>1 DEF Stream
<1>3. Write(s, r) /\ out' = out
  BY DEF StopSending
<1> HIDE DEF r
<1>4. u[s] = r
  BY <1>1
<1>5. st' = u
  BY <1>3 DEF Write
<1> HIDE DEF u
<1>6. HasData(st, max_stream_id, s) => HasData(u, max_stream_id, s)
  BY <1>2, <1>4 DEF HasData
<1>7. ListOK(st', max_stream_id, out')
  BY <1>2, <1>3, <1>5, <1>6, KeptList DEF u
<1> QED BY <1>1, <1>2, <1>3, <1>7, WriteKeeps DEF Written

LEMMA MaxDataFrameKeeps ==
  ASSUME IInv, NEW v \in DataCredits, MaxDataFrame(v)
  PROVE  IInv'
<1>1. v \in Nat
  BY OutputStreamsAssumption
<1> QED BY <1>1 DEF IInv, TypeOK, MaxDataFrame, Written
-----------------------------------------------------------------------------
(* A frame on the first listed stream.                                     *)
LEMMA FirstIsFound ==
  ASSUME IInv, NEW s \in Streams, Found(s)
  PROVE  /\ s \in ToSet(out) /\ out[1] = s /\ 1 \in DOMAIN out
         /\ s \in Sendable(st, max_stream_id) /\ Kept(s) = out
<1>1. out \in Lists /\ \A r \in ToSet(out) : r \in Sendable(st, max_stream_id)
  BY DEF IInv, ListOK, Lines, Exact
<1>2. PICK i \in DOMAIN out : out[i] = s /\ \A j \in 1 .. i - 1 : ~HasData(st, max_stream_id, out[j])
  BY DEF Found
<1>3. i \in 1 .. Len(out) /\ Len(out) \in Nat /\ DOMAIN out = 1 .. Len(out)
  BY <1>1, <1>2 DEF Lists
<1>4. i = 1
  <2> SUFFICES ASSUME i # 1 PROVE FALSE
    OBVIOUS
  <2>1. 1 \in 1 .. i - 1 /\ 1 \in DOMAIN out
    BY <1>3
  <2>2. out[1] \in ToSet(out)
    BY <2>1 DEF ToSet
  <2> QED BY <1>1, <1>2, <2>1, <2>2 DEF Sendable
<1>5. s \in ToSet(out)
  BY <1>2 DEF ToSet
<1>6. Kept(s) = out
  BY <1>1, NothingPassed DEF Sendable
<1> QED BY <1>1, <1>2, <1>3, <1>4, <1>5, <1>6

LEMMA FrameKeeps ==
  ASSUME IInv, NEW s \in Streams, Found(s), NEW n \in 0 .. MaxBytes, NEW r \in Stream,
         Frame(s, n, r), r.priority = st[s].priority, r.maxdata_remote = st[s].maxdata_remote,
         r.sent + n + r.queue <= MaxBytes
  PROVE  IInv'
<1> DEFINE w == [r EXCEPT !.sent = @ + n, !.last = IF n > 0 THEN now' ELSE @]
           S == ToSet(out)
<1>1. /\ st \in [Streams -> Stream] /\ now' \in Nat /\ MaxBytes \in Nat
      /\ Lines(st, out, S) /\ Exact(st, max_stream_id, S)
  BY OutputStreamsAssumption DEF IInv, TypeOK, Frame, ListOK
<1>2. w \in Stream /\ w.sent = r.sent + n /\ w.queue = r.queue
      /\ w.priority = r.priority /\ w.maxdata_remote = r.maxdata_remote
  <2> DEFINE m == r.sent + n
             at == IF n > 0 THEN now' ELSE r.last
             v == [r EXCEPT !.sent = m]
  <2>1. m \in 0 .. MaxBytes /\ at \in Nat
    BY <1>1 DEF Stream
  <2>2. w = [v EXCEPT !.last = at]
    BY DEF Stream
  <2> HIDE DEF m, at
  <2>3. v \in Stream /\ v.sent = m /\ v.queue = r.queue
        /\ v.priority = r.priority /\ v.maxdata_remote = r.maxdata_remote
    BY <2>1 DEF Stream
  <2> HIDE DEF v, w
  <2>4. w \in Stream /\ w.sent = v.sent /\ w.queue = v.queue
        /\ w.priority = v.priority /\ w.maxdata_remote = v.maxdata_remote
    BY <2>1, <2>2, <2>3 DEF Stream
  <2> QED BY <2>3, <2>4 DEF m
<1>3. st' = [st EXCEPT ![s] = w]
  BY DEF Frame
<1>4. /\ out' = ReorderAfterSend(st', max_stream_id, Kept(s), s, st[s].last)
      /\ max_stream_id' = max_stream_id /\ created' = created /\ received' = received
      /\ granted' = granted /\ maxdata_remote' = maxdata_remote
      /\ data_sent' = data_sent + n
  BY DEF Frame
<1>5. s \in S /\ s \in Sendable(st, max_stream_id) /\ Kept(s) = out
  BY FirstIsFound
<1> HIDE DEF w, S
<1>6. /\ st' \in [Streams -> Stream] /\ st'[s] = w
      /\ \A x \in Streams \ {s} :
           /\ st'[x] = st[x]
           /\ x \in Sendable(st', max_stream_id) <=> x \in Sendable(st, max_stream_id)
  BY <1>1, <1>2, <1>3, OthersSame
<1> DEFINE u == st'
           T == IF HasData(u, max_stream_id, s) THEN S ELSE S \ {s}
<1>7. Lines(u, out, S)
  <2>1. \A x \in Streams : u[x].priority = st[x].priority
    BY <1>2, <1>6
  <2>2. ToSet(out) \subseteq Streams
    BY <1>1 DEF Exact, Sendable, S
  <2> QED BY <1>1, <2>1, <2>2, SortedSame DEF Lines
<1>8. Lines(u, out', T)
  <2> HIDE DEF u
  <2> QED BY <1>4, <1>5, <1>6, <1>7, AfterSendLines DEF u
<1>9. ListOK(st', max_stream_id, out')
  <2>1. ToSet(out') = T
    BY <1>8 DEF Lines
  <2>2. Exact(st', max_stream_id, T)
    <3>1. s \in Sendable(st', max_stream_id) <=> HasData(st', max_stream_id, s)
      BY <1>5 DEF Sendable
    <3>2. \A x \in Streams \ {s} : st'[x].stop_received = st[x].stop_received
      BY <1>6
    <3>3. T = IF s \in Sendable(st', max_stream_id) THEN S ELSE S \ {s}
      BY <3>1
    <3>4. Sendable(st, max_stream_id) \subseteq Streams /\ Sendable(st', max_stream_id) \subseteq Streams
      BY DEF Sendable
    <3> HIDE DEF T
    <3> QED BY <1>1, <1>5, <1>6, <3>2, <3>3, <3>4 DEF Exact
  <2> QED BY <1>8, <2>1, <2>2 DEF ListOK
<1>10. TypeOK'
  <2>1. out' \in Seq(Streams)
    BY <1>9 DEF ListOK, Lines, Lists
  <2>2. data_sent' \in Nat
    BY <1>4 DEF IInv, TypeOK
  <2> QED BY <1>1, <1>4, <1>6, <2>1, <2>2 DEF IInv, TypeOK
<1>11. (\A x \in Streams : Written(x) <= MaxBytes)'
  BY <1>2, <1>6 DEF IInv, Written
<1>12. Fresh(st, created)'
  <2>1. ~(s >= created)
    BY <1>5 DEF IInv, Fresh, Sendable, HasData, TypeOK, Stream
  <2> QED BY <1>4, <1>6, <2>1 DEF IInv, Fresh
<1>13. (~received => \A x \in Streams : st[x].maxdata_remote = 0)'
  BY <1>2, <1>4, <1>6 DEF IInv
<1> QED BY <1>4, <1>9, <1>10, <1>11, <1>12, <1>13 DEF IInv

LEMMA SendKeeps ==
  ASSUME IInv, Send
  PROVE  IInv'
<1>1. PICK s \in Streams :
        /\ Found(s)
        /\ \E n \in 0 .. MaxBytes : \/ \E fin, still \in BOOLEAN : SendPolled(s, n, fin, still)
                                    \/ SendQueued(s, n)
  BY DEF Send
<1>2. st[s] \in Stream /\ Written(s) <= MaxBytes /\ MaxBytes \in Nat
  BY OutputStreamsAssumption DEF IInv, TypeOK
<1>3. st[s].sent \in Nat /\ st[s].queue \in Nat
  BY <1>2 DEF Stream
<1>4. ASSUME NEW n \in 0 .. MaxBytes, NEW fin \in BOOLEAN, NEW still \in BOOLEAN,
             SendPolled(s, n, fin, still)
      PROVE  IInv'
  <2> DEFINE r == [st[s] EXCEPT !.active = still, !.fin_requested = fin, !.fin_sent = fin]
  <2>1. r \in Stream /\ r.priority = st[s].priority /\ r.sent = st[s].sent
        /\ r.queue = st[s].queue /\ r.maxdata_remote = st[s].maxdata_remote
    <3> DEFINE a == [st[s] EXCEPT !.active = still]
               b == [a EXCEPT !.fin_requested = fin]
    <3>1. a \in Stream /\ SameCounts(st[s], a)
      BY <1>2, FlagsAre
    <3>2. r = [b EXCEPT !.fin_sent = fin]
      OBVIOUS
    <3> HIDE DEF a, r
    <3>3. b \in Stream /\ SameCounts(a, b)
      BY <3>1, FlagsAre
    <3> HIDE DEF b
    <3>4. r \in Stream /\ SameCounts(b, r)
      BY <3>2, <3>3, FlagsAre
    <3> QED BY <3>1, <3>3, <3>4 DEF SameCounts
  <2>2. Frame(s, n, r) /\ Written(s) + n <= MaxBytes
    BY <1>4 DEF SendPolled
  <2> HIDE DEF r
  <2>3. r.sent + n + r.queue <= MaxBytes
    BY <1>2, <1>3, <2>1, <2>2 DEF Written
  <2> QED BY <1>1, <2>1, <2>2, <2>3, FrameKeeps
<1>5. ASSUME NEW n \in 0 .. MaxBytes, SendQueued(s, n)
      PROVE  IInv'
  <2> DEFINE fin == st[s].fin_sent \/ (n = st[s].queue /\ st[s].fin_requested)
             m == st[s].queue - n
             v == [st[s] EXCEPT !.queue = m]
             r == [st[s] EXCEPT !.queue = @ - n,
                     !.fin_sent = @ \/ (n = st[s].queue /\ st[s].fin_requested)]
  <2>1. n <= st[s].queue
    <3> DEFINE B == {Room(s), st[s].queue}
    <3>1. n <= Min(B)
      BY <1>5 DEF SendQueued
    <3>2. Room(s) \in Int
      <4>1. st[s].maxdata_remote - st[s].sent \in Int /\ maxdata_remote - data_sent \in Int
        BY <1>2, <1>3 DEF Stream, IInv, TypeOK
      <4> DEFINE a == st[s].maxdata_remote - st[s].sent
                 b == maxdata_remote - data_sent
      <4>2. Room(s) = Min({a, b})
        BY DEF Room
      <4> HIDE DEF a, b
      <4>3. a \in Int /\ b \in Int
        BY <4>1 DEF a, b
      <4>4. \E x \in {a, b} : \A y \in {a, b} : x =< y
        BY <4>3
      <4>5. Min({a, b}) \in {a, b}
        BY <4>4, Zenon DEF Min
      <4> QED BY <4>2, <4>3, <4>5
    <3>3. \E x \in B : \A y \in B : x =< y
      BY <1>3, <3>2
    <3>4. Min(B) \in B /\ \A y \in B : Min(B) =< y
      <4> HIDE DEF B
      <4> QED BY <3>3, Zenon DEF Min
    <3>5. Min(B) \in Int /\ Min(B) =< st[s].queue
      BY <1>3, <3>2, <3>4
    <3> HIDE DEF B
    <3> QED BY <1>3, <3>1, <3>5
  <2>2. r \in Stream /\ r.priority = st[s].priority /\ r.sent = st[s].sent
        /\ r.queue = st[s].queue - n /\ r.maxdata_remote = st[s].maxdata_remote
    <3>1. m \in 0 .. MaxBytes /\ fin \in BOOLEAN
      BY <1>2, <1>3, <2>1 DEF Stream
    <3>2. r = [v EXCEPT !.fin_sent = fin]
      BY <1>2 DEF Stream
    <3> HIDE DEF m, fin, r
    <3>3. v \in Stream /\ v.priority = st[s].priority /\ v.sent = st[s].sent
          /\ v.queue = m /\ v.maxdata_remote = st[s].maxdata_remote
      BY <1>2, <3>1 DEF Stream
    <3> HIDE DEF v
    <3>4. r \in Stream /\ r.priority = v.priority /\ r.sent = v.sent
          /\ r.queue = v.queue /\ r.maxdata_remote = v.maxdata_remote
      BY <3>1, <3>2, <3>3 DEF Stream
    <3> QED BY <3>3, <3>4 DEF m
  <2>3. Frame(s, n, r)
    BY <1>5 DEF SendQueued
  <2> HIDE DEF r
  <2>4. r.sent + n + r.queue <= MaxBytes
    BY <1>2, <1>3, <2>2 DEF Written
  <2> QED BY <1>1, <2>2, <2>3, <2>4, FrameKeeps
<1> QED BY <1>1, <1>4, <1>5
-----------------------------------------------------------------------------
(* Only a stream that exists has something to send.                        *)
LEMMA SendableExists ==
  ASSUME NEW t \in [Streams -> Stream], NEW lim, NEW n \in Nat, Fresh(t, n),
         NEW s \in Sendable(t, lim)
  PROVE  s \in Streams /\ s < n
<1>1. s \in Streams /\ HasData(t, lim, s)
  BY DEF Sendable
<1>2. ~(s >= n)
  BY <1>1 DEF Fresh, HasData
<1> QED BY <1>1, <1>2 DEF Streams

(* What a limit that is the id of stream k allows of what a higher one     *)
(* allows.                                                                 *)
LEMMA SendableBelow ==
  ASSUME Unidir = FALSE, NEW t, NEW k \in Streams, NEW new \in Int, 4 * k <= new
  PROVE  Sendable(t, 4 * k) = {s \in Sendable(t, new) : s <= k}
<1>1. \A s \in Streams : Id(s) = 4 * s /\ s \in Int
  <2>1. \A s \in Streams : s \in Int
    BY DEF Streams
  <2> QED BY <2>1, IdsAre
<1>2. k \in Int
  BY DEF Streams
<1>3. \A s \in Streams : (Allowed(4 * k, s) <=> s <= k) /\ (s <= k => Allowed(new, s))
  BY <1>1, <1>2 DEF Allowed
<1>4. \A s \in Streams : s <= k => (HasData(t, 4 * k, s) <=> HasData(t, new, s))
  BY <1>3 DEF HasData
<1> QED BY <1>3, <1>4 DEF Sendable

(* Above a limit that is the id of stream k, the walk lists every stream   *)
(* that may send: if stream k + 1 does not exist, none above it does.      *)
LEMMA AddsAbove ==
  ASSUME Unidir = FALSE, created \in 0 .. MaxStreams,
         NEW t \in [Streams -> Stream], Fresh(t, created),
         NEW l, NEW S, Lines(t, l, S), NEW k \in Streams, NEW new \in Int
  PROVE  Lines(t, AddOutputStreams(t, l, 4 * k, new),
               S \cup {s \in Sendable(t, new) : s > k})
<1> DEFINE first == IdFromRank((4 * k + 4) \div 4 + 1)
           walked == {s \in Streams : /\ s < created
                                      /\ first <= Id(s) /\ 4 * k < Id(s) /\ Id(s) <= new}
           starts == \E s \in Streams : s < created /\ Id(s) = first
           above == {s \in Sendable(t, new) : s > k}
<1>1. /\ MaxStreams \in Nat /\ created \in Nat /\ k \in Nat /\ k < MaxStreams
      /\ \A s \in Streams : s \in Nat /\ s < MaxStreams /\ Id(s) = 4 * s
  <2>1. \A s \in Streams : s \in Nat /\ s < MaxStreams
    BY OutputStreamsAssumption DEF Streams
  <2>2. MaxStreams \in Nat /\ created \in Nat /\ k \in Nat /\ k < MaxStreams
    BY <2>1, OutputStreamsAssumption
  <2>3. \A s \in Streams : Id(s) = 4 * s
    BY IdsAre
  <2> QED BY <2>1, <2>2, <2>3, Zenon
<1>2. first = 4 * (k + 1)
  <2>1. (4 * k + 4) \div 4 + 1 = k + 2
    BY <1>1
  <2>2. k + 2 \in 1 .. MaxStreams + 1 /\ (k + 2) - 1 = k + 1
    BY <1>1
  <2>3. IdFromRank(k + 2) = 4 * ((k + 2) - 1)
    BY <2>2, IdsAre
  <2> QED BY <2>1, <2>2, <2>3
<1>3. Lines(t, AddOutputStreams(t, l, 4 * k, new),
            IF starts THEN S \cup (walked \cap Sendable(t, new)) ELSE S)
  BY AddWalk
<1> HIDE DEF first
<1>4. \A s \in Sendable(t, new) : s \in Streams /\ s < created /\ Id(s) <= new
  BY <1>1, SendableExists DEF Sendable, Allowed
<1>5. CASE starts
  <2>1. walked \cap Sendable(t, new) = above
    <3>1. ASSUME NEW s \in Sendable(t, new)
          PROVE  s > k <=> first <= Id(s) /\ 4 * k < Id(s)
      <4>1. Id(s) = 4 * s /\ s \in Nat
        BY <1>1, <1>4
      <4> QED BY <1>1, <1>2, <4>1
    <3> QED BY <1>4, <3>1
  <2> QED BY <1>3, <1>5, <2>1
<1>6. CASE ~starts
  <2>1. ASSUME NEW s \in above
        PROVE  FALSE
    <3>1. s \in Streams /\ s < created /\ s > k
      BY <1>4
    <3>2. k + 1 \in Streams /\ k + 1 < created
      BY <1>1, <3>1 DEF Streams
    <3>3. Id(k + 1) = first
      BY <1>1, <1>2, <3>2
    <3> QED BY <1>6, <3>2, <3>3
  <2>2. S \cup above = S
    BY <2>1
  <2> QED BY <1>3, <1>6, <2>2
<1> QED BY <1>5, <1>6

LEMMA LimitsAre ==
  ASSUME Unidir = FALSE, NEW n \in 0 .. MaxStreams
  PROVE  /\ IdFromRank(n) \in 0 .. IdSpan - 1 /\ LimitOK(IdFromRank(n))
         /\ LimitOK(0) /\ 0 \in Streams /\ 0 \in 0 .. IdSpan - 1
<1>1. MaxStreams \in Nat \ {0} /\ IdSpan \in Nat /\ IdSpan > 4 * (MaxStreams + 1)
  BY OutputStreamsAssumption
<1>2. 0 \in Streams /\ LimitOK(0) /\ 0 \in 0 .. IdSpan - 1
  BY <1>1 DEF Streams, LimitOK
<1>3. CASE n = 0
  <2>1. IdFromRank(n) = IdSpan - 4
    BY <1>3, IdsAre
  <2> QED BY <1>1, <1>2, <2>1 DEF LimitOK
<1>4. CASE n # 0
  <2>1. IdFromRank(n) = 4 * (n - 1)
    <3>1. n \in 1 .. MaxStreams + 1
      BY <1>1, <1>4
    <3> QED BY <3>1, IdsAre
  <2>2. n - 1 \in Streams
    BY <1>1, <1>4 DEF Streams
  <2>3. 4 * (n - 1) \in 0 .. IdSpan - 1
    BY <1>1, <1>4
  <2> QED BY <1>2, <2>1, <2>2, <2>3 DEF LimitOK
<1> QED BY <1>3, <1>4

LEMMA EmptyLines ==
  ASSUME NEW t, NEW l, Lines(t, l, {})
  PROVE  l = <<>>
<1>1. l \in Seq(Streams) /\ ToSet(l) = {}
  BY DEF Lines, Lists
<1>2. Len(l) = 0
  <2> SUFFICES ASSUME Len(l) # 0 PROVE FALSE
    OBVIOUS
  <2>1. 1 \in DOMAIN l
    BY <1>1
  <2> QED BY <1>1, <2>1 DEF ToSet
<1> QED BY <1>1, <1>2

(* In whatever order the server wrote its parameters.                      *)
LEMMA TransportParametersKeep ==
  ASSUME IInv, Unidir = FALSE, NEW credit \in StreamCredits, NEW data \in DataCredits,
         NEW n \in StreamGrants \cup {-1}, NEW streamsFirst \in BOOLEAN,
         TransportParameters(credit, data, n, streamsFirst)
  PROVE  IInv'
<1> DEFINE t == [s \in Streams |-> [st[s] EXCEPT !.maxdata_remote = credit]]
           lim == IF n = -1 THEN 0 ELSE IdFromRank(n)
<1>1. /\ credit \in Nat /\ data \in Nat /\ n \in 0 .. MaxStreams \cup {-1}
      /\ MaxStreams \in Nat
  BY OutputStreamsAssumption
<1>2. /\ st \in [Streams -> Stream] /\ created \in 0 .. MaxStreams /\ created \in Nat
      /\ Lines(st, out, ToSet(out)) /\ Exact(st, max_stream_id, ToSet(out))
      /\ Fresh(st, created)
  BY <1>1 DEF IInv, TypeOK, ListOK
<1>3. /\ received' = TRUE /\ st' = t /\ maxdata_remote' = data /\ max_stream_id' = lim
      /\ granted' = Max({n, 0}) /\ created' = created /\ data_sent' = data_sent /\ now' = now
      /\ \A s \in Streams : st[s].maxdata_remote = 0
  BY DEF TransportParameters, IInv
<1>4. out' = IF n = -1 THEN UpdateOutputs(t, 0, out)
             ELSE IF streamsFirst
             THEN UpdateOutputs(t, lim, AddOutputStreams(st, out, 0, lim))
             ELSE AddOutputStreams(t, UpdateOutputs(t, 0, out), 0, lim)
  BY Zenon DEF TransportParameters
<1>5. /\ t \in [Streams -> Stream]
      /\ \A s \in Streams : /\ t[s].active = st[s].active /\ t[s].queue = st[s].queue
                            /\ t[s].fin_requested = st[s].fin_requested
                            /\ t[s].sent = st[s].sent
  BY <1>1, <1>2 DEF Stream
<1>6. Fresh(t, created)
  BY <1>2, <1>5 DEF Fresh
<1>7. lim \in 0 .. IdSpan - 1 /\ LimitOK(lim) /\ 0 \in Streams
  <2>1. 0 \in 0 .. MaxStreams
    BY <1>1
  <2> QED BY <1>1, <2>1, LimitsAre
<1> HIDE DEF t, lim
<1>8. \A x : Sendable(st, x) = {}
  BY <1>2, <1>3 DEF Sendable, HasData, Stream
<1>9. out = <<>>
  <2>1. Lines(st, out, {})
    BY <1>2, <1>8 DEF Exact
  <2> QED BY <2>1, EmptyLines
<1>10. \A x : Lines(t, UpdateOutputs(t, x, <<>>), Sendable(t, x))
  <2> TAKE x
  <2>1. \A s \in Sendable(t, x) : s < created
    BY <1>2, <1>5, <1>6, SendableExists
  <2>2. {s \in Sendable(t, x) : s < created} = Sendable(t, x)
    BY <2>1
  <2> QED BY <1>2, <1>5, <2>2, UpdateWalk
<1>11. Lines(t, out', Sendable(t, lim))
  <2>1. CASE n = -1
    <3>1. lim = 0
      BY <2>1 DEF lim
    <3> QED BY <1>4, <1>9, <1>10, <2>1, <3>1
  <2>2. CASE n # -1 /\ streamsFirst
    <3> DEFINE k == AddOutputStreams(st, <<>>, 0, lim)
    <3>1. out' = UpdateOutputs(t, lim, k)
      BY <1>4, <1>9, <2>2
    <3>2. k = <<>>
      <4>1. lim \in Int /\ 4 * 0 = 0
        BY <1>7
      <4>2. Lines(st, k, {} \cup {s \in Sendable(st, lim) : s > 0})
        BY <1>2, <1>7, <4>1, NoLines, AddsAbove
      <4>3. {} \cup {s \in Sendable(st, lim) : s > 0} = {}
        BY <1>8
      <4> HIDE DEF k
      <4> QED BY <4>2, <4>3, EmptyLines
    <3> HIDE DEF k
    <3> QED BY <1>10, <3>1, <3>2
  <2>3. CASE n # -1 /\ ~streamsFirst
    <3> DEFINE k == UpdateOutputs(t, 0, <<>>)
    <3>1. out' = AddOutputStreams(t, k, 0, lim)
      BY <1>4, <1>9, <2>3
    <3>2. Lines(t, k, Sendable(t, 0))
      BY <1>10
    <3> HIDE DEF k
    <3>3. lim \in Int /\ 4 * 0 = 0 /\ 4 * 0 <= lim
      BY <1>7
    <3>4. Lines(t, out', Sendable(t, 0) \cup {s \in Sendable(t, lim) : s > 0})
      BY <1>2, <1>5, <1>6, <1>7, <3>1, <3>2, <3>3, AddsAbove
    <3>5. Sendable(t, 0) = {s \in Sendable(t, lim) : s <= 0}
      <4>1. Sendable(t, 4 * 0) = {s \in Sendable(t, lim) : s <= 0}
        BY <1>7, <3>3, SendableBelow
      <4> QED BY <3>3, <4>1
    <3>6. \A s \in Sendable(t, lim) : s <= 0 \/ s > 0
      BY DEF Sendable, Streams
    <3>7. Sendable(t, 0) \cup {s \in Sendable(t, lim) : s > 0} = Sendable(t, lim)
      BY <3>5, <3>6
    <3> QED BY <3>4, <3>7
  <2> QED BY <2>1, <2>2, <2>3
<1>12. ListOK(st', max_stream_id', out')
  <2>1. ToSet(out') = Sendable(t, lim)
    BY <1>11 DEF Lines
  <2> QED BY <1>3, <1>11, <2>1 DEF ListOK, Exact
<1>13. TypeOK'
  <2>1. out' \in Seq(Streams)
    BY <1>11 DEF Lines, Lists
  <2>2. granted' \in 0 .. MaxStreams
    <3> DEFINE B == {n, 0}
    <3>1. \E x \in B : \A y \in B : x >= y
      BY <1>1
    <3> HIDE DEF B
    <3>2. Max(B) \in B /\ \A y \in B : Max(B) >= y
      BY <3>1, Zenon DEF Max
    <3> QED BY <1>1, <1>3, <3>2 DEF B
  <2> QED BY <1>1, <1>2, <1>3, <1>5, <1>7, <2>1, <2>2 DEF IInv, TypeOK
<1>14. (\A s \in Streams : Written(s) <= MaxBytes)'
  BY <1>3, <1>5 DEF IInv, Written
<1> QED BY <1>3, <1>6, <1>7, <1>12, <1>13, <1>14 DEF IInv

LEMMA MaxStreamsFrameKeeps ==
  ASSUME IInv, Unidir = FALSE, NEW n \in StreamGrants, MaxStreamsFrame(n)
  PROVE  IInv'
<1> DEFINE new == IdFromRank(n)
<1>1. /\ n \in 1 .. MaxStreams /\ n \in 0 .. MaxStreams /\ n \in 1 .. MaxStreams + 1
      /\ MaxStreams \in Nat /\ IdSpan \in Nat /\ IdSpan > 4 * (MaxStreams + 1)
  BY OutputStreamsAssumption DEF MaxStreamsFrame, IInv, TypeOK
<1>2. new = 4 * (n - 1) /\ new \in 0 .. IdSpan - 1 /\ LimitOK(new)
  BY <1>1, IdsAre, LimitsAre
<1>3. /\ st \in [Streams -> Stream] /\ created \in 0 .. MaxStreams
      /\ Lines(st, out, ToSet(out)) /\ Exact(st, max_stream_id, ToSet(out))
      /\ Fresh(st, created) /\ LimitOK(max_stream_id)
  BY DEF IInv, TypeOK, ListOK
<1>4. /\ st' = st /\ created' = created /\ received' = received /\ received
      /\ data_sent' = data_sent /\ maxdata_remote' = maxdata_remote /\ now' = now
      /\ granted' = n
  BY DEF MaxStreamsFrame
<1>5. /\ ListOK(st', max_stream_id', out') /\ LimitOK(max_stream_id')
      /\ max_stream_id' \in 0 .. IdSpan - 1
  <2>1. CASE ~(new > max_stream_id)
    <3>1. max_stream_id' = max_stream_id /\ out' = out
      BY <2>1 DEF MaxStreamsFrame
    <3> QED BY <1>3, <1>4, <3>1 DEF ListOK, IInv, TypeOK
  <2>2. CASE new > max_stream_id
    <3>1. max_stream_id' = new /\ out' = AddOutputStreams(st, out, max_stream_id, new)
      BY <2>2 DEF MaxStreamsFrame
    <3> HIDE DEF new
    <3>2. max_stream_id # IdSpan - 4
      BY <1>1, <1>2, <2>2
    <3>3. PICK k \in Streams : max_stream_id = 4 * k
      BY <1>3, <3>2 DEF LimitOK
    <3>4. new \in Int /\ 4 * k <= new
      BY <1>2, <2>2, <3>3 DEF Streams
    <3> DEFINE S == ToSet(out)
               above == {s \in Sendable(st, new) : s > k}
    <3>5. Lines(st, out', S \cup above)
      BY <1>3, <3>1, <3>3, <3>4, AddsAbove
    <3>6. Sendable(st, max_stream_id) = {s \in Sendable(st, new) : s <= k}
      BY <3>3, <3>4, SendableBelow
    <3>7. \A s \in Sendable(st, new) : s <= k \/ s > k
      BY DEF Sendable, Streams
    <3>8. Exact(st, new, S \cup above)
      BY <1>3, <3>6, <3>7 DEF Exact
    <3>9. ToSet(out') = S \cup above
      BY <3>5 DEF Lines
    <3> QED BY <1>2, <1>4, <3>1, <3>5, <3>8, <3>9 DEF ListOK
  <2> QED BY <2>1, <2>2
<1>6. TypeOK'
  <2>1. out' \in Seq(Streams)
    BY <1>5 DEF ListOK, Lines, Lists
  <2> QED BY <1>1, <1>4, <1>5, <2>1 DEF IInv, TypeOK
<1>7. (\A s \in Streams : Written(s) <= MaxBytes)'
  BY <1>4 DEF IInv, Written
<1> QED BY <1>4, <1>5, <1>6, <1>7 DEF IInv
-----------------------------------------------------------------------------
LEMMA InitIsGood ==
  ASSUME Init, Unidir = FALSE
  PROVE  IInv
<1>1. /\ MaxStreams \in Nat /\ MaxBytes \in Nat /\ DefaultPriority \in 0 .. 255
      /\ IdSpan \in Nat /\ IdSpan > 4 * (MaxStreams + 1)
  BY OutputStreamsAssumption
<1>2. NewStream(0) \in Stream
  BY <1>1 DEF NewStream, Stream
<1>3. \A s \in Streams : st[s] = NewStream(0)
  BY DEF Init
<1>4. TypeOK
  <2>1. max_stream_id \in 0 .. IdSpan - 1
    <3>1. 0 \in 0 .. MaxStreams
      BY <1>1
    <3> QED BY <3>1, LimitsAre DEF Init
  <2>2. out \in Seq(Streams)
    BY DEF Init
  <2>3. st \in [Streams -> Stream]
    BY <1>2 DEF Init
  <2>4. /\ created \in 0 .. MaxStreams /\ granted \in 0 .. MaxStreams
        /\ data_sent \in Nat /\ maxdata_remote \in Nat /\ now \in Nat
    BY <1>1 DEF Init
  <2>5. received \in BOOLEAN
    BY Zenon DEF Init
  <2> QED BY <2>1, <2>2, <2>3, <2>4, <2>5 DEF TypeOK
<1>5. \A s \in Streams : Written(s) <= MaxBytes
  BY <1>1, <1>3 DEF Written, NewStream
<1>6. ListOK(st, max_stream_id, out)
  <2>1. Sendable(st, max_stream_id) = {}
    BY <1>3 DEF Sendable, HasData, NewStream
  <2>2. out = <<>> /\ ToSet(<<>>) = {}
    BY DEF Init, ToSet
  <2> QED BY <2>1, <2>2, NoLines DEF ListOK, Exact
<1>7. Fresh(st, created)
  BY <1>3 DEF Fresh, NewStream
<1>8. \A s \in Streams : st[s].maxdata_remote = 0
  BY <1>3 DEF NewStream
<1>9. LimitOK(max_stream_id)
  BY IdsAre DEF Init, LimitOK
<1> QED BY <1>4, <1>5, <1>6, <1>7, <1>8, <1>9 DEF IInv

LEMMA NextIsGood ==
  ASSUME IInv, Next, Unidir = FALSE
  PROVE  IInv'
<1>1. CASE Send
  BY <1>1, SendKeeps
<1>2. CASE Peer
  <2>1. ASSUME NEW credit \in StreamCredits, NEW data \in DataCredits,
               NEW n \in StreamGrants \cup {-1}, NEW streamsFirst \in BOOLEAN,
               TransportParameters(credit, data, n, streamsFirst)
        PROVE  IInv'
    BY <2>1, TransportParametersKeep
  <2>2. ASSUME NEW s \in Streams, StopSending(s)
        PROVE  IInv'
    BY <2>2, StopSendingKeeps
  <2>3. ASSUME NEW s \in Streams, NEW v \in StreamCredits, MaxStreamData(s, v)
        PROVE  IInv'
    BY <2>3, MaxStreamDataKeeps
  <2>4. ASSUME NEW v \in DataCredits, MaxDataFrame(v)
        PROVE  IInv'
    BY <2>4, MaxDataFrameKeeps
  <2>5. ASSUME NEW n \in StreamGrants, MaxStreamsFrame(n)
        PROVE  IInv'
    BY <2>5, MaxStreamsFrameKeeps
  <2> QED BY <1>2, <2>1, <2>2, <2>3, <2>4, <2>5 DEF Peer
<1>3. ASSUME NEW s \in Streams, Application(s)
      PROVE  IInv'
  <2>1. ASSUME NEW n \in 0 .. MaxBytes, NEW fin \in BOOLEAN, AddToStream(s, n, fin)
        PROVE  IInv'
    BY <2>1, AddToStreamKeeps
  <2>2. CASE MarkActive(s) \/ MarkInactive(s)
    BY <2>2, MarkKeeps
  <2>3. ASSUME NEW p \in Priorities, SetPriority(s, p)
        PROVE  IInv'
    BY <2>3, SetPriorityKeeps
  <2>4. CASE ResetStream(s)
    BY <2>4, ResetStreamKeeps
  <2> QED BY <1>3, <2>1, <2>2, <2>3, <2>4 DEF Application
<1> QED BY <1>1, <1>2, <1>3 DEF Next

LEMMA StutterIsGood ==
  ASSUME IInv, UNCHANGED vars
  PROVE  IInv'
  BY DEF IInv, TypeOK, Written, vars

(* The invariant holds, for the streams that the client opens in both      *)
(* directions.                                                             *)
THEOREM ListIsKept == ASSUME Unidir = FALSE PROVE Spec => []IInv
<1>1. Init => IInv
  BY InitIsGood
<1>2. IInv /\ [Next]_vars => IInv'
  BY NextIsGood, StutterIsGood
<1> QED BY <1>1, <1>2, PTL DEF Spec

(* picoquic_insert_output_stream and its callers: whatever comes last of   *)
(* data, credit and limit puts a stream into the list, whatever is lost    *)
(* takes it out, and no stream is linked twice.                            *)
THEOREM ReadyIsListed == ASSUME Unidir = FALSE PROVE Spec => []ListIsReadySet
<1>1. IInv => ListIsReadySet
  BY DEF IInv, ListOK, Lines, Exact, Sendable, ListIsReadySet, Ready
<1> QED BY <1>1, ListIsKept, PTL
-----------------------------------------------------------------------------
(* Only a frame sends.                                                     *)
LEMMA OthersSendNothing ==
  ASSUME IInv, NEW s \in Streams, Peer \/ \E x \in Streams : Application(x)
  PROVE  st'[s].sent = st[s].sent
<1>1. st \in [Streams -> Stream] /\ st[s] \in Stream
  BY DEF IInv, TypeOK
<1>2. ASSUME NEW x \in Streams, NEW r, Write(x, r), r.sent = st[x].sent
      PROVE  st'[s].sent = st[s].sent
  BY <1>1, <1>2 DEF Write
<1>3. ASSUME NEW x \in Streams, Application(x)
      PROVE  st'[s].sent = st[s].sent
  <2>1. st[x] \in Stream
    BY <1>1
  <2>2. \E r : Write(x, r) /\ r.sent = st[x].sent
    <3>1. ASSUME NEW n \in 0 .. MaxBytes, NEW fin \in BOOLEAN, AddToStream(x, n, fin)
          PROVE  \E r : Write(x, r) /\ r.sent = st[x].sent
      <4> DEFINE r == [st[x] EXCEPT !.fin_requested = @ \/ fin]
                 w == [r EXCEPT !.queue = @ + n, !.active = FALSE]
      <4>1. Write(x, r) \/ Write(x, w)
        BY <3>1 DEF AddToStream
      <4>2. r.sent = st[x].sent /\ w.sent = r.sent
        BY <2>1 DEF Stream
      <4> HIDE DEF r, w
      <4> QED BY <4>1, <4>2
    <3>2. CASE MarkActive(x)
      BY <2>1, <3>2 DEF MarkActive, Stream
    <3>3. CASE MarkInactive(x)
      BY <2>1, <3>3 DEF MarkInactive, Stream
    <3>4. ASSUME NEW p \in Priorities, SetPriority(x, p)
          PROVE  \E r : Write(x, r) /\ r.sent = st[x].sent
      BY <2>1, <3>4 DEF SetPriority, Stream
    <3>5. CASE ResetStream(x)
      <4> DEFINE r == [st[x] EXCEPT !.reset_sent = TRUE, !.queue = 0]
      <4>1. Write(x, r)
        BY <3>5 DEF ResetStream
      <4>2. r.sent = st[x].sent
        BY <2>1 DEF Stream
      <4> HIDE DEF r
      <4> QED BY <4>1, <4>2
    <3> QED BY <1>3, <3>1, <3>2, <3>3, <3>4, <3>5 DEF Application
  <2> QED BY <1>2, <2>2
<1>4. CASE Peer
  <2>1. ASSUME NEW credit \in StreamCredits, NEW data \in DataCredits,
               NEW n \in StreamGrants \cup {-1}, NEW streamsFirst \in BOOLEAN,
               TransportParameters(credit, data, n, streamsFirst)
        PROVE  st'[s].sent = st[s].sent
    BY <1>1, <2>1 DEF TransportParameters, Stream
  <2>2. ASSUME NEW x \in Streams, StopSending(x)
        PROVE  st'[s].sent = st[s].sent
    <3>1. [st[x] EXCEPT !.stop_received = TRUE].sent = st[x].sent
      BY <1>1 DEF Stream
    <3> QED BY <1>2, <2>2, <3>1 DEF StopSending
  <2>3. ASSUME NEW x \in Streams, NEW v \in StreamCredits, MaxStreamData(x, v)
        PROVE  st'[s].sent = st[s].sent
    <3>1. [st[x] EXCEPT !.maxdata_remote = v].sent = st[x].sent
      BY <1>1 DEF Stream
    <3> QED BY <1>2, <2>3, <3>1 DEF MaxStreamData
  <2>4. ASSUME NEW v \in DataCredits, MaxDataFrame(v)
        PROVE  st'[s].sent = st[s].sent
    BY <2>4 DEF MaxDataFrame
  <2>5. ASSUME NEW n \in StreamGrants, MaxStreamsFrame(n)
        PROVE  st'[s].sent = st[s].sent
    BY <2>5 DEF MaxStreamsFrame
  <2> QED BY <1>4, <2>1, <2>2, <2>3, <2>4, <2>5 DEF Peer
<1> QED BY <1>3, <1>4

(* A frame carries bytes of the first listed stream, which no other that   *)
(* may send goes before.                                                   *)
LEMMA SendIsUrgent ==
  ASSUME IInv, Next, NEW s \in Streams, NEW r \in Streams,
         st'[s].sent > st[s].sent, Ready(r), ~st[r].stop_received
  PROVE  NotAfter(st, s, r)
<1>1. /\ st \in [Streams -> Stream] /\ out \in Lists /\ Sorted(st, out)
      /\ Exact(st, max_stream_id, ToSet(out)) /\ DOMAIN out = 1 .. Len(out) /\ Len(out) \in Nat
  BY DEF IInv, TypeOK, ListOK, Lines, Lists
<1>2. st[s].sent \in Nat
  BY <1>1 DEF Stream
<1>3. Send
  BY <1>2, OthersSendNothing DEF Next
<1>4. PICK x \in Streams, n \in 0 .. MaxBytes :
        Found(x) /\ \E w : Frame(x, n, w)
  BY <1>3 DEF Send, SendPolled, SendQueued
<1>5. x = s
  <2> SUFFICES ASSUME x # s PROVE FALSE
    OBVIOUS
  <2>1. st'[s] = st[s]
    BY <1>1, <1>4 DEF Frame
  <2> QED BY <1>2, <2>1
<1>6. out[1] = s /\ 1 \in DOMAIN out
  BY <1>4, <1>5, FirstIsFound
<1>7. PICK j \in DOMAIN out : out[j] = r
  <2>1. r \in Sendable(st, max_stream_id)
    BY DEF Ready, Sendable
  <2> QED BY <1>1, <2>1 DEF Exact, ToSet
<1>8. CASE j = 1
  <2>1. st[s] \in Stream
    BY <1>1
  <2>2. st[s].priority \in Int
    BY <2>1 DEF Stream
  <2> QED BY <1>6, <1>7, <1>8, <2>2 DEF NotAfter, Streams
<1>9. CASE j # 1
  <2>1. 1 < j
    BY <1>1, <1>7, <1>9
  <2> QED BY <1>1, <1>6, <1>7, <2>1, Zenon DEF Sorted
<1> QED BY <1>8, <1>9

(* SendsMostUrgent, of one step.                                           *)
Urgent ==
  \A s, r \in Streams :
    st'[s].sent > st[s].sent /\ Ready(r) /\ ~st[r].stop_received =>
      /\ st[s].priority <= st[r].priority
      /\ st[s].priority = st[r].priority /\ st[s].priority % 2 = 1 => s <= r

(* picoquic_find_ready_stream_path serves a most urgent stream, however    *)
(* priorities changed while streams were in the list: moving a stream only *)
(* when it is out of place with a neighbour keeps the list sorted.         *)
THEOREM MostUrgentFirst == ASSUME Unidir = FALSE PROVE Spec => SendsMostUrgent
<1>1. IInv /\ [Next]_vars => [Urgent]_vars
  <2> SUFFICES ASSUME IInv, Next PROVE Urgent
    OBVIOUS
  <2> SUFFICES ASSUME NEW s \in Streams, NEW r \in Streams,
                      st'[s].sent > st[s].sent, Ready(r), ~st[r].stop_received
               PROVE  /\ st[s].priority <= st[r].priority
                      /\ st[s].priority = st[r].priority /\ st[s].priority % 2 = 1 => s <= r
    BY DEF Urgent
  <2>1. NotAfter(st, s, r)
    BY SendIsUrgent
  <2>2. st[s] \in Stream /\ st[r] \in Stream
    BY DEF IInv, TypeOK
  <2>3. st[s].priority \in Int /\ st[r].priority \in Int
    BY <2>2 DEF Stream
  <2> QED BY <2>1, <2>3 DEF NotAfter
<1>2. Spec => [][Urgent]_vars
  BY <1>1, ListIsKept, PTL DEF Spec
<1> QED BY <1>2 DEF Urgent, SendsMostUrgent
=============================================================================
