------------------------ MODULE LossRecovery_proofs ------------------------
(***************************************************************************)
(* No frame is forgotten and the memory of every packet is given back      *)
(* once, for all frames, packets, windows and timers, whatever the network *)
(* does and whatever is taken for lost.                                    *)
(*                                                                         *)
(* Both rest on where a packet may be: in the list of those that wait for  *)
(* an acknowledgement, or in the list of lost packets, in the tree of data *)
(* to repeat, or in these two.  The lists are in the order of the packet   *)
(* numbers, and a packet is declared lost when none older than it waits.   *)
(***************************************************************************)
EXTENDS LossRecovery, WellFoundedInduction, TLAPS

Rising(list) == \A i, j \in DOMAIN list : i < j => list[i] < list[j]
Falling(list) == \A i, j \in DOMAIN list : i < j => list[i] > list[j]

(* The lists of a packet context, and the memory of its packets.           *)
Sound(k) ==
  /\ k \in Contexts
  /\ Rising(k.pending) /\ Falling(k.retransmitted)
  /\ \A pn \in ToSet(k.pending), q \in ToSet(k.retransmitted) : q < pn
  /\ ToSet(k.pending) \cap Repeated(k) = {}
  /\ Owned(k) \subseteq DOMAIN k.sent
  /\ \A r \in k.data_repeat : r.rest \in Seq(Data) /\ r.rest # <<>>
  /\ \A r, q \in k.data_repeat : r.pn = q.pn => r = q
  /\ \A pn \in Numbers : k.recycled[pn] = IF pn \in DOMAIN k.sent \ Owned(k) THEN 1 ELSE 0
  /\ k.in_transit = Len(k.pending)

(* The frames that are acknowledged, or from which one copy is left.       *)
ToRepeat(k) == UNION {ToSet(r.rest) : r \in k.data_repeat}
Waiting(k) == UNION {ToSet(k.sent[pn]) : pn \in ToSet(k.pending)}
Held(k) == k.acked \cup ToSet(k.fresh) \cup ToSet(k.misc) \cup ToRepeat(k) \cup Waiting(k)

(* The inductive invariant.  A peer that owes an acknowledgement has       *)
(* something to acknowledge.                                               *)
IInv ==
  /\ TypeOK
  /\ Sound(ctx) /\ Frames \subseteq Held(ctx)
  /\ peer.owes => peer.received # {}
-----------------------------------------------------------------------------
(* The least and the greatest of a set of numbers.                         *)
LEMMA LeastIs ==
  ASSUME NEW S, S \subseteq Nat, S # {}
  PROVE  Min(S) \in S /\ \A i \in S : Min(S) <= i
<1>1. PICK n \in S : \A i \in S : ~(<<i, n>> \in OpToRel(<, Nat))
  BY NatLessThanWellFounded, WFMin, Zenon
<1>2. \A i \in S : ~(i < n)
  BY <1>1 DEF OpToRel
<1>3. n \in S /\ \A i \in S : n <= i
  BY <1>2
<1> QED BY <1>3, Zenon DEF Min

LEMMA GreatestIs ==
  ASSUME NEW m \in Nat, NEW S, S \subseteq 0 .. m, S # {}
  PROVE  Max(S) \in S /\ \A i \in S : i <= Max(S)
<1> DEFINE below == {m - i : i \in S}
<1>1. below \subseteq Nat /\ below # {}
  <2>1. \A i \in S : m - i \in Nat
    OBVIOUS
  <2> QED BY <2>1
<1>2. Min(below) \in below /\ \A i \in below : Min(below) <= i
  BY <1>1, LeastIs
<1>3. PICK n \in S : Min(below) = m - n
  BY <1>2
<1>4. \A i \in S : m - n <= m - i
  BY <1>2, <1>3
<1>5. n \in S /\ \A i \in S : i <= n
  BY <1>4
<1> QED BY <1>5, Zenon DEF Max

(* What a set of numbers holds up to m, when it holds 0 and the successor  *)
(* of what it holds.                                                       *)
LEMMA UpTo ==
  ASSUME NEW m \in Nat, NEW S, 0 \in S, \A n \in 1 .. m : n - 1 \in S => n \in S
  PROVE  \A n \in 0 .. m : n \in S
<1> DEFINE left == (0 .. m) \ S
<1>1. ASSUME left # {}
      PROVE  FALSE
  <2>1. left \subseteq Nat
    OBVIOUS
  <2> HIDE DEF left
  <2>2. PICK n \in left : \A i \in left : n <= i
    BY <1>1, <2>1, LeastIs
  <2>3. n \in 1 .. m /\ n - 1 \in 0 .. m /\ n - 1 < n
    BY <2>2 DEF left
  <2>4. n - 1 \in S
    BY <2>2, <2>3 DEF left
  <2> QED BY <2>2, <2>3, <2>4 DEF left
<1> QED BY <1>1

(* The function that Walk computes with, on its first values.              *)
Visits(f, visit, start, n) ==
  f = [i \in 0 .. n |-> IF i = 0 THEN start ELSE visit[i][f[i - 1]]]

LEMMA VisitsExist ==
  ASSUME NEW visit, NEW start, NEW m \in Nat
  PROVE  \E f : Visits(f, visit, start, m)
<1> DEFINE S == {n \in 0 .. m : \E f : Visits(f, visit, start, n)}
<1>1. 0 \in S
  <2> DEFINE f == [n \in 0 .. 0 |-> start]
  <2>1. Visits(f, visit, start, 0)
    BY DEF Visits
  <2> QED BY <2>1
<1>2. ASSUME NEW n \in 1 .. m, n - 1 \in S
      PROVE  n \in S
  <2>1. PICK g : Visits(g, visit, start, n - 1)
    BY <1>2
  <2> DEFINE f == [i \in 0 .. n |-> IF i < n THEN g[i] ELSE visit[n][g[n - 1]]]
  <2>2. \A i \in 0 .. n - 1 : f[i] = g[i] /\ g[i] = IF i = 0 THEN start ELSE visit[i][g[i - 1]]
    <3>1. \A i \in 0 .. n - 1 : g[i] = IF i = 0 THEN start ELSE visit[i][g[i - 1]]
      BY <2>1, Zenon DEF Visits
    <3>2. \A i \in 0 .. n - 1 : i \in 0 .. n /\ i < n
      OBVIOUS
    <3>3. \A i \in 0 .. n - 1 : f[i] = g[i]
      BY <3>2, Zenon
    <3> QED BY <3>1, <3>3, Zenon
  <2>3. f[n] = visit[n][g[n - 1]]
    OBVIOUS
  <2>4. f = [i \in 0 .. n |-> f[i]]
    OBVIOUS
  <2> HIDE DEF f
  <2>5. ASSUME NEW i \in 0 .. n
        PROVE  f[i] = IF i = 0 THEN start ELSE visit[i][f[i - 1]]
    <3>1. CASE i = n
      <4>1. f[n - 1] = g[n - 1] /\ n # 0
        BY <2>2
      <4> QED BY <2>3, <3>1, <4>1
    <3>2. CASE i # n /\ i # 0
      <4>1. i \in 0 .. n - 1 /\ i - 1 \in 0 .. n - 1
        BY <3>2
      <4>2. f[i - 1] = g[i - 1] /\ f[i] = g[i]
        BY <2>2, <4>1
      <4> QED BY <2>2, <3>2, <4>1, <4>2
    <3>3. CASE i = 0
      <4>1. 0 \in 0 .. n - 1
        OBVIOUS
      <4> QED BY <2>2, <3>3, <4>1
    <3> QED BY <3>1, <3>2, <3>3
  <2>6. Visits(f, visit, start, n)
    BY <2>4, <2>5, Zenon DEF Visits
  <2> QED BY <2>6
<1>3. \A n \in 0 .. m : n \in S
  <2> HIDE DEF S
  <2> QED BY <1>1, <1>2, UpTo
<1> QED BY <1>3

(* A walk leads to Q[n] if each visit leads from one member of Q to the    *)
(* next.                                                                   *)
LEMMA WalkLeads ==
  ASSUME NEW visit, NEW start, NEW n \in Nat, NEW Q, start \in Q[0],
         \A i \in 1 .. n : \A a \in Q[i - 1] : visit[i][a] \in Q[i]
  PROVE  Walk(visit, start, n) \in Q[n]
<1> DEFINE f == CHOOSE g : Visits(g, visit, start, n)
<1>1. Visits(f, visit, start, n)
  BY VisitsExist, Zenon
<1>2. Walk(visit, start, n) = f[n]
  BY Zenon DEF Walk, Visits
<1> HIDE DEF f
<1> DEFINE S == {i \in 0 .. n : f[i] \in Q[i]}
<1>3. 0 \in S
  BY <1>1 DEF Visits
<1>4. ASSUME NEW i \in 1 .. n, i - 1 \in S
      PROVE  i \in S
  <2>1. i \in 0 .. n /\ i # 0
    OBVIOUS
  <2>2. f[i] = IF i = 0 THEN start ELSE visit[i][f[i - 1]]
    BY <1>1, <2>1, Zenon DEF Visits
  <2>3. f[i] = visit[i][f[i - 1]]
    BY <2>1, <2>2
  <2> QED BY <1>4, <2>1, <2>3
<1>5. n \in S
  <2> HIDE DEF S
  <2>1. n \in 0 .. n
    OBVIOUS
  <2> QED BY <1>3, <1>4, <2>1, UpTo
<1> QED BY <1>2, <1>5
-----------------------------------------------------------------------------
(* What a sequence holds after it was added to or divided.                 *)
LEMMA HoldsMembers ==
  ASSUME NEW T, NEW l \in Seq(T)
  PROVE  /\ Len(l) \in Nat /\ DOMAIN l = 1 .. Len(l)
         /\ ToSet(l) \subseteq T /\ (l # <<>> => ToSet(l) # {})
         /\ l = <<>> => ToSet(l) = {}
<1>1. l # <<>> => 1 \in DOMAIN l
  OBVIOUS
<1> QED BY <1>1 DEF ToSet

LEMMA HoldsAppend ==
  ASSUME NEW T, NEW l \in Seq(T), NEW x \in T
  PROVE  Append(l, x) \in Seq(T) /\ ToSet(Append(l, x)) = ToSet(l) \cup {x}
<1>1. \A i \in 1 .. Len(l) : Append(l, x)[i] = l[i]
  OBVIOUS
<1>2. Append(l, x)[Len(l) + 1] = x /\ Len(Append(l, x)) = Len(l) + 1 /\ Len(l) \in Nat
  OBVIOUS
<1>3. 1 .. Len(l) + 1 = (1 .. Len(l)) \cup {Len(l) + 1}
  BY <1>2
<1>4. DOMAIN l = 1 .. Len(l) /\ DOMAIN Append(l, x) = 1 .. Len(l) + 1
  OBVIOUS
<1> QED BY <1>1, <1>2, <1>3, <1>4 DEF ToSet

LEMMA ConcatIs ==
  ASSUME NEW T, NEW l \in Seq(T), NEW m \in Seq(T)
  PROVE  /\ l \o m \in Seq(T) /\ Len(l \o m) = Len(l) + Len(m) /\ Len(l) \in Nat
         /\ \A i \in 1 .. Len(l) : (l \o m)[i] = l[i]
         /\ \A i \in 1 .. Len(m) : (l \o m)[i + Len(l)] = m[i]
         /\ DOMAIN l = 1 .. Len(l) /\ DOMAIN m = 1 .. Len(m) /\ Len(m) \in Nat
         /\ DOMAIN (l \o m) = 1 .. Len(l) + Len(m)
  OBVIOUS

LEMMA HoldsConcat ==
  ASSUME NEW T, NEW l \in Seq(T), NEW m \in Seq(T)
  PROVE  l \o m \in Seq(T) /\ ToSet(l \o m) = ToSet(l) \cup ToSet(m)
<1> DEFINE r == l \o m
<1>1. /\ Len(r) = Len(l) + Len(m) /\ Len(l) \in Nat /\ Len(m) \in Nat /\ r \in Seq(T)
      /\ \A i \in 1 .. Len(l) : r[i] = l[i]
      /\ \A i \in 1 .. Len(m) : r[i + Len(l)] = m[i]
      /\ DOMAIN l = 1 .. Len(l) /\ DOMAIN m = 1 .. Len(m) /\ DOMAIN r = 1 .. Len(r)
  BY ConcatIs
<1> HIDE DEF r
<1>2. \A i \in 1 .. Len(r) : i \in 1 .. Len(l)
                             \/ (i - Len(l) \in 1 .. Len(m) /\ r[i] = m[i - Len(l)])
  <2>1. \A i \in 1 .. Len(r) : i \in 1 .. Len(l)
                               \/ (i - Len(l) \in 1 .. Len(m) /\ (i - Len(l)) + Len(l) = i)
    BY <1>1
  <2> QED BY <1>1, <2>1
<1>3. \A i \in 1 .. Len(l) : i \in 1 .. Len(r)
  BY <1>1
<1>4. \A i \in 1 .. Len(m) : i + Len(l) \in 1 .. Len(r)
  BY <1>1
<1>5. \A y \in ToSet(r) : y \in ToSet(l) \cup ToSet(m)
  BY <1>1, <1>2 DEF ToSet
<1>6. \A y \in ToSet(l) : y \in ToSet(r)
  BY <1>1, <1>3 DEF ToSet
<1>7. \A y \in ToSet(m) : y \in ToSet(r)
  BY <1>1, <1>4 DEF ToSet
<1>8. ToSet(r) = ToSet(l) \cup ToSet(m)
  BY <1>5, <1>6, <1>7
<1> QED BY <1>1, <1>8 DEF r

LEMMA TakenAndLeft ==
  ASSUME NEW T, NEW l \in Seq(T), NEW n \in Nat
  PROVE  /\ Taking(l, n) \in Seq(T) /\ Leaving(l, n) \in Seq(T)
         /\ Len(Taking(l, n)) <= n /\ Len(Taking(l, n)) <= Len(l)
         /\ \A i \in DOMAIN Taking(l, n) : i \in DOMAIN l /\ Taking(l, n)[i] = l[i]
         /\ ToSet(Taking(l, n)) \cup ToSet(Leaving(l, n)) = ToSet(l)
<1> DEFINE m == Least(n, Len(l))
           a == SubSeq(l, 1, m)
           b == SubSeq(l, n + 1, Len(l))
<1>1. m \in Nat /\ m <= n /\ m <= Len(l) /\ Len(l) \in Nat /\ (m = n \/ m = Len(l))
  BY DEF Least
<1> HIDE DEF m
<1>2. a \in Seq(T) /\ Len(a) = m /\ \A i \in 1 .. m : a[i] = l[i]
  BY <1>1
<1>3. b \in Seq(T) /\ Len(b) = (IF n <= Len(l) THEN Len(l) - n ELSE 0)
      /\ \A i \in 1 .. Len(b) : b[i] = l[n + i]
  BY <1>1
<1>4. DOMAIN l = 1 .. Len(l) /\ DOMAIN a = 1 .. Len(a) /\ DOMAIN b = 1 .. Len(b)
  BY <1>2, <1>3
<1> HIDE DEF a, b
<1>5. \A i \in 1 .. Len(a) : i \in 1 .. Len(l) /\ a[i] = l[i]
  BY <1>1, <1>2
<1>6. \A i \in 1 .. Len(b) : n + i \in 1 .. Len(l) /\ b[i] = l[n + i]
  BY <1>1, <1>3
<1>7. ASSUME NEW i \in 1 .. Len(l)
      PROVE  (i \in 1 .. Len(a) /\ a[i] = l[i]) \/ (i - n \in 1 .. Len(b) /\ b[i - n] = l[i])
  <2>1. CASE i <= n
    BY <1>1, <1>2, <2>1
  <2>2. CASE i > n
    <3>1. i - n \in 1 .. Len(b) /\ n + (i - n) = i
      BY <1>1, <1>3, <2>2
    <3> QED BY <1>3, <3>1
  <2> QED BY <2>1, <2>2, <1>1
<1>8. ToSet(a) \cup ToSet(b) = ToSet(l)
  BY <1>4, <1>5, <1>6, <1>7 DEF ToSet
<1>9. Taking(l, n) = a /\ Leaving(l, n) = b
  BY DEF Taking, Leaving, a, b, m
<1> QED BY <1>1, <1>2, <1>3, <1>4, <1>5, <1>8, <1>9

(* The members of S in a sequence: in the order they were in.  With one    *)
(* left out of a sequence without repetitions, the length is one less.     *)
LEMMA WithinIs ==
  ASSUME NEW T, NEW l \in Seq(T), NEW S, NEW R,
         \A i, j \in DOMAIN l : i < j => <<l[i], l[j]>> \in R
  PROVE  LET w == Within(l, S)
         IN  /\ w \in Seq(T \cap S) /\ w \in Seq(T)
             /\ ToSet(w) = ToSet(l) \cap S
             /\ \A i, j \in DOMAIN w : i < j => <<w[i], w[j]>> \in R
<1> DEFINE A == ToSet(l)
           visit == [i \in DOMAIN l |-> [kept \in Seq(A) |->
                      IF l[i] \in S THEN Append(kept, l[i]) ELSE kept]]
           First(n) == {l[i] : i \in 1 .. n}
           Chain(w) == \A i, j \in DOMAIN w : i < j => <<w[i], w[j]>> \in R
           Q == [n \in 0 .. Len(l) |->
                  {w \in Seq(A) : ToSet(w) = First(n) \cap S /\ Chain(w)}]
<1>1. Len(l) \in Nat /\ DOMAIN l = 1 .. Len(l) /\ A \subseteq T /\ A = First(Len(l))
  BY HoldsMembers DEF ToSet
<1> HIDE DEF A
<1>2. <<>> \in Q[0]
  <2>1. 0 \in 0 .. Len(l) /\ First(0) = {} /\ <<>> \in Seq(A) /\ ToSet(<<>>) = {} /\ Chain(<<>>)
    BY <1>1 DEF ToSet
  <2> QED BY <2>1
<1>3. ASSUME NEW n \in 1 .. Len(l), NEW kept \in Q[n - 1]
      PROVE  visit[n][kept] \in Q[n]
  <2>1. n \in 0 .. Len(l) /\ n - 1 \in 0 .. Len(l) /\ n \in DOMAIN l /\ l[n] \in A
    BY <1>1 DEF A, ToSet
  <2>2. kept \in Seq(A) /\ ToSet(kept) = First(n - 1) \cap S /\ Chain(kept)
    BY <2>1
  <2>3. First(n) = First(n - 1) \cup {l[n]}
    <3>1. 1 .. n = (1 .. n - 1) \cup {n}
      BY <1>1
    <3> QED BY <3>1
  <2>4. visit[n][kept] = IF l[n] \in S THEN Append(kept, l[n]) ELSE kept
    BY <2>1, <2>2
  <2>5. CASE l[n] \in S
    <3> DEFINE w == Append(kept, l[n])
    <3>1. w \in Seq(A) /\ ToSet(w) = ToSet(kept) \cup {l[n]}
      BY <2>1, <2>2, HoldsAppend
    <3>2. ToSet(w) = First(n) \cap S
      <4> HIDE DEF w, First
      <4> QED BY <2>2, <2>3, <2>5, <3>1
    <3>3. Len(w) = Len(kept) + 1 /\ Len(kept) \in Nat /\ DOMAIN w = 1 .. Len(kept) + 1
          /\ DOMAIN kept = 1 .. Len(kept)
          /\ w[Len(kept) + 1] = l[n] /\ \A i \in 1 .. Len(kept) : w[i] = kept[i]
      BY <2>1, <2>2
    <3>4. \A i \in 1 .. Len(kept) : <<kept[i], l[n]>> \in R
      <4>1. ASSUME NEW i \in 1 .. Len(kept)
            PROVE  <<kept[i], l[n]>> \in R
        <5>1. kept[i] \in First(n - 1)
          BY <2>2, <3>3 DEF ToSet
        <5>2. PICK j \in 1 .. n - 1 : kept[i] = l[j]
          BY <5>1
        <5>3. j \in DOMAIN l /\ n \in DOMAIN l /\ j < n
          BY <1>1
        <5> QED BY <5>2, <5>3
      <4> QED BY <4>1
    <3> HIDE DEF w, First
    <3>5. Chain(w)
      <4>1. ASSUME NEW i \in 1 .. Len(kept) + 1, NEW j \in 1 .. Len(kept) + 1, i < j
            PROVE  <<w[i], w[j]>> \in R
        <5>1. i \in 1 .. Len(kept) /\ (j \in 1 .. Len(kept) \/ j = Len(kept) + 1)
          BY <3>3, <4>1
        <5> QED BY <2>2, <3>3, <3>4, <4>1, <5>1
      <4> QED BY <3>3, <4>1
    <3> QED BY <2>1, <2>4, <2>5, <3>1, <3>2, <3>5 DEF w
  <2>6. CASE l[n] \notin S
    <3> HIDE DEF First
    <3>1. First(n) \cap S = First(n - 1) \cap S
      BY <2>3, <2>6
    <3> QED BY <2>1, <2>2, <2>4, <2>6, <3>1
  <2> QED BY <2>5, <2>6
<1>4. Walk(visit, <<>>, Len(l)) \in Q[Len(l)]
  <2> HIDE DEF visit, Q
  <2> QED BY <1>1, <1>2, <1>3, WalkLeads
<1>5. Within(l, S) = Walk(visit, <<>>, Len(l))
  BY DEF Within, A
<1> DEFINE w == Within(l, S)
<1> HIDE DEF First
<1>6. w \in Seq(A) /\ ToSet(w) = A \cap S /\ Chain(w)
  <2>1. Len(l) \in 0 .. Len(l)
    BY <1>1
  <2> HIDE DEF visit
  <2> QED BY <1>1, <1>4, <1>5, <2>1
<1> HIDE DEF w
<1>7. w \in Seq(T \cap S) /\ w \in Seq(T)
  <2>1. \A i \in DOMAIN w : w[i] \in T \cap S
    BY <1>1, <1>6 DEF ToSet
  <2>2. w = [i \in 1 .. Len(w) |-> w[i]] /\ DOMAIN w = 1 .. Len(w) /\ Len(w) \in Nat
    BY <1>6
  <2> QED BY <2>1, <2>2
<1> QED BY <1>6, <1>7 DEF w, A

LEMMA WithinHolds ==
  ASSUME NEW T, NEW l \in Seq(T), NEW S
  PROVE  /\ Within(l, S) \in Seq(T \cap S) /\ Within(l, S) \in Seq(T)
         /\ ToSet(Within(l, S)) = ToSet(l) \cap S
<1>1. \A i, j \in DOMAIN l : i < j => <<l[i], l[j]>> \in T \X T
  OBVIOUS
<1> QED BY <1>1, WithinIs, Zenon
-----------------------------------------------------------------------------
(* The lists of packets, without one of them.                              *)
LEMMA WithoutShorter ==
  ASSUME NEW l \in Seq(Numbers), Rising(l), NEW pn \in ToSet(l)
  PROVE  Len(Without(l, pn)) = Len(l) - 1
<1> DEFINE A == ToSet(l)
           S == Numbers \ {pn}
           visit == [i \in DOMAIN l |-> [kept \in Seq(A) |->
                      IF l[i] \in S THEN Append(kept, l[i]) ELSE kept]]
<1>1. Len(l) \in Nat /\ DOMAIN l = 1 .. Len(l)
  OBVIOUS
<1>2. PICK p \in 1 .. Len(l) : l[p] = pn
  BY <1>1 DEF ToSet
<1>3. ASSUME NEW i \in 1 .. Len(l)
      PROVE  l[i] \in A /\ (l[i] \in S <=> i # p)
  <2>1. l[i] \in A /\ l[i] \in Numbers /\ pn \in Numbers
    BY <1>1, <1>2 DEF ToSet
  <2>2. l[i] \in Int /\ pn \in Int
    BY <2>1 DEF Numbers
  <2>3. i < p => l[i] < pn
    BY <1>1, <1>2 DEF Rising
  <2>4. p < i => pn < l[i]
    BY <1>1, <1>2 DEF Rising
  <2> QED BY <1>2, <2>1, <2>3, <2>4, <2>2
<1> HIDE DEF A, S
<1> DEFINE Q == [n \in 0 .. Len(l) |-> {w \in Seq(A) : Len(w) = IF n < p THEN n ELSE n - 1}]
<1>4. <<>> \in Q[0]
  BY <1>1
<1>5. ASSUME NEW n \in 1 .. Len(l), NEW kept \in Q[n - 1]
      PROVE  visit[n][kept] \in Q[n]
  <2>1. n \in 0 .. Len(l) /\ n - 1 \in 0 .. Len(l) /\ n \in DOMAIN l /\ l[n] \in A
    BY <1>1, <1>3
  <2>2. kept \in Seq(A) /\ Len(kept) = IF n - 1 < p THEN n - 1 ELSE (n - 1) - 1
    BY <2>1
  <2>3. visit[n][kept] = IF l[n] \in S THEN Append(kept, l[n]) ELSE kept
    BY <2>1, <2>2
  <2>4. CASE n = p
    <3>1. visit[n][kept] = kept /\ ~(n < p) /\ n - 1 < p
      BY <1>3, <2>3, <2>4
    <3> QED BY <2>1, <2>2, <3>1
  <2>5. CASE n # p
    <3>1. visit[n][kept] = Append(kept, l[n])
      BY <1>3, <2>3, <2>5
    <3>2. Append(kept, l[n]) \in Seq(A) /\ Len(Append(kept, l[n])) = Len(kept) + 1
      BY <2>1, <2>2
    <3>3. (n - 1 < p <=> n < p) /\ n - 1 + 1 = n /\ ((n - 1) - 1) + 1 = n - 1
      BY <2>5, <1>2
    <3>4. Len(Append(kept, l[n])) = IF n < p THEN n ELSE n - 1
      BY <2>2, <3>2, <3>3
    <3> QED BY <2>1, <3>1, <3>2, <3>4
  <2> QED BY <2>4, <2>5
<1>6. Walk(visit, <<>>, Len(l)) \in Q[Len(l)]
  <2> HIDE DEF visit, Q
  <2> QED BY <1>1, <1>4, <1>5, WalkLeads
<1>7. Without(l, pn) = Walk(visit, <<>>, Len(l))
  BY DEF Without, Within, A, S
<1>8. Len(l) \in 0 .. Len(l) /\ ~(Len(l) < p)
  BY <1>1, <1>2
<1> HIDE DEF visit
<1> QED BY <1>6, <1>7, <1>8

LEMMA WithoutIs ==
  ASSUME NEW l \in Seq(Numbers), NEW pn \in Numbers
  PROVE  /\ Without(l, pn) \in Seq(Numbers) /\ ToSet(Without(l, pn)) = ToSet(l) \ {pn}
         /\ Rising(l) => Rising(Without(l, pn))
         /\ Falling(l) => Falling(Without(l, pn))
<1> DEFINE S == Numbers \ {pn}
           w == Within(l, S)
<1>1. ToSet(l) \subseteq Numbers
  BY HoldsMembers
<1>2. w \in Seq(Numbers) /\ ToSet(w) = ToSet(l) \cap S
  <2> HIDE DEF S
  <2> QED BY WithinHolds
<1>3. ToSet(w) = ToSet(l) \ {pn}
  <2> HIDE DEF w
  <2> QED BY <1>1, <1>2
<1>4. ASSUME Rising(l)
      PROVE  Rising(w)
  <2> DEFINE R == {p \in Numbers \X Numbers : p[1] < p[2]}
  <2>1. \A i, j \in DOMAIN l : i < j => <<l[i], l[j]>> \in R
    BY <1>4 DEF Rising
  <2>2. \A i, j \in DOMAIN w : i < j => <<w[i], w[j]>> \in R
    <3> HIDE DEF R, S
    <3> QED BY <2>1, WithinIs
  <2> HIDE DEF w
  <2> QED BY <2>2 DEF Rising
<1>5. ASSUME Falling(l)
      PROVE  Falling(w)
  <2> DEFINE R == {p \in Numbers \X Numbers : p[1] > p[2]}
  <2>1. \A i, j \in DOMAIN l : i < j => <<l[i], l[j]>> \in R
    BY <1>5 DEF Falling
  <2>2. \A i, j \in DOMAIN w : i < j => <<w[i], w[j]>> \in R
    <3> HIDE DEF R, S
    <3> QED BY <2>1, WithinIs
  <2> HIDE DEF w
  <2> QED BY <2>2 DEF Falling
<1> HIDE DEF w
<1> QED BY <1>2, <1>3, <1>4, <1>5 DEF Without, w
-----------------------------------------------------------------------------
(* The frames and the timer of a context are untouched.                    *)
Alike(k, j) ==
  j.sent = k.sent /\ j.acked = k.acked /\ j.misc = k.misc /\ j.fresh = k.fresh

(* The lists and the memory of the packets are untouched.                  *)
LEMMA SoundSame ==
  ASSUME NEW k, Sound(k), NEW j \in Contexts,
         j.sent = k.sent, j.pending = k.pending, j.retransmitted = k.retransmitted,
         j.data_repeat = k.data_repeat, j.recycled = k.recycled, j.in_transit = k.in_transit
  PROVE  Sound(j)
<1>1. Repeated(j) = Repeated(k) /\ Owned(j) = Owned(k)
  BY DEF Repeated, Owned
<1> QED BY <1>1 DEF Sound

LEMMA HeldSame ==
  ASSUME NEW k, NEW j, j.sent = k.sent, j.pending = k.pending, j.data_repeat = k.data_repeat,
         j.acked = k.acked, j.misc = k.misc, j.fresh = k.fresh
  PROVE  Held(j) = Held(k)
  BY DEF Held, ToRepeat, Waiting

(* A sound context, by its parts.                                          *)
LEMMA SoundTells ==
  ASSUME NEW k, Sound(k)
  PROVE  /\ k \in Contexts
         /\ k.sent \in Seq(Payloads) /\ k.pending \in Seq(Numbers)
         /\ k.retransmitted \in Seq(Numbers) /\ k.misc \in Payloads /\ k.fresh \in Payloads
         /\ k.acked \subseteq Frames /\ k.recycled \in [Numbers -> Nat] /\ k.in_transit \in Nat
         /\ k.highest \in Nat /\ k.nb_retransmit \in Nat /\ k.demoted \in BOOLEAN
         /\ k.is_pto_required \in BOOLEAN
         /\ ToSet(k.pending) \subseteq Numbers /\ ToSet(k.retransmitted) \subseteq Numbers
         /\ Repeated(k) \subseteq Numbers
         /\ \A r \in k.data_repeat : r \in [pn : Numbers, rest : Payloads]
         /\ \A pn \in DOMAIN k.sent : k.sent[pn] \in Payloads
         /\ \A pn \in Owned(k) : pn \in Numbers /\ pn \in DOMAIN k.sent
<1>1. /\ k \in Contexts
      /\ k.sent \in Seq(Payloads) /\ k.pending \in Seq(Numbers)
      /\ k.retransmitted \in Seq(Numbers) /\ k.misc \in Payloads /\ k.fresh \in Payloads
      /\ k.acked \subseteq Frames /\ k.recycled \in [Numbers -> Nat] /\ k.in_transit \in Nat
      /\ k.highest \in Nat /\ k.nb_retransmit \in Nat /\ k.demoted \in BOOLEAN
      /\ k.is_pto_required \in BOOLEAN
      /\ k.data_repeat \subseteq [pn : Numbers, rest : Payloads]
  BY DEF Sound, Contexts
<1>2. ToSet(k.pending) \subseteq Numbers /\ ToSet(k.retransmitted) \subseteq Numbers
  BY <1>1, HoldsMembers
<1>3. Repeated(k) \subseteq Numbers
  BY <1>1 DEF Repeated
<1>4. \A pn \in DOMAIN k.sent : k.sent[pn] \in Payloads
  <2> DEFINE T == Payloads
  <2> HIDE DEF T
  <2>1. k.sent \in Seq(T)
    BY <1>1 DEF T
  <2> QED BY <2>1 DEF T
<1>5. \A pn \in Owned(k) : pn \in Numbers /\ pn \in DOMAIN k.sent
  BY <1>2, <1>3 DEF Sound, Owned
<1> QED BY <1>1, <1>2, <1>3, <1>4, <1>5

LEMMA RecycleIs ==
  ASSUME NEW k \in Contexts, NEW pn \in Numbers
  PROVE  LET j == Recycle(k, pn)
         IN  /\ j \in Contexts /\ Alike(k, j)
             /\ j.pending = k.pending /\ j.retransmitted = k.retransmitted
             /\ j.data_repeat = k.data_repeat /\ j.in_transit = k.in_transit
             /\ \A q \in Numbers :
                  j.recycled[q] = IF q = pn THEN k.recycled[q] + 1 ELSE k.recycled[q]
<1> DEFINE r == [k.recycled EXCEPT ![pn] = @ + 1]
           j == [k EXCEPT !.recycled = r]
<1>1. r \in [Numbers -> Nat]
      /\ \A q \in Numbers : r[q] = IF q = pn THEN k.recycled[q] + 1 ELSE k.recycled[q]
  BY DEF Contexts
<1>2. Recycle(k, pn) = j
  BY DEF Recycle, Contexts
<1> HIDE DEF r
<1>3. /\ j \in Contexts /\ j.recycled = r /\ Alike(k, j)
      /\ j.pending = k.pending /\ j.retransmitted = k.retransmitted
      /\ j.data_repeat = k.data_repeat /\ j.in_transit = k.in_transit
  BY <1>1 DEF Contexts, Alike
<1> HIDE DEF j
<1> QED BY <1>1, <1>2, <1>3

(* What leaves the list of the packets that wait.                          *)
Out(k, pn) == [k EXCEPT !.pending = Without(@, pn), !.in_transit = IF @ > 1 THEN @ - 1 ELSE 0]

LEMMA OutIs ==
  ASSUME NEW k, Sound(k), NEW pn \in ToSet(k.pending)
  PROVE  LET j == Out(k, pn)
         IN  /\ j \in Contexts /\ Alike(k, j)
             /\ ToSet(j.pending) = ToSet(k.pending) \ {pn} /\ Rising(j.pending)
             /\ j.in_transit = Len(j.pending)
             /\ j.retransmitted = k.retransmitted /\ j.data_repeat = k.data_repeat
             /\ j.recycled = k.recycled
<1> DEFINE w == Without(k.pending, pn)
           n == IF k.in_transit > 1 THEN k.in_transit - 1 ELSE 0
           j == [k EXCEPT !.pending = w, !.in_transit = n]
<1>1. /\ k \in Contexts /\ k.pending \in Seq(Numbers) /\ k.in_transit \in Nat
      /\ Rising(k.pending) /\ k.in_transit = Len(k.pending) /\ pn \in Numbers
  BY SoundTells DEF Sound
<1>2. w \in Seq(Numbers) /\ ToSet(w) = ToSet(k.pending) \ {pn} /\ Rising(w)
  BY <1>1, WithoutIs
<1>3. Len(w) = Len(k.pending) - 1
  BY <1>1, WithoutShorter
<1>4. Len(w) \in Nat
  BY <1>2
<1>5. n = Len(w) /\ n \in Nat
  BY <1>1, <1>3, <1>4
<1>6. Out(k, pn) = j
  BY <1>1 DEF Out, Contexts
<1> HIDE DEF w, n
<1>7. /\ j \in Contexts /\ j.pending = w /\ j.in_transit = n /\ Alike(k, j)
      /\ j.retransmitted = k.retransmitted /\ j.data_repeat = k.data_repeat
      /\ j.recycled = k.recycled
  BY <1>1, <1>2, <1>5 DEF Contexts, Alike
<1> HIDE DEF j
<1> QED BY <1>2, <1>5, <1>6, <1>7

(* A packet that waited is acknowledged, or has nothing to repeat.         *)
LEMMA FreedIsSound ==
  ASSUME NEW k, Sound(k), NEW pn \in ToSet(k.pending)
  PROVE  LET j == DequeueRetransmit(k, pn, TRUE, FALSE)
         IN  /\ Sound(j) /\ Alike(k, j)
             /\ ToSet(j.pending) = ToSet(k.pending) \ {pn}
             /\ j.retransmitted = k.retransmitted /\ j.data_repeat = k.data_repeat
<1> DEFINE o == Out(k, pn)
           j == Recycle(o, pn)
<1>1. DequeueRetransmit(k, pn, TRUE, FALSE) = j
  BY DEF DequeueRetransmit, Out
<1>2. /\ o \in Contexts /\ Alike(k, o)
      /\ ToSet(o.pending) = ToSet(k.pending) \ {pn} /\ Rising(o.pending)
      /\ o.in_transit = Len(o.pending)
      /\ o.retransmitted = k.retransmitted /\ o.data_repeat = k.data_repeat
      /\ o.recycled = k.recycled
  BY OutIs
<1>3. pn \in Numbers /\ pn \in DOMAIN k.sent /\ pn \in Owned(k)
      /\ k.recycled \in [Numbers -> Nat]
  BY SoundTells DEF Owned
<1> HIDE DEF o
<1>4. /\ j \in Contexts /\ Alike(o, j)
      /\ j.pending = o.pending /\ j.retransmitted = o.retransmitted
      /\ j.data_repeat = o.data_repeat /\ j.in_transit = o.in_transit
      /\ \A q \in Numbers : j.recycled[q] = IF q = pn THEN o.recycled[q] + 1 ELSE o.recycled[q]
  BY <1>2, <1>3, RecycleIs
<1> HIDE DEF j
<1>5. Alike(k, j)
  BY <1>2, <1>4 DEF Alike
<1>6. pn \notin ToSet(k.retransmitted) /\ pn \notin Repeated(k)
  <2>1. pn \in Int
    BY <1>3 DEF Numbers
  <2> QED BY <2>1 DEF Sound
<1>7. Repeated(j) = Repeated(k) /\ Owned(j) = Owned(k) \ {pn}
  <2>1. Repeated(j) = Repeated(k)
    BY <1>2, <1>4 DEF Repeated
  <2> QED BY <1>2, <1>4, <1>6, <2>1 DEF Owned
<1>8. Sound(j)
  <2>1. \A q \in Numbers : j.recycled[q] = IF q \in DOMAIN j.sent \ Owned(j) THEN 1 ELSE 0
    <3>1. \A q \in Numbers : k.recycled[q] = IF q \in DOMAIN k.sent \ Owned(k) THEN 1 ELSE 0
      BY DEF Sound
    <3>2. j.sent = k.sent
      BY <1>5 DEF Alike
    <3> QED BY <1>2, <1>3, <1>4, <1>7, <3>1, <3>2
  <2> QED BY <1>2, <1>4, <1>5, <1>7, <2>1 DEF Sound, Alike
<1> QED BY <1>1, <1>2, <1>4, <1>5, <1>8
-----------------------------------------------------------------------------
(* Lost packets.                                                           *)
LEMMA FallingFront ==
  ASSUME NEW l \in Seq(Numbers), Falling(l), NEW pn \in Numbers, \A q \in ToSet(l) : q < pn
  PROVE  /\ <<pn>> \o l \in Seq(Numbers) /\ ToSet(<<pn>> \o l) = {pn} \cup ToSet(l)
         /\ Falling(<<pn>> \o l)
<1> DEFINE e == <<pn>>
           m == e \o l
<1>1. e \in Seq(Numbers) /\ Len(e) = 1 /\ e[1] = pn /\ ToSet(e) = {pn}
  BY DEF ToSet
<1> HIDE DEF e
<1>2. m \in Seq(Numbers) /\ ToSet(m) = {pn} \cup ToSet(l)
  BY <1>1, HoldsConcat
<1>3. /\ Len(m) = Len(l) + 1 /\ Len(l) \in Nat /\ DOMAIN m = 1 .. Len(m) /\ DOMAIN l = 1 .. Len(l)
      /\ m[1] = pn /\ \A i \in 2 .. Len(l) + 1 : m[i] = l[i - 1]
  <2>1. e \in Seq(Numbers) /\ l \in Seq(Numbers)
    BY <1>1
  <2>2. Len(m) = Len(e) + Len(l) /\ Len(l) \in Nat
    BY <2>1, ConcatIs
  <2>3. \A i \in 1 .. Len(e) : m[i] = e[i]
    BY <2>1, ConcatIs
  <2>4. \A i \in 1 .. Len(l) : m[i + Len(e)] = l[i]
    BY <2>1, ConcatIs
  <2>5. DOMAIN m = 1 .. Len(m) /\ DOMAIN l = 1 .. Len(l)
    BY <1>2
  <2> HIDE DEF m
  <2>6. \A i \in 2 .. Len(l) + 1 : i - 1 \in 1 .. Len(l) /\ (i - 1) + 1 = i
    BY <2>2
  <2>7. \A i \in 2 .. Len(l) + 1 : m[i] = l[i - 1]
    BY <1>1, <2>4, <2>6
  <2> QED BY <1>1, <2>2, <2>3, <2>4, <2>5, <2>7
<1> HIDE DEF m
<1>4. ASSUME NEW i \in 1 .. Len(l) + 1, NEW j \in 1 .. Len(l) + 1, i < j
      PROVE  m[i] > m[j]
  <2>1. j \in 2 .. Len(l) + 1 /\ m[j] = l[j - 1] /\ j - 1 \in 1 .. Len(l)
    BY <1>3, <1>4
  <2>2. l[j - 1] \in ToSet(l)
    BY <1>3, <2>1 DEF ToSet
  <2>3. CASE i = 1
    <3>1. l[j - 1] < pn
      BY <2>2
    <3>2. pn \in Int /\ l[j - 1] \in Int
      <4>1. l[j - 1] \in Numbers
        BY <2>1
      <4> QED BY <4>1 DEF Numbers
    <3> QED BY <1>3, <2>1, <2>3, <3>1, <3>2
  <2>4. CASE i # 1
    <3>1. i \in 2 .. Len(l) + 1 /\ m[i] = l[i - 1] /\ i - 1 \in 1 .. Len(l) /\ i - 1 < j - 1
      BY <1>3, <1>4, <2>4
    <3> QED BY <1>3, <2>1, <3>1 DEF Falling
  <2> QED BY <2>3, <2>4
<1>5. Falling(m)
  BY <1>3, <1>4 DEF Falling
<1> QED BY <1>2, <1>5 DEF m, e

(* The least of the packets that wait goes to the list of lost packets.    *)
LEMMA KeptIsSound ==
  ASSUME NEW k, Sound(k), NEW pn \in ToSet(k.pending), \A q \in ToSet(k.pending) : pn <= q
  PROVE  LET j == DequeueRetransmit(k, pn, FALSE, FALSE)
         IN  /\ Sound(j) /\ Alike(k, j)
             /\ ToSet(j.pending) = ToSet(k.pending) \ {pn}
             /\ pn \in ToSet(j.retransmitted) /\ j.data_repeat = k.data_repeat
<1> DEFINE o == Out(k, pn)
           m == <<pn>> \o k.retransmitted
           j == [o EXCEPT !.retransmitted = m]
<1>1. /\ o \in Contexts /\ Alike(k, o)
      /\ ToSet(o.pending) = ToSet(k.pending) \ {pn} /\ Rising(o.pending)
      /\ o.in_transit = Len(o.pending)
      /\ o.retransmitted = k.retransmitted /\ o.data_repeat = k.data_repeat
      /\ o.recycled = k.recycled
  BY OutIs
<1>2. DequeueRetransmit(k, pn, FALSE, FALSE) = j
  <2>1. DequeueRetransmit(k, pn, FALSE, FALSE) = [o EXCEPT !.retransmitted = <<pn>> \o @]
    BY DEF DequeueRetransmit, Out
  <2> HIDE DEF o
  <2>2. [o EXCEPT !.retransmitted = <<pn>> \o @] = j
    BY <1>1 DEF Contexts
  <2> QED BY <2>1, <2>2
<1>3. /\ pn \in Numbers /\ pn \in DOMAIN k.sent /\ pn \in Owned(k)
      /\ k.recycled \in [Numbers -> Nat] /\ k.retransmitted \in Seq(Numbers)
      /\ ToSet(k.pending) \subseteq Numbers
  BY SoundTells DEF Owned
<1>4. m \in Seq(Numbers) /\ ToSet(m) = {pn} \cup ToSet(k.retransmitted) /\ Falling(m)
  <2>1. Falling(k.retransmitted) /\ \A q \in ToSet(k.retransmitted) : q < pn
    BY DEF Sound
  <2> QED BY <1>3, <2>1, FallingFront
<1> HIDE DEF o, m
<1>5. /\ j \in Contexts /\ Alike(o, j) /\ j.retransmitted = m
      /\ j.pending = o.pending /\ j.data_repeat = o.data_repeat /\ j.in_transit = o.in_transit
      /\ j.recycled = o.recycled
  BY <1>1, <1>4 DEF Contexts, Alike
<1> HIDE DEF j
<1>6. Alike(k, j)
  BY <1>1, <1>5 DEF Alike
<1>7. Repeated(j) = Repeated(k) /\ Owned(j) = Owned(k)
  <2>1. Repeated(j) = Repeated(k)
    BY <1>1, <1>5 DEF Repeated
  <2> QED BY <1>1, <1>4, <1>5, <2>1 DEF Owned
<1>8. \A p \in ToSet(j.pending), q \in ToSet(j.retransmitted) : q < p
  <2>1. ASSUME NEW p \in ToSet(k.pending), p # pn
        PROVE  pn < p
    <3>1. p \in Int /\ pn \in Int /\ pn <= p
      BY <1>3 DEF Numbers
    <3> QED BY <2>1, <3>1
  <2>2. \A p \in ToSet(k.pending), q \in ToSet(k.retransmitted) : q < p
    BY DEF Sound
  <2> QED BY <1>1, <1>4, <1>5, <2>1, <2>2
<1>9. Sound(j)
  BY <1>1, <1>4, <1>5, <1>6, <1>7, <1>8 DEF Sound, Alike
<1> QED BY <1>1, <1>2, <1>4, <1>5, <1>6, <1>9

(* Its data is queued to be repeated.                                      *)
LEMMA RepeatIsSound ==
  ASSUME NEW k, Sound(k), NEW pn \in ToSet(k.retransmitted), pn \notin Repeated(k)
  PROVE  LET j == QueueDataRepeat(k, pn)
         IN  /\ Sound(j) /\ Alike(k, j)
             /\ j.pending = k.pending /\ j.retransmitted = k.retransmitted
             /\ k.data_repeat \subseteq j.data_repeat
             /\ \A f \in ToSet(k.sent[pn]) \cap Data :
                  \E r \in j.data_repeat : f \in ToSet(r.rest)
<1> DEFINE rest == Within(k.sent[pn], Data)
           e == [pn |-> pn, rest |-> rest]
           R == k.data_repeat \cup {e}
           j == [k EXCEPT !.data_repeat = R]
<1>1. /\ k \in Contexts /\ pn \in Numbers /\ pn \in DOMAIN k.sent /\ pn \in Owned(k)
      /\ k.sent[pn] \in Payloads /\ k.data_repeat \subseteq [pn : Numbers, rest : Payloads]
  BY SoundTells DEF Owned
<1>2. /\ rest \in Seq((Frames \cup {Ping}) \cap Data) /\ rest \in Payloads
      /\ ToSet(rest) = ToSet(k.sent[pn]) \cap Data
  <2>1. k.sent[pn] \in Seq(Frames \cup {Ping})
    BY <1>1 DEF Payloads
  <2> DEFINE T == Frames \cup {Ping}
  <2> HIDE DEF T
  <2>2. /\ rest \in Seq(T \cap Data) /\ rest \in Seq(T)
        /\ ToSet(rest) = ToSet(k.sent[pn]) \cap Data
    BY <2>1, WithinHolds DEF T
  <2> QED BY <2>2 DEF T, Payloads
<1>3. rest \in Seq(Data)
  <2>1. (Frames \cup {Ping}) \cap Data = Data
    BY DEF Frames
  <2> HIDE DEF rest
  <2> QED BY <1>2, <2>1
<1>4. CASE rest = <<>>
  <2>1. QueueDataRepeat(k, pn) = k
    BY <1>4 DEF QueueDataRepeat
  <2>2. ToSet(k.sent[pn]) \cap Data = {}
    <3>1. ToSet(<<>>) = {}
      BY DEF ToSet
    <3> HIDE DEF rest
    <3> QED BY <1>2, <1>4, <3>1
  <2> QED BY <2>1, <2>2 DEF Alike
<1>5. CASE rest # <<>>
  <2> HIDE DEF rest
  <2>1. QueueDataRepeat(k, pn) = j
    <3>1. QueueDataRepeat(k, pn) = [k EXCEPT !.data_repeat = @ \cup {e}]
      BY <1>5 DEF QueueDataRepeat, rest
    <3> HIDE DEF e
    <3> QED BY <1>1, <3>1 DEF Contexts
  <2>2. e \in [pn : Numbers, rest : Payloads] /\ e.pn = pn /\ e.rest = rest
    BY <1>1, <1>2
  <2> HIDE DEF e
  <2>3. R \subseteq [pn : Numbers, rest : Payloads]
    BY <1>1, <2>2
  <2>4. /\ k.data_repeat \subseteq R /\ e \in R
        /\ \A r \in R : r.rest \in Seq(Data) /\ r.rest # <<>>
        /\ \A r, q \in R : r.pn = q.pn => r = q
        /\ {r.pn : r \in R} = Repeated(k) \cup {pn}
    <3>1. /\ \A r \in k.data_repeat : r.rest \in Seq(Data) /\ r.rest # <<>>
          /\ \A r, q \in k.data_repeat : r.pn = q.pn => r = q
      BY DEF Sound
    <3>2. \A r \in k.data_repeat : r.pn # pn
      BY DEF Repeated
    <3>3. \A r \in R : r \in k.data_repeat \/ r = e
      OBVIOUS
    <3>4. \A r, q \in R : r.pn = q.pn => r = q
      BY <2>2, <3>1, <3>2, <3>3
    <3>5. \A r \in R : r.rest \in Seq(Data) /\ r.rest # <<>>
      BY <1>3, <1>5, <2>2, <3>1, <3>3
    <3>6. {r.pn : r \in R} = Repeated(k) \cup {pn}
      BY <2>2 DEF Repeated
    <3> QED BY <3>4, <3>5, <3>6
  <2> HIDE DEF R
  <2>5. /\ j \in Contexts /\ j.data_repeat = R /\ Alike(k, j)
        /\ j.pending = k.pending /\ j.retransmitted = k.retransmitted
        /\ j.in_transit = k.in_transit /\ j.recycled = k.recycled
    BY <1>1, <2>3 DEF Contexts, Alike
  <2> HIDE DEF j
  <2>6. Repeated(j) = Repeated(k) \cup {pn} /\ Owned(j) = Owned(k)
    <3>1. Repeated(j) = Repeated(k) \cup {pn}
      BY <2>4, <2>5 DEF Repeated
    <3> QED BY <2>5, <3>1 DEF Owned
  <2>7. pn \notin ToSet(k.pending)
    <3>1. pn \in Int
      BY <1>1 DEF Numbers
    <3> QED BY <3>1 DEF Sound
  <2>8. Sound(j)
    BY <2>4, <2>5, <2>6, <2>7 DEF Sound, Alike
  <2> QED BY <1>2, <2>1, <2>2, <2>4, <2>5, <2>8
<1> QED BY <1>4, <1>5
-----------------------------------------------------------------------------
(* Frames are held after as before, or copied.                             *)
Keeps(k, j, copied) == \A f \in Frames : f \in Held(k) => f \in Held(j) \/ f \in ToSet(copied)

LEMMA HeldIs ==
  ASSUME NEW k, NEW f
  PROVE  f \in Held(k) <=> \/ f \in k.acked \/ f \in ToSet(k.fresh) \/ f \in ToSet(k.misc)
                           \/ \E r \in k.data_repeat : f \in ToSet(r.rest)
                           \/ \E pn \in ToSet(k.pending) : f \in ToSet(k.sent[pn])
<1>1. f \in ToRepeat(k) <=> \E r \in k.data_repeat : f \in ToSet(r.rest)
  BY DEF ToRepeat
<1>2. f \in Waiting(k) <=> \E pn \in ToSet(k.pending) : f \in ToSet(k.sent[pn])
  BY DEF Waiting
<1> QED BY <1>1, <1>2 DEF Held

(* A packet is lost when none older waits: its frames are copied, queued   *)
(* or left to be repeated, if they are not acknowledged.                   *)
LEMMA ProcessLostIsSound ==
  ASSUME NEW k, Sound(k), NEW pn \in ToSet(k.pending), \A q \in ToSet(k.pending) : pn <= q,
         NEW room \in Nat
  PROVE  LET r == ProcessLost(k, pn, room)
         IN  /\ Sound(r.ctx) /\ r.ctx.sent = k.sent
             /\ ToSet(r.ctx.pending) = ToSet(k.pending) \ {pn}
             /\ r.copied \in Payloads /\ Len(r.copied) <= room
             /\ Keeps(k, r.ctx, r.copied)
             /\ r.pure_ack => r.copied = <<>>
<1> DEFINE T == Frames \cup {Ping}
           needed == Within(k.sent[pn], NeedsRepeat(k))
           others == Within(needed, NeedsRepeat(k) \ Data)
           data == Within(needed, Data)
           copied == Taking(others, room)
           rest == Leaving(others, room)
           m == k.misc \o rest
           queued == [k EXCEPT !.misc = m]
           j == DequeueRetransmit(queued, pn, needed = <<>>, data # <<>>)
           r == ProcessLost(k, pn, room)
<1>1. /\ k \in Contexts /\ pn \in Numbers /\ pn \in DOMAIN k.sent /\ pn \in Owned(k)
      /\ k.sent[pn] \in Seq(T) /\ k.misc \in Seq(T) /\ k.acked \subseteq Frames
  BY SoundTells DEF Owned, Payloads
<1>2. r.ctx = j /\ r.copied = copied /\ r.pure_ack = (needed = <<>>)
  <2>1. queued = [k EXCEPT !.misc = @ \o rest]
    BY <1>1 DEF Contexts
  <2> QED BY <2>1, Zenon DEF ProcessLost
<1> HIDE DEF T, r
<1>3. needed \in Seq(T) /\ ToSet(needed) = ToSet(k.sent[pn]) \cap NeedsRepeat(k)
  BY <1>1, WithinHolds
<1> HIDE DEF needed
<1>4. others \in Seq(T) /\ ToSet(others) = ToSet(needed) \cap (NeedsRepeat(k) \ Data)
  <2> DEFINE S == NeedsRepeat(k) \ Data
  <2> HIDE DEF S
  <2>1. Within(needed, S) \in Seq(T) /\ ToSet(Within(needed, S)) = ToSet(needed) \cap S
    BY <1>3, WithinHolds
  <2> QED BY <2>1 DEF S
<1>5. data \in Seq(T) /\ ToSet(data) = ToSet(needed) \cap Data
  BY <1>3, WithinHolds
<1> HIDE DEF others, data
<1>6. /\ copied \in Seq(T) /\ rest \in Seq(T) /\ Len(copied) <= room
      /\ ToSet(copied) \cup ToSet(rest) = ToSet(others) /\ Len(copied) <= Len(others)
  BY <1>4, TakenAndLeft
<1> HIDE DEF copied, rest
<1>7. m \in Seq(T) /\ ToSet(m) = ToSet(k.misc) \cup ToSet(rest)
  BY <1>1, <1>6, HoldsConcat
<1> HIDE DEF m
<1>8. /\ queued \in Contexts /\ queued.misc = m /\ queued.sent = k.sent
      /\ queued.acked = k.acked /\ queued.fresh = k.fresh
      /\ queued.pending = k.pending /\ queued.retransmitted = k.retransmitted
      /\ queued.data_repeat = k.data_repeat /\ queued.recycled = k.recycled
      /\ queued.in_transit = k.in_transit
  BY <1>1, <1>7 DEF Contexts, Payloads, T
<1> HIDE DEF queued
<1>9. Sound(queued)
  BY <1>8, SoundSame
<1>10. /\ Sound(j) /\ Alike(queued, j) /\ ToSet(j.pending) = ToSet(k.pending) \ {pn}
       /\ k.data_repeat \subseteq j.data_repeat
       /\ \A f \in ToSet(needed) \cap Data : \E q \in j.data_repeat : f \in ToSet(q.rest)
  <2>1. CASE needed = <<>>
    <3>1. ToSet(needed) = {}
      BY <2>1 DEF ToSet
    <3>2. ToSet(data) = {}
      BY <1>5, <3>1
    <3>3. data = <<>>
      BY <1>5, <3>2, HoldsMembers
    <3>4. j = DequeueRetransmit(queued, pn, TRUE, FALSE)
      BY <2>1, <3>3
    <3> HIDE DEF j
    <3>5. /\ Sound(j) /\ Alike(queued, j) /\ ToSet(j.pending) = ToSet(queued.pending) \ {pn}
          /\ j.data_repeat = queued.data_repeat
      BY <1>8, <1>9, <3>4, FreedIsSound
    <3> QED BY <1>8, <3>1, <3>5
  <2>2. CASE needed # <<>>
    <3> DEFINE kept == DequeueRetransmit(queued, pn, FALSE, FALSE)
    <3>1. /\ Sound(kept) /\ Alike(queued, kept)
          /\ ToSet(kept.pending) = ToSet(queued.pending) \ {pn}
          /\ pn \in ToSet(kept.retransmitted) /\ kept.data_repeat = queued.data_repeat
      BY <1>8, <1>9, KeptIsSound
    <3>2. CASE data = <<>>
      <4>1. j = kept
        BY <2>2, <3>2
      <4>2. ToSet(needed) \cap Data = {}
        BY <1>5, <3>2, HoldsMembers
      <4> HIDE DEF j, kept
      <4> QED BY <1>8, <3>1, <4>1, <4>2
    <3>3. CASE data # <<>>
      <4>1. j = QueueDataRepeat(kept, pn)
        BY <2>2, <3>3 DEF DequeueRetransmit
      <4>2. pn \notin Repeated(kept)
        <5>1. Repeated(kept) = Repeated(k)
          BY <1>8, <3>1 DEF Repeated
        <5> QED BY <5>1 DEF Sound
      <4> HIDE DEF j, kept
      <4>3. /\ Sound(j) /\ Alike(kept, j) /\ j.pending = kept.pending
            /\ kept.data_repeat \subseteq j.data_repeat
            /\ \A f \in ToSet(kept.sent[pn]) \cap Data :
                 \E q \in j.data_repeat : f \in ToSet(q.rest)
        BY <3>1, <4>1, <4>2, RepeatIsSound
      <4>4. Alike(queued, j)
        BY <3>1, <4>3 DEF Alike
      <4>5. ToSet(needed) \subseteq ToSet(kept.sent[pn])
        BY <1>3, <1>8, <3>1 DEF Alike
      <4> QED BY <1>8, <3>1, <4>3, <4>4, <4>5
    <3> QED BY <3>2, <3>3
  <2> QED BY <2>1, <2>2
<1> HIDE DEF j
<1>11. Keeps(k, j, copied)
  <2> SUFFICES ASSUME NEW f \in Frames, f \in Held(k)
               PROVE  f \in Held(j) \/ f \in ToSet(copied)
    BY DEF Keeps
  <2>1. /\ j.acked = k.acked /\ j.fresh = k.fresh /\ j.misc = m /\ j.sent = k.sent
    BY <1>8, <1>10 DEF Alike
  <2>2. CASE f \in k.acked \/ f \in ToSet(k.fresh) \/ f \in ToSet(k.misc)
    BY <1>7, <2>1, <2>2, HeldIs
  <2>3. CASE \E q \in k.data_repeat : f \in ToSet(q.rest)
    BY <1>10, <2>3, HeldIs
  <2>4. CASE \E q \in ToSet(k.pending) : f \in ToSet(k.sent[q])
    <3>1. PICK q \in ToSet(k.pending) : f \in ToSet(k.sent[q])
      BY <2>4
    <3>2. CASE q # pn
      BY <1>10, <2>1, <3>1, <3>2, HeldIs
    <3>3. CASE q = pn /\ f \in k.acked
      BY <2>1, <3>3, HeldIs
    <3>4. CASE q = pn /\ f \notin k.acked
      <4>1. f \in NeedsRepeat(k) /\ f \in ToSet(needed)
        BY <1>3, <3>1, <3>4 DEF NeedsRepeat
      <4>2. CASE f \in Data
        BY <1>10, <4>1, <4>2, HeldIs
      <4>3. CASE f \notin Data
        <5>1. f \in ToSet(copied) \/ f \in ToSet(rest)
          BY <1>4, <1>6, <4>1, <4>3
        <5> QED BY <1>7, <2>1, <5>1, HeldIs
      <4> QED BY <4>2, <4>3
    <3> QED BY <3>2, <3>3, <3>4
  <2> QED BY <2>2, <2>3, <2>4, HeldIs
<1>12. needed = <<>> => copied = <<>>
  <2>1. ASSUME needed = <<>>
        PROVE  copied = <<>>
    <3>1. ToSet(needed) = {}
      BY <2>1 DEF ToSet
    <3>2. ToSet(copied) = {}
      BY <1>4, <1>6, <3>1
    <3> QED BY <1>6, <3>2, HoldsMembers
  <2> QED BY <2>1
<1>13. copied \in Payloads
  BY <1>6 DEF Payloads, T
<1> QED BY <1>2, <1>6, <1>8, <1>10, <1>11, <1>12, <1>13 DEF Alike, r
-----------------------------------------------------------------------------
(* The loops over the packets that wait, oldest first.  While one goes on, *)
(* what it copies is nothing yet.                                          *)
LoopOK(k, a, room) ==
  /\ a \in Loops /\ Sound(a.ctx) /\ a.ctx.sent = k.sent
  /\ Keeps(k, a.ctx, a.frames)
  /\ Len(a.frames) <= room /\ (a.frames # <<>> => a.stop)

(* The next packet of a loop is the oldest.                                *)
Oldest(a, pn) == pn \in ToSet(a.ctx.pending) /\ \A q \in ToSet(a.ctx.pending) : pn <= q

(* A visit stops, or the packet has left the list.                         *)
Leads(k, a, pn, b, room) ==
  /\ LoopOK(k, b, room)
  /\ ~b.stop => ~a.stop /\ ToSet(b.ctx.pending) = ToSet(a.ctx.pending) \ {pn}

Begun(k) == [ctx |-> k, frames |-> <<>>, stop |-> FALSE]

LEMMA BegunIsOK ==
  ASSUME NEW k, Sound(k), NEW room \in Nat
  PROVE  LoopOK(k, Begun(k), room) /\ Begun(k).ctx = k /\ Begun(k).stop = FALSE
<1>1. Begun(k) \in Loops /\ Begun(k).frames = <<>>
  BY SoundTells DEF Begun, Loops, Payloads
<1> QED BY <1>1 DEF LoopOK, Begun, Keeps

LEMMA PendingWalk ==
  ASSUME NEW k, Sound(k), NEW visit, NEW room \in Nat,
         \A i \in 1 .. Len(k.pending) : \A a \in Loops :
           LoopOK(k, a, room) /\ (~a.stop => Oldest(a, k.pending[i]))
             => Leads(k, a, k.pending[i], visit[i][a], room)
  PROVE  LoopOK(k, Walk(visit, Begun(k), Len(k.pending)), room)
<1> DEFINE l == k.pending
           n == Len(l)
           Later(i) == {l[j] : j \in i + 1 .. n}
           Q == [i \in 0 .. n |-> {a \in Loops : /\ LoopOK(k, a, room)
                                                 /\ ~a.stop => ToSet(a.ctx.pending) = Later(i)}]
<1>1. l \in Seq(Numbers) /\ n \in Nat /\ DOMAIN l = 1 .. n /\ Rising(l)
  <2>1. l \in Seq(Numbers) /\ Rising(l)
    BY SoundTells DEF Sound
  <2> QED BY <2>1
<1>2. \A i \in 1 .. n : l[i] \in Int /\ \A j \in i + 1 .. n : l[j] \in Int /\ l[i] < l[j]
  <2>1. \A i \in 1 .. n : l[i] \in Int
    <3>1. \A i \in 1 .. n : l[i] \in Numbers
      BY <1>1
    <3> QED BY <3>1 DEF Numbers
  <2>2. \A i \in 1 .. n : \A j \in i + 1 .. n : j \in 1 .. n /\ i < j
    BY <1>1
  <2> QED BY <1>1, <2>1, <2>2 DEF Rising
<1>3. Later(0) = ToSet(l)
  BY <1>1 DEF ToSet
<1> HIDE DEF l, n
<1>4. Begun(k) \in Q[0]
  <2>1. LoopOK(k, Begun(k), room) /\ Begun(k).ctx = k
    BY BegunIsOK
  <2>2. Begun(k) \in Loops
    BY <2>1 DEF LoopOK
  <2>3. 0 \in 0 .. n
    BY <1>1
  <2> HIDE DEF Later
  <2> QED BY <1>3, <2>1, <2>2, <2>3 DEF l
<1>5. ASSUME NEW i \in 1 .. n, NEW a \in Q[i - 1]
      PROVE  visit[i][a] \in Q[i]
  <2>1. i \in 0 .. n /\ i - 1 \in 0 .. n /\ (i - 1) + 1 = i
    BY <1>1
  <2>2. Later(i - 1) = {l[i]} \cup Later(i)
    <3>1. i .. n = {i} \cup (i + 1 .. n)
      BY <1>1
    <3> QED BY <2>1, <3>1
  <2>3. \A q \in Later(i) : q \in Int /\ l[i] < q
    BY <1>2
  <2>4. l[i] \in Int
    BY <1>2
  <2> HIDE DEF Later
  <2>5. a \in Loops /\ LoopOK(k, a, room) /\ (~a.stop => ToSet(a.ctx.pending) = Later(i - 1))
    BY <2>1
  <2>6. ~a.stop => Oldest(a, l[i])
    BY <2>2, <2>3, <2>4, <2>5 DEF Oldest
  <2>7. Leads(k, a, l[i], visit[i][a], room)
    BY <2>5, <2>6 DEF l, n
  <2> DEFINE b == visit[i][a]
  <2> HIDE DEF b
  <2>8. LoopOK(k, b, room) /\ (~b.stop => ~a.stop /\ ToSet(b.ctx.pending) = ToSet(a.ctx.pending) \ {l[i]})
    BY <2>7 DEF Leads, b
  <2>9. ~b.stop => ToSet(b.ctx.pending) = Later(i)
    BY <2>2, <2>3, <2>4, <2>5, <2>8
  <2>10. b \in Loops
    BY <2>8 DEF LoopOK
  <2>11. b \in Q[i]
    BY <2>1, <2>8, <2>9, <2>10
  <2> QED BY <2>11 DEF b
<1>6. Walk(visit, Begun(k), n) \in Q[n]
  <2> HIDE DEF Q
  <2> QED BY <1>1, <1>4, <1>5, WalkLeads
<1> DEFINE w == Walk(visit, Begun(k), n)
<1> HIDE DEF w
<1>7. LoopOK(k, w, room)
  <2>1. n \in 0 .. n /\ w \in Q[n]
    BY <1>1, <1>6 DEF w
  <2> QED BY <2>1
<1> QED BY <1>7 DEF w, n, l

(* What is held after two steps, the first of which copied nothing.        *)
LEMMA KeepsChain ==
  ASSUME NEW k, NEW j, NEW m, NEW copied, Keeps(k, j, <<>>), Keeps(j, m, copied)
  PROVE  Keeps(k, m, copied)
<1>1. ToSet(<<>>) = {}
  BY DEF ToSet
<1> QED BY <1>1 DEF Keeps

LEMMA FreedKeeps ==
  ASSUME NEW k, Sound(k), NEW pn \in ToSet(k.pending),
         \A f \in ToSet(k.sent[pn]) : f \in Frames => f \in k.acked
  PROVE  Keeps(k, DequeueRetransmit(k, pn, TRUE, FALSE), <<>>)
<1> DEFINE j == DequeueRetransmit(k, pn, TRUE, FALSE)
<1>1. /\ Alike(k, j) /\ ToSet(j.pending) = ToSet(k.pending) \ {pn}
      /\ j.data_repeat = k.data_repeat
  BY FreedIsSound
<1> HIDE DEF j
<1>2. ASSUME NEW f \in Frames, f \in Held(k)
      PROVE  f \in Held(j)
  <2>1. \/ f \in k.acked \/ f \in ToSet(k.fresh) \/ f \in ToSet(k.misc)
        \/ \E r \in k.data_repeat : f \in ToSet(r.rest)
        \/ \E q \in ToSet(k.pending) : f \in ToSet(k.sent[q])
    BY <1>2, HeldIs
  <2>2. CASE \E q \in ToSet(k.pending) : f \in ToSet(k.sent[q])
    <3>1. PICK q \in ToSet(k.pending) : f \in ToSet(k.sent[q])
      BY <2>2
    <3>2. q = pn => f \in j.acked
      BY <1>1, <3>1 DEF Alike
    <3>3. q # pn => q \in ToSet(j.pending) /\ f \in ToSet(j.sent[q])
      BY <1>1, <3>1 DEF Alike
    <3> QED BY <3>2, <3>3, HeldIs
  <2>3. CASE f \in k.acked \/ f \in ToSet(k.fresh) \/ f \in ToSet(k.misc)
             \/ \E r \in k.data_repeat : f \in ToSet(r.rest)
    BY <1>1, <2>3, HeldIs DEF Alike
  <2> QED BY <2>1, <2>2, <2>3
<1> QED BY <1>2 DEF Keeps, j

LEMMA RetransmitPacketLeads ==
  ASSUME NEW k, NEW a \in Loops, LoopOK(k, a, Room), NEW pn, ~a.stop => Oldest(a, pn),
         NEW rack, NEW timer \in BOOLEAN
  PROVE  Leads(k, a, pn, RetransmitPacket(a, pn, rack, timer), Room)
<1> DEFINE lost == ProcessLost(a.ctx, pn, Room)
           b == RetransmitPacket(a, pn, rack, timer)
           stopped == [a EXCEPT !.stop = TRUE]
<1>1. /\ Sound(a.ctx) /\ a.ctx.sent = k.sent /\ Keeps(k, a.ctx, a.frames)
      /\ Len(a.frames) <= Room /\ (a.frames # <<>> => a.stop)
      /\ a.frames \in Payloads /\ a.ctx \in Contexts /\ a.stop \in BOOLEAN
  BY DEF LoopOK, Loops
<1>2. CASE a.stop
  <2>1. b = a
    BY <1>2 DEF RetransmitPacket
  <2> QED BY <1>2, <2>1 DEF Leads
<1>3. /\ stopped \in Loops /\ stopped.ctx = a.ctx /\ stopped.frames = a.frames /\ stopped.stop
  BY DEF Loops
<1>4. Leads(k, a, pn, stopped, Room)
  <2> HIDE DEF stopped
  <2> QED BY <1>1, <1>3 DEF Leads, LoopOK
<1>5. CASE ~a.stop
  <2>1. /\ pn \in ToSet(a.ctx.pending) /\ \A q \in ToSet(a.ctx.pending) : pn <= q
        /\ a.frames = <<>> /\ Room \in Nat /\ Keeps(k, a.ctx, <<>>)
    BY <1>1, <1>5, LossRecoveryAssumption DEF Oldest
  <2>2. /\ Sound(lost.ctx) /\ lost.ctx.sent = a.ctx.sent
        /\ ToSet(lost.ctx.pending) = ToSet(a.ctx.pending) \ {pn}
        /\ lost.copied \in Payloads /\ Len(lost.copied) <= Room
        /\ Keeps(a.ctx, lost.ctx, lost.copied)
        /\ lost.pure_ack => lost.copied = <<>>
    BY <1>1, <2>1, ProcessLostIsSound
  <2>3. Keeps(k, lost.ctx, lost.copied) /\ lost.ctx \in Contexts /\ lost.ctx.sent = k.sent
    BY <1>1, <2>1, <2>2, KeepsChain DEF Sound
  <2> DEFINE c == lost.ctx
             copied == lost.copied
             pure_ack == lost.pure_ack
  <2>4. b = IF IsProbablyLost(a.ctx, pn, rack)
            THEN [ctx |-> c, frames |-> copied, stop |-> copied # <<>>]
            ELSE IF ~timer THEN stopped
            ELSE IF a.ctx.sent[pn] = <<>>
            THEN [a EXCEPT !.ctx = DequeueRetransmit(@, pn, TRUE, FALSE)]
            ELSE IF a.ctx.is_pto_required THEN stopped
            ELSE IF pure_ack THEN [a EXCEPT !.ctx = c]
            ELSE [ctx |-> TimerExpired(a.ctx, c), frames |-> copied, stop |-> TRUE]
    BY <1>5, Zenon DEF RetransmitPacket
  <2> HIDE DEF lost, b, stopped, c, copied, pure_ack
  <2>5. ASSUME b = [ctx |-> c, frames |-> copied, stop |-> copied # <<>>]
       PROVE  Leads(k, a, pn, b, Room)
    <3>1. /\ b \in Loops /\ b.ctx = c /\ b.frames = copied /\ b.stop = (copied # <<>>)
      BY <2>2, <2>3, <2>5 DEF Loops, c, copied
    <3>2. LoopOK(k, b, Room)
      BY <2>2, <2>3, <3>1 DEF LoopOK, c, copied
    <3> QED BY <1>5, <2>2, <3>1, <3>2 DEF Leads, c
  <2>6. ASSUME b = stopped
       PROVE  Leads(k, a, pn, b, Room)
    BY <1>4, <2>6
  <2>7. ASSUME a.ctx.sent[pn] = <<>> /\ b = [a EXCEPT !.ctx = DequeueRetransmit(@, pn, TRUE, FALSE)]
       PROVE  Leads(k, a, pn, b, Room)
    <3> DEFINE d == DequeueRetransmit(a.ctx, pn, TRUE, FALSE)
    <3>1. b = [a EXCEPT !.ctx = d]
      BY <2>7 DEF Loops
    <3>2. /\ Sound(d) /\ Alike(a.ctx, d) /\ ToSet(d.pending) = ToSet(a.ctx.pending) \ {pn}
      BY <1>1, <2>1, FreedIsSound
    <3>3. Keeps(a.ctx, d, <<>>)
      <4>1. ToSet(a.ctx.sent[pn]) = {}
        BY <2>7 DEF ToSet
      <4> QED BY <1>1, <2>1, <4>1, FreedKeeps
    <3> HIDE DEF d
    <3>4. /\ b \in Loops /\ b.ctx = d /\ b.frames = a.frames /\ b.stop = a.stop
      BY <3>1, <3>2 DEF Loops, Sound
    <3>5. Keeps(k, d, <<>>) /\ d.sent = k.sent
      BY <1>1, <2>1, <3>2, <3>3, KeepsChain DEF Alike
    <3>6. LoopOK(k, b, Room)
      BY <1>1, <2>1, <3>2, <3>4, <3>5 DEF LoopOK
    <3> QED BY <1>5, <3>2, <3>4, <3>6 DEF Leads
  <2>8. ASSUME pure_ack /\ b = [a EXCEPT !.ctx = c]
       PROVE  Leads(k, a, pn, b, Room)
    <3>1. /\ b \in Loops /\ b.ctx = c /\ b.frames = a.frames /\ b.stop = a.stop
      BY <2>3, <2>8 DEF Loops, c
    <3>2. Keeps(k, c, a.frames)
      BY <2>1, <2>2, <2>3, <2>8 DEF c, pure_ack
    <3>3. LoopOK(k, b, Room)
      BY <1>1, <2>1, <2>2, <2>3, <3>1, <3>2 DEF LoopOK, c
    <3> QED BY <1>5, <2>2, <3>1, <3>3 DEF Leads, c
  <2>9. ASSUME b = [ctx |-> TimerExpired(a.ctx, c), frames |-> copied, stop |-> TRUE]
       PROVE  Leads(k, a, pn, b, Room)
    <3> DEFINE t == TimerExpired(a.ctx, c)
    <3>1. c \in Contexts /\ a.ctx \in Contexts
      BY <1>1, <2>3 DEF c
    <3> DEFINE n == c.nb_retransmit + 1
               d == c.demoted \/ a.ctx.nb_retransmit + 1 > Retransmits
    <3>2. n \in Nat /\ d \in BOOLEAN
      <4>1. c.nb_retransmit \in Nat
        BY <3>1 DEF Contexts
      <4> QED BY <4>1
    <3>3. t = [c EXCEPT !.is_pto_required = TRUE, !.nb_retransmit = n, !.demoted = d]
      BY <3>1 DEF TimerExpired, Contexts
    <3> HIDE DEF n, d, t
    <3>4. /\ t \in Contexts /\ t.sent = c.sent /\ t.pending = c.pending
          /\ t.retransmitted = c.retransmitted /\ t.data_repeat = c.data_repeat
          /\ t.recycled = c.recycled /\ t.in_transit = c.in_transit
          /\ t.acked = c.acked /\ t.misc = c.misc /\ t.fresh = c.fresh
      BY <3>1, <3>2, <3>3 DEF Contexts
    <3>5. Sound(t) /\ Held(t) = Held(c)
      BY <2>2, <3>4, SoundSame, HeldSame DEF c
    <3>6. Keeps(k, t, copied) /\ t.sent = k.sent
      BY <2>3, <3>4, <3>5 DEF Keeps, c, copied
    <3>7. b \in Loops /\ b.ctx = t /\ b.frames = copied /\ b.stop = TRUE
      BY <2>2, <2>9, <3>4 DEF Loops, copied, t
    <3>8. LoopOK(k, b, Room)
      BY <2>2, <3>5, <3>6, <3>7 DEF LoopOK, copied
    <3> QED BY <3>7, <3>8 DEF Leads
  <2>10. \/ b = [ctx |-> c, frames |-> copied, stop |-> copied # <<>>]
         \/ b = stopped
         \/ a.ctx.sent[pn] = <<>> /\ b = [a EXCEPT !.ctx = DequeueRetransmit(@, pn, TRUE, FALSE)]
         \/ pure_ack /\ b = [a EXCEPT !.ctx = c]
         \/ b = [ctx |-> TimerExpired(a.ctx, c), frames |-> copied, stop |-> TRUE]
    BY <2>4, Zenon
  <2>11. Leads(k, a, pn, b, Room)
    BY <2>5, <2>6, <2>7, <2>8, <2>9, <2>10
  <2> QED BY <2>11 DEF b
<1> QED BY <1>2, <1>5

LEMMA RetransmitNeededIsOK ==
  ASSUME NEW k, Sound(k), NEW rack, NEW timer \in BOOLEAN
  PROVE  LoopOK(k, RetransmitNeeded(k, rack, timer), Room)
<1> DEFINE visit == [i \in DOMAIN k.pending |-> [a \in Loops |->
                       RetransmitPacket(a, k.pending[i], rack, timer)]]
<1>1. DOMAIN k.pending = 1 .. Len(k.pending)
  BY SoundTells
<1>2. ASSUME NEW i \in 1 .. Len(k.pending), NEW a \in Loops, LoopOK(k, a, Room),
             ~a.stop => Oldest(a, k.pending[i])
      PROVE  Leads(k, a, k.pending[i], visit[i][a], Room)
  <2>1. visit[i][a] = RetransmitPacket(a, k.pending[i], rack, timer)
    BY <1>1
  <2> QED BY <1>2, <2>1, RetransmitPacketLeads
<1> HIDE DEF visit
<1>3. LoopOK(k, Walk(visit, Begun(k), Len(k.pending)), Room)
  BY <1>2, PendingWalk, LossRecoveryAssumption
<1> QED BY <1>3, Zenon DEF RetransmitNeeded, Begun, visit

LEMMA QueueOnAckLeads ==
  ASSUME NEW k, NEW a \in Loops, LoopOK(k, a, 0), NEW pn, ~a.stop => Oldest(a, pn), NEW rack
  PROVE  Leads(k, a, pn, QueueOnAck(a, pn, rack), 0)
<1> DEFINE lost == ProcessLost(a.ctx, pn, 0)
           b == QueueOnAck(a, pn, rack)
           c == lost.ctx
<1>1. /\ Sound(a.ctx) /\ a.ctx.sent = k.sent /\ Keeps(k, a.ctx, a.frames)
      /\ Len(a.frames) <= 0 /\ (a.frames # <<>> => a.stop)
      /\ a.frames \in Payloads /\ a.ctx \in Contexts /\ a.stop \in BOOLEAN
  BY DEF LoopOK, Loops
<1>2. CASE a.stop \/ ~IsProbablyLost(a.ctx, pn, rack)
  <2>1. b = [a EXCEPT !.stop = TRUE]
    BY <1>2 DEF QueueOnAck
  <2> HIDE DEF b
  <2>2. /\ b \in Loops /\ b.ctx = a.ctx /\ b.frames = a.frames /\ b.stop
    BY <2>1 DEF Loops
  <2>3. Leads(k, a, pn, b, 0)
    BY <1>1, <2>2 DEF Leads, LoopOK
  <2> QED BY <2>3 DEF b
<1>3. CASE ~(a.stop \/ ~IsProbablyLost(a.ctx, pn, rack))
  <2>1. b = [a EXCEPT !.ctx = c]
    <3>1. b = [a EXCEPT !.ctx = ProcessLost(@, pn, 0).ctx]
      BY <1>3, Zenon DEF QueueOnAck
    <3> HIDE DEF b
    <3> QED BY <3>1 DEF Loops
  <2>2. /\ pn \in ToSet(a.ctx.pending) /\ \A q \in ToSet(a.ctx.pending) : pn <= q
        /\ a.frames = <<>> /\ Keeps(k, a.ctx, <<>>) /\ ~a.stop
    BY <1>1, <1>3 DEF Oldest
  <2>3. /\ Sound(lost.ctx) /\ lost.ctx.sent = a.ctx.sent
        /\ ToSet(lost.ctx.pending) = ToSet(a.ctx.pending) \ {pn}
        /\ lost.copied \in Payloads /\ Len(lost.copied) <= 0
        /\ Keeps(a.ctx, lost.ctx, lost.copied)
    <3>1. 0 \in Nat /\ Sound(a.ctx) /\ pn \in ToSet(a.ctx.pending)
          /\ \A q \in ToSet(a.ctx.pending) : pn <= q
      BY <1>1, <2>2
    <3> HIDE DEF lost
    <3> QED BY <3>1, ProcessLostIsSound DEF lost
  <2>4. lost.copied = <<>>
    <3> DEFINE m == lost.copied
    <3> HIDE DEF m, lost
    <3>1. m \in Seq(Frames \cup {Ping}) /\ Len(m) <= 0
      BY <2>3 DEF m, Payloads
    <3>2. m = <<>>
      BY <3>1
    <3> QED BY <3>2 DEF m
  <2>5. Keeps(k, c, <<>>) /\ c \in Contexts /\ c.sent = k.sent /\ Sound(c)
    BY <1>1, <2>2, <2>3, <2>4, KeepsChain DEF Sound
  <2>6. ToSet(c.pending) = ToSet(a.ctx.pending) \ {pn}
    BY <2>3
  <2> HIDE DEF b, c
  <2>7. /\ b \in Loops /\ b.ctx = c /\ b.frames = a.frames /\ b.stop = a.stop
    BY <2>1, <2>5 DEF Loops
  <2>8. LoopOK(k, b, 0)
    BY <1>1, <2>2, <2>5, <2>7 DEF LoopOK
  <2>9. Leads(k, a, pn, b, 0)
    BY <2>2, <2>6, <2>7, <2>8 DEF Leads
  <2> QED BY <2>9 DEF b
<1> QED BY <1>2, <1>3

LEMMA QueueRetransmitOnAckIsOK ==
  ASSUME NEW k, Sound(k), NEW rack
  PROVE  LET j == QueueRetransmitOnAck(k, rack)
         IN  Sound(j) /\ j.sent = k.sent /\ Keeps(k, j, <<>>)
<1> DEFINE visit == [i \in DOMAIN k.pending |-> [a \in Loops |->
                       QueueOnAck(a, k.pending[i], rack)]]
           w == Walk(visit, Begun(k), Len(k.pending))
<1>1. DOMAIN k.pending = 1 .. Len(k.pending)
  BY SoundTells
<1>2. ASSUME NEW i \in 1 .. Len(k.pending), NEW a \in Loops, LoopOK(k, a, 0),
             ~a.stop => Oldest(a, k.pending[i])
      PROVE  Leads(k, a, k.pending[i], visit[i][a], 0)
  <2>1. visit[i][a] = QueueOnAck(a, k.pending[i], rack)
    BY <1>1
  <2> QED BY <1>2, <2>1, QueueOnAckLeads
<1> HIDE DEF visit
<1>3. LoopOK(k, w, 0)
  BY <1>2, PendingWalk
<1>4. QueueRetransmitOnAck(k, rack) = w.ctx
  BY Zenon DEF QueueRetransmitOnAck, Begun, visit
<1> HIDE DEF w
<1>5. /\ Sound(w.ctx) /\ w.ctx.sent = k.sent /\ Keeps(k, w.ctx, w.frames)
      /\ w.frames \in Seq(Frames \cup {Ping}) /\ Len(w.frames) <= 0
  BY <1>3 DEF LoopOK, Loops, Payloads
<1>6. w.frames = <<>>
  <2> DEFINE m == w.frames
  <2> HIDE DEF m
  <2>1. m \in Seq(Frames \cup {Ping}) /\ Len(m) <= 0
    BY <1>5 DEF m
  <2>2. m = <<>>
    BY <2>1
  <2> QED BY <2>2 DEF m
<1> QED BY <1>4, <1>5, <1>6
-----------------------------------------------------------------------------
(* The tree of data to repeat.                                             *)
LEMMA FirstRepeatIs ==
  ASSUME NEW k, Sound(k), k.data_repeat # {}
  PROVE  FirstRepeat(k) \in k.data_repeat
<1> DEFINE D == k.data_repeat
           heads == {Head(r.rest) : r \in D}
           h == Min(heads)
           pns == {r.pn : r \in {q \in D : Head(q.rest) = h}}
           First(r) == \A q \in D : \/ Head(r.rest) < Head(q.rest)
                                    \/ Head(r.rest) = Head(q.rest) /\ r.pn <= q.pn
<1>1. \A r \in D : r.rest \in Seq(Data) /\ r.rest # <<>> /\ r.pn \in Nat
  <2>1. \A r \in D : r.rest \in Seq(Data) /\ r.rest # <<>>
    BY DEF Sound
  <2>2. \A r \in D : r.pn \in Numbers
    BY SoundTells DEF Repeated
  <2> QED BY <2>1, <2>2 DEF Numbers
<1>2. Data \subseteq Nat
  BY LossRecoveryAssumption, HoldsMembers DEF Data
<1> HIDE DEF D
<1>3. \A r \in D : Head(r.rest) \in Nat
  <2>1. \A r \in D : Head(r.rest) \in Data
    BY <1>1
  <2> QED BY <1>2, <2>1
<1>4. h \in heads /\ \A r \in D : h <= Head(r.rest)
  <2>1. heads \subseteq Nat /\ heads # {}
    BY <1>3 DEF D
  <2> HIDE DEF heads
  <2>2. Min(heads) \in heads /\ \A i \in heads : Min(heads) <= i
    BY <2>1, LeastIs
  <2> QED BY <2>2 DEF heads
<1> HIDE DEF h
<1>5. Min(pns) \in pns /\ \A r \in D : Head(r.rest) = h => Min(pns) <= r.pn
  <2>1. pns \subseteq Nat /\ pns # {}
    BY <1>1, <1>4
  <2> HIDE DEF pns
  <2>2. Min(pns) \in pns /\ \A i \in pns : Min(pns) <= i
    BY <2>1, LeastIs
  <2> QED BY <2>2 DEF pns
<1>6. PICK r \in D : Head(r.rest) = h /\ r.pn = Min(pns)
  BY <1>5
<1>7. First(r)
  <2> SUFFICES ASSUME NEW q \in D
               PROVE  \/ Head(r.rest) < Head(q.rest)
                      \/ Head(r.rest) = Head(q.rest) /\ r.pn <= q.pn
    OBVIOUS
  <2>1. h <= Head(q.rest) /\ h \in Nat /\ Head(q.rest) \in Nat
    BY <1>3, <1>4, <1>6
  <2>2. Head(q.rest) = h => r.pn <= q.pn
    BY <1>5, <1>6
  <2> QED BY <1>6, <2>1, <2>2
<1>8. (CHOOSE s \in D : First(s)) \in D
  <2> HIDE DEF First
  <2> QED BY <1>6, <1>7, Zenon
<1> QED BY <1>8, Zenon DEF FirstRepeat, D

LEMMA DataRepeatSet ==
  ASSUME NEW k \in Contexts, NEW R \in SUBSET [pn : Numbers, rest : Payloads]
  PROVE  LET j == [k EXCEPT !.data_repeat = R]
         IN  /\ j \in Contexts /\ j.data_repeat = R /\ Alike(k, j)
             /\ j.pending = k.pending /\ j.retransmitted = k.retransmitted
             /\ j.in_transit = k.in_transit /\ j.recycled = k.recycled
  BY DEF Contexts, Alike

(* All the data of a packet was copied.                                    *)
LEMMA RepeatedIsSound ==
  ASSUME NEW k, Sound(k), NEW r \in k.data_repeat
  PROVE  LET j == DequeueDataRepeat(k, r)
         IN  /\ Sound(j) /\ Alike(k, j) /\ j.pending = k.pending
             /\ j.data_repeat = k.data_repeat \ {r}
<1> DEFINE R == k.data_repeat \ {r}
           o == [k EXCEPT !.data_repeat = R]
           c == Recycle(o, r.pn)
           j == DequeueDataRepeat(k, r)
<1>1. /\ k \in Contexts /\ r.pn \in Numbers /\ r.pn \in DOMAIN k.sent /\ r.pn \in Owned(k)
      /\ k.data_repeat \in SUBSET [pn : Numbers, rest : Payloads]
      /\ k.recycled \in [Numbers -> Nat]
  BY SoundTells DEF Owned, Repeated
<1>2. /\ o \in Contexts /\ o.data_repeat = R /\ Alike(k, o)
      /\ o.pending = k.pending /\ o.retransmitted = k.retransmitted
      /\ o.in_transit = k.in_transit /\ o.recycled = k.recycled
  BY <1>1, DataRepeatSet
<1>3. j = IF r.pn \in ToSet(k.retransmitted) THEN o ELSE c
  <2>1. o = [k EXCEPT !.data_repeat = @ \ {r}]
    BY <1>1 DEF Contexts
  <2> QED BY <2>1, Zenon DEF DequeueDataRepeat
<1>4. /\ \A q \in k.data_repeat : q.pn = r.pn => q = r
      /\ \A q \in Numbers : k.recycled[q] = IF q \in DOMAIN k.sent \ Owned(k) THEN 1 ELSE 0
  BY DEF Sound
<1>5. /\ R \subseteq k.data_repeat
      /\ {q.pn : q \in R} = Repeated(k) \ {r.pn}
  BY <1>4 DEF Repeated
<1> HIDE DEF R, o, j
<1>6. r.pn \notin ToSet(k.pending)
  BY DEF Sound, Repeated
<1>7. CASE r.pn \in ToSet(k.retransmitted)
  <2>1. j = o
    BY <1>3, <1>7
  <2>2. Repeated(o) = Repeated(k) \ {r.pn} /\ Owned(o) = Owned(k)
    <3>1. Repeated(o) = Repeated(k) \ {r.pn}
      BY <1>2, <1>5 DEF Repeated
    <3> QED BY <1>2, <1>7, <3>1 DEF Owned
  <2>3. Sound(o)
    BY <1>2, <1>5, <2>2 DEF Sound, Alike
  <2> QED BY <1>2, <2>1, <2>3 DEF j, R
<1>8. CASE r.pn \notin ToSet(k.retransmitted)
  <2>1. j = c
    BY <1>3, <1>8
  <2>2. /\ c \in Contexts /\ Alike(o, c)
        /\ c.pending = o.pending /\ c.retransmitted = o.retransmitted
        /\ c.data_repeat = o.data_repeat /\ c.in_transit = o.in_transit
        /\ \A q \in Numbers :
             c.recycled[q] = IF q = r.pn THEN o.recycled[q] + 1 ELSE o.recycled[q]
    BY <1>1, <1>2, RecycleIs
  <2> HIDE DEF c
  <2>3. Repeated(c) = Repeated(k) \ {r.pn} /\ Owned(c) = Owned(k) \ {r.pn}
    <3>1. Repeated(c) = Repeated(k) \ {r.pn}
      BY <1>2, <1>5, <2>2 DEF Repeated
    <3> QED BY <1>2, <1>6, <1>8, <2>2, <3>1 DEF Owned
  <2>4. Alike(k, c)
    BY <1>2, <2>2 DEF Alike
  <2>5. \A q \in Numbers : c.recycled[q] = IF q \in DOMAIN c.sent \ Owned(c) THEN 1 ELSE 0
    <3>1. c.sent = k.sent
      BY <2>4 DEF Alike
    <3> QED BY <1>1, <1>2, <1>4, <2>2, <2>3, <3>1
  <2>6. Sound(c)
    BY <1>2, <1>5, <2>2, <2>3, <2>4, <2>5 DEF Sound, Alike
  <2> QED BY <1>2, <2>1, <2>2, <2>4, <2>6 DEF j, R
<1> QED BY <1>7, <1>8

(* Some of it was.                                                         *)
LEMMA ShortenedIsSound ==
  ASSUME NEW k, Sound(k), NEW r \in k.data_repeat, Tail(r.rest) # <<>>
  PROVE  LET e == [r EXCEPT !.rest = Tail(@)]
             j == [k EXCEPT !.data_repeat = (@ \ {r}) \cup {e}]
         IN  /\ Sound(j) /\ Alike(k, j) /\ j.pending = k.pending
             /\ j.data_repeat = (k.data_repeat \ {r}) \cup {e} /\ e.rest = Tail(r.rest)
<1> DEFINE e == [r EXCEPT !.rest = Tail(@)]
           R == (k.data_repeat \ {r}) \cup {e}
           j == [k EXCEPT !.data_repeat = R]
<1>1. /\ k \in Contexts /\ r \in [pn : Numbers, rest : Payloads]
      /\ k.data_repeat \in SUBSET [pn : Numbers, rest : Payloads]
  BY SoundTells DEF Sound, Contexts
<1>2. r.rest \in Seq(Data) /\ r.rest # <<>>
  BY DEF Sound
<1>3. /\ Tail(r.rest) \in Seq(Data)
      /\ Tail(r.rest) \in Payloads
  <2>1. r.rest \in Seq(Frames \cup {Ping})
    BY <1>1 DEF Payloads
  <2>2. Tail(r.rest) \in Seq(Frames \cup {Ping})
    BY <1>2, <2>1
  <2> QED BY <1>2, <2>2 DEF Payloads
<1>4. e \in [pn : Numbers, rest : Payloads] /\ e.pn = r.pn /\ e.rest = Tail(r.rest)
  BY <1>1, <1>3
<1> HIDE DEF e
<1>5. /\ \A q \in R : q.rest \in Seq(Data) /\ q.rest # <<>>
      /\ \A p, q \in R : p.pn = q.pn => p = q
      /\ {q.pn : q \in R} = Repeated(k)
  <2>1. /\ \A q \in k.data_repeat : q.rest \in Seq(Data) /\ q.rest # <<>>
        /\ \A p, q \in k.data_repeat : p.pn = q.pn => p = q
    BY DEF Sound
  <2>2. \A q \in R : (q \in k.data_repeat /\ q # r) \/ q = e
    OBVIOUS
  <2>3. \A q \in R : q.rest \in Seq(Data) /\ q.rest # <<>>
    BY <1>3, <1>4, <2>1, <2>2
  <2>4. \A p, q \in R : p.pn = q.pn => p = q
    BY <1>4, <2>1, <2>2
  <2>5. {q.pn : q \in R} = Repeated(k)
    <3>1. \A q \in k.data_repeat : q \in R \/ q = r
      OBVIOUS
    <3>2. e \in R
      OBVIOUS
    <3> HIDE DEF R
    <3> QED BY <1>4, <2>2, <3>1, <3>2 DEF Repeated
  <2> QED BY <2>3, <2>4, <2>5
<1>6. R \in SUBSET [pn : Numbers, rest : Payloads]
  BY <1>1, <1>4
<1>7. j = [k EXCEPT !.data_repeat = (@ \ {r}) \cup {e}]
  BY <1>1 DEF Contexts
<1> HIDE DEF R
<1>8. /\ j \in Contexts /\ j.data_repeat = R /\ Alike(k, j)
      /\ j.pending = k.pending /\ j.retransmitted = k.retransmitted
      /\ j.in_transit = k.in_transit /\ j.recycled = k.recycled
  BY <1>1, <1>6, DataRepeatSet
<1> HIDE DEF j
<1>9. Repeated(j) = Repeated(k) /\ Owned(j) = Owned(k)
  <2>1. Repeated(j) = Repeated(k)
    BY <1>5, <1>8 DEF Repeated
  <2> QED BY <1>8, <2>1 DEF Owned
<1>10. Sound(j)
  BY <1>5, <1>8, <1>9 DEF Sound, Alike
<1> QED BY <1>4, <1>7, <1>8, <1>10 DEF R, e
-----------------------------------------------------------------------------
(* The next packet: the context and the frames that go into it.            *)
FillOK(k, a) ==
  /\ Sound(a.ctx) /\ a.ctx.sent = k.sent /\ Keeps(k, a.ctx, a.frames)
  /\ a.frames \in Payloads

(* Frames are held after as before, or in the packet, in which one more    *)
(* may be.                                                                 *)
LEMMA KeepsMore ==
  ASSUME NEW k, NEW j, NEW m, NEW copied, NEW more, NEW x,
         Keeps(k, j, copied), Keeps(j, m, <<>>) \/ Keeps(j, m, more),
         ToSet(copied) \subseteq ToSet(x), ToSet(more) \subseteq ToSet(x)
  PROVE  Keeps(k, m, x)
<1>1. ToSet(<<>>) = {}
  BY DEF ToSet
<1> QED BY <1>1 DEF Keeps

LEMMA CopyRepeatIsOK ==
  ASSUME NEW k, NEW a \in Loops, FillOK(k, a), Len(a.frames) < Room, a.ctx.data_repeat # {}
  PROVE  LET b == CopyRepeat(a)
         IN  b \in Loops /\ FillOK(k, b) /\ Len(b.frames) <= Room
<1> DEFINE r == FirstRepeat(a.ctx)
           f == Head(r.rest)
           T == Frames \cup {Ping}
           copied == IF f \in NeedsRepeat(a.ctx) THEN Append(a.frames, f) ELSE a.frames
           e == [r EXCEPT !.rest = Tail(@)]
           c == DequeueDataRepeat(a.ctx, r)
           d == [a.ctx EXCEPT !.data_repeat = (@ \ {r}) \cup {e}]
           b == CopyRepeat(a)
<1>1. b = IF Tail(r.rest) = <<>> THEN [ctx |-> c, frames |-> copied, stop |-> FALSE]
          ELSE [ctx |-> d, frames |-> copied, stop |-> TRUE]
  BY Zenon DEF CopyRepeat
<1>2. Sound(a.ctx) /\ a.ctx.sent = k.sent /\ Keeps(k, a.ctx, a.frames) /\ a.frames \in Seq(T)
  BY DEF FillOK, Payloads
<1>3. r \in a.ctx.data_repeat
  BY <1>2, FirstRepeatIs
<1> HIDE DEF r
<1>4. r.rest \in Seq(Data) /\ r.rest # <<>> /\ r.rest \in Seq(T)
  <2>1. r.rest \in Payloads
    BY <1>2, <1>3, SoundTells
  <2> QED BY <1>2, <1>3, <2>1 DEF Sound, Payloads
<1>5. f \in Data /\ f \in T /\ ToSet(r.rest) = {f} \cup ToSet(Tail(r.rest))
  <2>1. f \in Data
    BY <1>4
  <2>2. f = r.rest[1] /\ Len(r.rest) \in Nat \ {0} /\ Len(Tail(r.rest)) = Len(r.rest) - 1
        /\ \A i \in 1 .. Len(r.rest) - 1 : Tail(r.rest)[i] = r.rest[i + 1]
        /\ DOMAIN r.rest = 1 .. Len(r.rest) /\ DOMAIN Tail(r.rest) = 1 .. Len(r.rest) - 1
    BY <1>4
  <2>3. \A i \in 1 .. Len(r.rest) : i = 1 \/ (i - 1 \in 1 .. Len(r.rest) - 1 /\ (i - 1) + 1 = i)
    BY <2>2
  <2>4. \A i \in 1 .. Len(r.rest) - 1 : i + 1 \in 1 .. Len(r.rest)
    BY <2>2
  <2>5. 1 \in 1 .. Len(r.rest)
    BY <2>2
  <2>6. Data \subseteq T
    BY DEF Frames
  <2> HIDE DEF f, T
  <2>7. ASSUME NEW i \in 1 .. Len(r.rest)
        PROVE  r.rest[i] \in {f} \cup ToSet(Tail(r.rest))
    <3>1. CASE i = 1
      BY <2>2, <3>1
    <3>2. CASE i # 1
      <4>1. i - 1 \in DOMAIN Tail(r.rest) /\ r.rest[i] = Tail(r.rest)[i - 1]
        BY <2>2, <2>3, <3>2
      <4>2. Tail(r.rest)[i - 1] \in ToSet(Tail(r.rest))
        BY <4>1, Zenon DEF ToSet
      <4> QED BY <4>1, <4>2
    <3> QED BY <3>1, <3>2
  <2>8. \A x \in {f} \cup ToSet(Tail(r.rest)) : x \in ToSet(r.rest)
    BY <2>2, <2>4, <2>5 DEF ToSet
  <2>9. ToSet(r.rest) = {f} \cup ToSet(Tail(r.rest))
    <3>1. ASSUME NEW x \in ToSet(r.rest)
          PROVE  x \in {f} \cup ToSet(Tail(r.rest))
      <4>1. PICK i \in 1 .. Len(r.rest) : x = r.rest[i]
        <5>1. DOMAIN r.rest = 1 .. Len(r.rest)
          BY <2>2
        <5> QED BY <5>1, Zenon DEF ToSet
      <4> QED BY <2>7, <4>1
    <3> QED BY <2>8, <3>1, Zenon
  <2> QED BY <2>1, <2>6, <2>9
<1> HIDE DEF f
<1>6. /\ copied \in Seq(T) /\ Len(copied) <= Room
      /\ ToSet(a.frames) \subseteq ToSet(copied)
      /\ f \in ToSet(copied) \/ f \in a.ctx.acked
  <2>1. Room \in Nat /\ Len(a.frames) \in Nat
    BY <1>2, LossRecoveryAssumption
  <2>2. CASE f \in NeedsRepeat(a.ctx)
    <3>1. Len(Append(a.frames, f)) = Len(a.frames) + 1
      BY <1>2, <1>5
    <3>2. Append(a.frames, f) \in Seq(T) /\ ToSet(Append(a.frames, f)) = ToSet(a.frames) \cup {f}
      BY <1>2, <1>5, HoldsAppend
    <3> QED BY <2>1, <2>2, <3>1, <3>2
  <2>3. CASE f \notin NeedsRepeat(a.ctx)
    <3>1. f \in a.ctx.acked
      BY <1>5, <2>3 DEF NeedsRepeat
    <3> QED BY <1>2, <2>1, <2>3, <3>1
  <2> QED BY <2>2, <2>3
<1> HIDE DEF copied, b
<1>7. CASE Tail(r.rest) = <<>>
  <2>1. b = [ctx |-> c, frames |-> copied, stop |-> FALSE]
    BY <1>1, <1>7
  <2>2. /\ Sound(c) /\ Alike(a.ctx, c) /\ c.pending = a.ctx.pending
        /\ c.data_repeat = a.ctx.data_repeat \ {r}
    BY <1>2, <1>3, RepeatedIsSound
  <2> HIDE DEF c
  <2>3. ToSet(r.rest) = {f}
    <3>1. ToSet(Tail(r.rest)) = {}
      BY <1>7 DEF ToSet
    <3> QED BY <1>5, <3>1
  <2>4. Keeps(a.ctx, c, copied)
    <3> SUFFICES ASSUME NEW x \in Frames, x \in Held(a.ctx)
                 PROVE  x \in Held(c) \/ x \in ToSet(copied)
      BY DEF Keeps
    <3>1. CASE x = f
      BY <1>6, <2>2, <3>1, HeldIs DEF Alike
    <3>2. CASE x # f
      <4>1. \/ x \in a.ctx.acked \/ x \in ToSet(a.ctx.fresh) \/ x \in ToSet(a.ctx.misc)
            \/ \E q \in a.ctx.data_repeat : x \in ToSet(q.rest) /\ q # r
            \/ \E pn \in ToSet(a.ctx.pending) : x \in ToSet(a.ctx.sent[pn])
        BY <2>3, <3>2, HeldIs
      <4> QED BY <2>2, <4>1, HeldIs DEF Alike
    <3> QED BY <3>1, <3>2
  <2>5. Keeps(k, c, copied)
    BY <1>2, <1>6, <2>4, KeepsMore
  <2>6. b \in Loops /\ b.ctx = c /\ b.frames = copied
    BY <1>6, <2>1, <2>2 DEF Loops, Payloads, T, Sound
  <2> QED BY <1>2, <1>6, <2>2, <2>5, <2>6 DEF FillOK, Alike, Payloads, T, b
<1>8. CASE Tail(r.rest) # <<>>
  <2>1. b = [ctx |-> d, frames |-> copied, stop |-> TRUE]
    BY <1>1, <1>8
  <2>2. /\ Sound(d) /\ Alike(a.ctx, d) /\ d.pending = a.ctx.pending
        /\ d.data_repeat = (a.ctx.data_repeat \ {r}) \cup {e} /\ e.rest = Tail(r.rest)
    BY <1>2, <1>3, <1>8, ShortenedIsSound
  <2> HIDE DEF d, e
  <2>3. Keeps(a.ctx, d, copied)
    <3> SUFFICES ASSUME NEW x \in Frames, x \in Held(a.ctx)
                 PROVE  x \in Held(d) \/ x \in ToSet(copied)
      BY DEF Keeps
    <3>1. CASE x = f
      BY <1>6, <2>2, <3>1, HeldIs DEF Alike
    <3>2. CASE x # f
      <4>1. \/ x \in a.ctx.acked \/ x \in ToSet(a.ctx.fresh) \/ x \in ToSet(a.ctx.misc)
            \/ \E q \in a.ctx.data_repeat : x \in ToSet(q.rest)
            \/ \E pn \in ToSet(a.ctx.pending) : x \in ToSet(a.ctx.sent[pn])
        BY HeldIs
      <4>2. CASE \E q \in a.ctx.data_repeat : x \in ToSet(q.rest)
        <5>1. PICK q \in a.ctx.data_repeat : x \in ToSet(q.rest)
          BY <4>2
        <5>2. q = r => x \in ToSet(e.rest)
          BY <1>5, <2>2, <3>2, <5>1
        <5> QED BY <2>2, <5>1, <5>2, HeldIs
      <4> QED BY <2>2, <4>1, <4>2, HeldIs DEF Alike
    <3> QED BY <3>1, <3>2
  <2>4. Keeps(k, d, copied)
    BY <1>2, <1>6, <2>3, KeepsMore
  <2>5. b \in Loops /\ b.ctx = d /\ b.frames = copied
    BY <1>6, <2>1, <2>2 DEF Loops, Payloads, T, Sound
  <2> QED BY <1>2, <1>6, <2>2, <2>4, <2>5 DEF FillOK, Alike, Payloads, T, b
<1> QED BY <1>7, <1>8

LEMMA CopyStreamFramesIsOK ==
  ASSUME NEW k, NEW j, Sound(j), j.sent = k.sent, NEW frames \in Payloads,
         Len(frames) <= Room, Keeps(k, j, frames)
  PROVE  LET c == CopyStreamFrames(j, frames)
         IN  c \in Loops /\ FillOK(k, c) /\ Len(c.frames) <= Room
<1> DEFINE start == [ctx |-> j, frames |-> frames, stop |-> FALSE]
           visit == [i \in DOMAIN j.sent |-> [a \in Loops |->
                       IF a.stop \/ a.ctx.data_repeat = {} \/ Len(a.frames) >= Room
                       THEN [a EXCEPT !.stop = TRUE] ELSE CopyRepeat(a)]]
           n == Len(j.sent)
           OK == {a \in Loops : FillOK(k, a) /\ Len(a.frames) <= Room}
           Q == [i \in 0 .. n |-> OK]
<1>1. n \in Nat /\ DOMAIN j.sent = 1 .. n
  <2> DEFINE T == Payloads
  <2> HIDE DEF T
  <2>1. j.sent \in Seq(T)
    BY SoundTells DEF T
  <2> QED BY <2>1
<1> HIDE DEF n
<1>2. start \in OK
  BY SoundTells DEF FillOK, Loops
<1>3. ASSUME NEW i \in 1 .. n, NEW a \in OK
      PROVE  visit[i][a] \in OK
  <2>1. a \in Loops /\ FillOK(k, a) /\ Len(a.frames) <= Room
    OBVIOUS
  <2> HIDE DEF OK
  <2>2. visit[i][a] = IF a.stop \/ a.ctx.data_repeat = {} \/ Len(a.frames) >= Room
                      THEN [a EXCEPT !.stop = TRUE] ELSE CopyRepeat(a)
    BY <1>1, <2>1
  <2> HIDE DEF visit
  <2>3. CASE a.stop \/ a.ctx.data_repeat = {} \/ Len(a.frames) >= Room
    <3> DEFINE b == [a EXCEPT !.stop = TRUE]
    <3>1. b \in Loops /\ b.ctx = a.ctx /\ b.frames = a.frames
      BY <2>1 DEF Loops
    <3> HIDE DEF b
    <3>2. b \in OK
      BY <2>1, <3>1 DEF FillOK, OK
    <3> QED BY <2>2, <2>3, <3>2 DEF b
  <2>4. CASE ~(a.stop \/ a.ctx.data_repeat = {} \/ Len(a.frames) >= Room)
    <3>1. Len(a.frames) < Room /\ a.ctx.data_repeat # {}
      <4>1. Len(a.frames) \in Nat /\ Room \in Nat
        BY <2>1, LossRecoveryAssumption DEF Loops, Payloads
      <4> QED BY <2>4, <4>1
    <3>2. CopyRepeat(a) \in OK
      BY <2>1, <3>1, CopyRepeatIsOK DEF OK
    <3> QED BY <2>2, <2>4, <3>2
  <2> QED BY <2>3, <2>4
<1> HIDE DEF OK, visit, start
<1>4. start \in Q[0] /\ \A i \in 1 .. n : \A a \in Q[i - 1] : visit[i][a] \in Q[i]
  <2>1. \A i \in 1 .. n : i \in 0 .. n /\ i - 1 \in 0 .. n
    BY <1>1
  <2>2. 0 \in 0 .. n
    BY <1>1
  <2> QED BY <1>2, <1>3, <2>1, <2>2
<1>5. Walk(visit, start, n) \in Q[n]
  <2> HIDE DEF Q
  <2> QED BY <1>1, <1>4, WalkLeads
<1>6. n \in 0 .. n
  BY <1>1
<1> DEFINE w == Walk(visit, start, n)
<1>7. w \in OK
  <2> HIDE DEF w
  <2>1. w \in Q[n]
    BY <1>5 DEF w
  <2> QED BY <1>6, <2>1
<1>8. CopyStreamFrames(j, frames) = w
  BY Zenon DEF CopyStreamFrames, visit, start, n
<1> HIDE DEF w
<1> QED BY <1>7, <1>8 DEF OK
-----------------------------------------------------------------------------
(* The queues of frames that wait to be sent.                              *)
LEMMA QueueIsSound ==
  ASSUME NEW k, Sound(k), NEW m \in Payloads, NEW copied,
         \A f \in ToSet(k.misc) : f \in ToSet(m) \/ f \in ToSet(copied)
  PROVE  LET j == [k EXCEPT !.misc = m]
         IN  Sound(j) /\ j.sent = k.sent /\ Keeps(k, j, copied)
<1> DEFINE j == [k EXCEPT !.misc = m]
<1>1. k \in Contexts
  BY DEF Sound
<1>2. /\ j \in Contexts /\ j.sent = k.sent /\ j.pending = k.pending
      /\ j.retransmitted = k.retransmitted /\ j.data_repeat = k.data_repeat
      /\ j.recycled = k.recycled /\ j.in_transit = k.in_transit
      /\ j.acked = k.acked /\ j.fresh = k.fresh /\ j.misc = m
  BY <1>1 DEF Contexts
<1> HIDE DEF j
<1>3. Sound(j)
  BY <1>2, SoundSame
<1>4. Keeps(k, j, copied)
  <2> SUFFICES ASSUME NEW f \in Frames, f \in Held(k)
               PROVE  f \in Held(j) \/ f \in ToSet(copied)
    BY DEF Keeps
  <2>1. \/ f \in k.acked \/ f \in ToSet(k.fresh) \/ f \in ToSet(k.misc)
        \/ \E r \in k.data_repeat : f \in ToSet(r.rest)
        \/ \E pn \in ToSet(k.pending) : f \in ToSet(k.sent[pn])
    BY HeldIs
  <2> QED BY <1>2, <2>1, HeldIs
<1> QED BY <1>2, <1>3, <1>4 DEF j

LEMMA FreshIsSound ==
  ASSUME NEW k, Sound(k), NEW m \in Payloads, NEW copied,
         \A f \in ToSet(k.fresh) : f \in ToSet(m) \/ f \in ToSet(copied)
  PROVE  LET j == [k EXCEPT !.fresh = m]
         IN  Sound(j) /\ j.sent = k.sent /\ Keeps(k, j, copied)
<1> DEFINE j == [k EXCEPT !.fresh = m]
<1>1. k \in Contexts
  BY DEF Sound
<1>2. /\ j \in Contexts /\ j.sent = k.sent /\ j.pending = k.pending
      /\ j.retransmitted = k.retransmitted /\ j.data_repeat = k.data_repeat
      /\ j.recycled = k.recycled /\ j.in_transit = k.in_transit
      /\ j.acked = k.acked /\ j.misc = k.misc /\ j.fresh = m
  BY <1>1 DEF Contexts
<1> HIDE DEF j
<1>3. Sound(j)
  BY <1>2, SoundSame
<1>4. Keeps(k, j, copied)
  <2> SUFFICES ASSUME NEW f \in Frames, f \in Held(k)
               PROVE  f \in Held(j) \/ f \in ToSet(copied)
    BY DEF Keeps
  <2>1. \/ f \in k.acked \/ f \in ToSet(k.fresh) \/ f \in ToSet(k.misc)
        \/ \E r \in k.data_repeat : f \in ToSet(r.rest)
        \/ \E pn \in ToSet(k.pending) : f \in ToSet(k.sent[pn])
    BY HeldIs
  <2> QED BY <1>2, <2>1, HeldIs
<1> QED BY <1>2, <1>3, <1>4 DEF j

LEMMA AssembleIsOK ==
  ASSUME NEW k, Sound(k)
  PROVE  FillOK(k, Assemble(k))
<1> DEFINE T == Frames \cup {Ping}
           queued == Taking(k.misc, Room)
           m == Leaving(k.misc, Room)
           k1 == [k EXCEPT !.misc = m]
           c == CopyStreamFrames(k1, queued)
           room == Room - Len(c.frames)
           fr == Taking(c.ctx.fresh, room)
           lf == Leaving(c.ctx.fresh, room)
           all == c.frames \o fr
           d == [c.ctx EXCEPT !.fresh = lf]
           frames == IF all = <<>> /\ k.is_pto_required THEN <<Ping>> ELSE all
           r == Assemble(k)
<1>1. k \in Contexts /\ k.misc \in Seq(T) /\ Room \in Nat
  BY SoundTells, LossRecoveryAssumption DEF Payloads
<1>2. /\ queued \in Seq(T) /\ m \in Seq(T) /\ Len(queued) <= Room
      /\ ToSet(queued) \cup ToSet(m) = ToSet(k.misc)
  <2> HIDE DEF T
  <2> QED BY <1>1, TakenAndLeft
<1>3. k1 = [k EXCEPT !.misc = Leaving(@, Room)]
  BY <1>1 DEF Contexts
<1>4. r = IF k.in_transit > Cwin /\ ~k.is_pto_required
          THEN [ctx |-> k1, frames |-> queued]
          ELSE [a \in Loops |->
                 LET x == Room - Len(a.frames)
                     y == a.frames \o Taking(a.ctx.fresh, x)
                 IN  [ctx |-> [a.ctx EXCEPT !.fresh = Leaving(@, x)],
                      frames |-> IF y = <<>> /\ k.is_pto_required THEN <<Ping>> ELSE y]][c]
  BY <1>3, Zenon DEF Assemble
<1> HIDE DEF queued, m
<1>5. Sound(k1) /\ k1.sent = k.sent /\ Keeps(k, k1, queued)
  <2>1. \A f \in ToSet(k.misc) : f \in ToSet(m) \/ f \in ToSet(queued)
    BY <1>2
  <2>2. m \in Payloads
    BY <1>2 DEF Payloads
  <2> QED BY <2>1, <2>2, QueueIsSound
<1> HIDE DEF k1
<1>6. c \in Loops /\ FillOK(k, c) /\ Len(c.frames) <= Room
  <2>1. queued \in Payloads
    BY <1>2 DEF Payloads
  <2> QED BY <1>2, <1>5, <2>1, CopyStreamFramesIsOK
<1> HIDE DEF c
<1>7. /\ Sound(c.ctx) /\ c.ctx.sent = k.sent /\ Keeps(k, c.ctx, c.frames)
      /\ c.frames \in Seq(T) /\ c.ctx \in Contexts /\ c.ctx.fresh \in Seq(T)
  BY <1>6, SoundTells DEF FillOK, Payloads
<1>8. room \in Nat
  <2>1. Len(c.frames) \in Nat
    BY <1>7
  <2> QED BY <1>1, <1>6, <2>1
<1>9. /\ fr \in Seq(T) /\ lf \in Seq(T)
      /\ ToSet(fr) \cup ToSet(lf) = ToSet(c.ctx.fresh)
  <2> HIDE DEF T, room
  <2> QED BY <1>7, <1>8, TakenAndLeft
<1>10. [c.ctx EXCEPT !.fresh = Leaving(@, room)] = d
  <2> HIDE DEF room
  <2> QED BY <1>7 DEF Contexts
<1>11. all \in Seq(T) /\ ToSet(all) = ToSet(c.frames) \cup ToSet(fr)
  <2> HIDE DEF T, fr
  <2> QED BY <1>7, <1>9, HoldsConcat
<1>12. k.in_transit > Cwin /\ ~k.is_pto_required => FillOK(k, r)
  <2> SUFFICES ASSUME k.in_transit > Cwin /\ ~k.is_pto_required
               PROVE  FillOK(k, r)
    OBVIOUS
  <2>1. r = [ctx |-> k1, frames |-> queued]
    BY <1>4, Zenon
  <2> HIDE DEF r
  <2>2. r.ctx = k1 /\ r.frames = queued
    BY <2>1
  <2> QED BY <1>2, <1>5, <2>2 DEF FillOK, Payloads
<1>13. ~(k.in_transit > Cwin /\ ~k.is_pto_required) =>
         r.ctx = d /\ r.frames = frames
  <2> SUFFICES ASSUME ~(k.in_transit > Cwin /\ ~k.is_pto_required)
               PROVE  r.ctx = d /\ r.frames = frames
    OBVIOUS
  <2>1. r = [ctx |-> [c.ctx EXCEPT !.fresh = Leaving(@, room)], frames |-> frames]
    BY <1>4, <1>6, Zenon
  <2> HIDE DEF frames, d, room
  <2> QED BY <1>10, <2>1
<1> HIDE DEF fr, lf
<1>14. Sound(d) /\ d.sent = c.ctx.sent /\ Keeps(c.ctx, d, fr)
  <2>1. \A f \in ToSet(c.ctx.fresh) : f \in ToSet(lf) \/ f \in ToSet(fr)
    BY <1>9
  <2>2. lf \in Payloads
    BY <1>9 DEF Payloads
  <2> QED BY <1>7, <2>1, <2>2, FreshIsSound
<1> HIDE DEF d, all
<1>15. frames \in Seq(T) /\ ToSet(all) \subseteq ToSet(frames)
  <2>1. <<Ping>> \in Seq(T)
    <3>1. Ping \in T
      OBVIOUS
    <3> HIDE DEF T
    <3> QED BY <3>1
  <2>2. all = <<>> => ToSet(all) = {}
    BY DEF ToSet
  <2> HIDE DEF T
  <2> QED BY <1>11, <2>1, <2>2
<1> HIDE DEF frames
<1>16. Keeps(k, d, frames)
  <2>1. ToSet(c.frames) \subseteq ToSet(frames) /\ ToSet(fr) \subseteq ToSet(frames)
    BY <1>11, <1>15
  <2> QED BY <1>7, <1>14, <2>1, KeepsMore
<1>17. ~(k.in_transit > Cwin /\ ~k.is_pto_required) => FillOK(k, r)
  <2> HIDE DEF r
  <2> QED BY <1>7, <1>13, <1>14, <1>15, <1>16 DEF FillOK, Payloads
<1> QED BY <1>12, <1>17

LEMMA PreparePacketIsOK ==
  ASSUME NEW k, Sound(k), NEW rack, NEW timer \in BOOLEAN
  PROVE  FillOK(k, PreparePacket(k, rack, timer))
<1> DEFINE n == RetransmitNeeded(k, rack, timer)
           r == PreparePacket(k, rack, timer)
<1>1. LoopOK(k, n, Room)
  BY RetransmitNeededIsOK
<1>2. CASE k.misc # <<>>
  <2>1. r = Assemble(k)
    BY <1>2 DEF PreparePacket
  <2> QED BY <2>1, AssembleIsOK
<1>3. CASE k.misc = <<>>
  <2>1. n \in Loops /\ Sound(n.ctx) /\ n.ctx.sent = k.sent /\ Keeps(k, n.ctx, n.frames)
    BY <1>1 DEF LoopOK
  <2>2. r = IF n.frames = <<>> THEN Assemble(n.ctx) ELSE [ctx |-> n.ctx, frames |-> n.frames]
    <3>1. r = [a \in Loops |-> IF a.frames = <<>> THEN Assemble(a.ctx)
                               ELSE [ctx |-> a.ctx, frames |-> a.frames]][n]
      BY <1>3, Zenon DEF PreparePacket
    <3> HIDE DEF n, r
    <3> QED BY <2>1, <3>1, Zenon
  <2> HIDE DEF n, r
  <2>3. ASSUME n.frames = <<>>
        PROVE  FillOK(k, r)
    <3> DEFINE a == Assemble(n.ctx)
    <3>1. FillOK(n.ctx, a)
      BY <2>1, AssembleIsOK
    <3> HIDE DEF a
    <3>2. Keeps(k, a.ctx, a.frames)
      BY <2>1, <2>3, <3>1, KeepsChain DEF FillOK
    <3>3. r = a
      BY <2>2, <2>3 DEF a
    <3> QED BY <2>1, <3>1, <3>2, <3>3 DEF FillOK
  <2>4. ASSUME n.frames # <<>>
        PROVE  FillOK(k, r)
    <3>1. r.ctx = n.ctx /\ r.frames = n.frames /\ n.frames \in Payloads
      BY <2>1, <2>2, <2>4 DEF Loops
    <3> QED BY <2>1, <3>1 DEF FillOK
  <2> QED BY <2>3, <2>4 DEF r
<1> QED BY <1>2, <1>3
-----------------------------------------------------------------------------
(* The packet that is sent takes a number that no list holds.              *)
Grown(k, j) == Len(j.sent) = Len(k.sent) + 1

LEMMA LastAppended ==
  ASSUME NEW l \in Seq(Numbers), Rising(l), NEW pn \in Numbers, \A q \in ToSet(l) : q < pn
  PROVE  Append(l, pn) \in Seq(Numbers) /\ ToSet(Append(l, pn)) = ToSet(l) \cup {pn}
         /\ Rising(Append(l, pn)) /\ Len(Append(l, pn)) = Len(l) + 1
<1> DEFINE m == Append(l, pn)
<1>1. m \in Seq(Numbers) /\ ToSet(m) = ToSet(l) \cup {pn}
  BY HoldsAppend
<1>2. /\ Len(l) \in Nat /\ Len(m) = Len(l) + 1 /\ DOMAIN m = 1 .. Len(l) + 1
      /\ DOMAIN l = 1 .. Len(l) /\ m[Len(l) + 1] = pn
      /\ \A i \in 1 .. Len(l) : m[i] = l[i]
  OBVIOUS
<1> HIDE DEF m
<1>3. \A i \in 1 .. Len(l) : l[i] < pn
  BY <1>2 DEF ToSet
<1>4. ASSUME NEW i \in DOMAIN m, NEW j \in DOMAIN m, i < j
      PROVE  m[i] < m[j]
  <2>1. i \in 1 .. Len(l)
    BY <1>2, <1>4
  <2>2. CASE j \in 1 .. Len(l)
    BY <1>2, <1>4, <2>1, <2>2 DEF Rising
  <2>3. CASE j = Len(l) + 1
    BY <1>2, <1>3, <2>1, <2>3
  <2> QED BY <1>2, <2>2, <2>3
<1> QED BY <1>1, <1>2, <1>4 DEF Rising, m

LEMMA QueueForRetransmitIsOK ==
  ASSUME NEW k, Sound(k), Len(k.sent) < MaxPackets, NEW frames \in Payloads
  PROVE  LET j == QueueForRetransmit(k, frames)
         IN  /\ Sound(j) /\ Grown(k, j)
             /\ \A f \in Held(k) \cup ToSet(frames) : f \in Held(j)
<1> DEFINE T == Payloads
           n == Len(k.sent) + 1
           s == Append(k.sent, frames)
           p == Append(k.pending, n)
           t == k.in_transit + 1
           j == [k EXCEPT !.sent = s, !.pending = p, !.in_transit = t]
           q == QueueForRetransmit(k, frames)
<1> HIDE DEF T
<1>1. /\ k \in Contexts /\ k.sent \in Seq(T) /\ frames \in T /\ k.pending \in Seq(Numbers)
      /\ k.in_transit \in Nat /\ Len(k.sent) \in Nat
      /\ Owned(k) \subseteq DOMAIN k.sent /\ Rising(k.pending) /\ k.in_transit = Len(k.pending)
      /\ DOMAIN k.sent = 1 .. Len(k.sent)
  <2>1. k.sent \in Seq(T)
    BY SoundTells DEF T
  <2>2. Len(k.sent) \in Nat /\ DOMAIN k.sent = 1 .. Len(k.sent)
    BY <2>1
  <2> QED BY <2>1, <2>2, SoundTells DEF T, Sound
<1>2. q = j
  BY <1>1 DEF Contexts, QueueForRetransmit
<1> HIDE DEF q
<1>3. n \in Numbers /\ n \notin DOMAIN k.sent /\ \A x \in DOMAIN k.sent : x < n
  BY <1>1, LossRecoveryAssumption DEF Numbers
<1>4. /\ s \in Seq(T) /\ Len(s) = n /\ s[n] = frames /\ DOMAIN s = DOMAIN k.sent \cup {n}
      /\ \A i \in DOMAIN k.sent : s[i] = k.sent[i]
  <2> HIDE DEF n
  <2>1. s \in Seq(T) /\ Len(s) = Len(k.sent) + 1 /\ s[Len(k.sent) + 1] = frames
        /\ \A i \in 1 .. Len(k.sent) : s[i] = k.sent[i]
    BY <1>1
  <2>2. DOMAIN s = 1 .. Len(k.sent) + 1
    BY <2>1
  <2>3. 1 .. Len(k.sent) + 1 = (1 .. Len(k.sent)) \cup {Len(k.sent) + 1}
    BY <1>1
  <2> QED BY <1>1, <2>1, <2>2, <2>3 DEF n
<1> HIDE DEF n
<1>5. /\ p \in Seq(Numbers) /\ ToSet(p) = ToSet(k.pending) \cup {n} /\ Rising(p)
      /\ t = Len(p) /\ t \in Nat
  <2>1. \A x \in ToSet(k.pending) : x < n
    BY <1>1, <1>3 DEF Owned
  <2> QED BY <1>1, <1>3, <2>1, LastAppended
<1> HIDE DEF s, p, t
<1>6. /\ j \in Contexts /\ j.sent = s /\ j.pending = p /\ j.in_transit = t
      /\ j.retransmitted = k.retransmitted /\ j.data_repeat = k.data_repeat
      /\ j.recycled = k.recycled /\ j.acked = k.acked /\ j.misc = k.misc /\ j.fresh = k.fresh
  BY <1>1, <1>4, <1>5 DEF Contexts, T
<1> HIDE DEF j
<1>7. Repeated(j) = Repeated(k) /\ Owned(j) = Owned(k) \cup {n}
  <2>1. Repeated(j) = Repeated(k)
    BY <1>6 DEF Repeated
  <2> QED BY <1>5, <1>6, <2>1 DEF Owned
<1>8. Sound(j)
  <2>1. \A x \in Numbers : j.recycled[x] = IF x \in DOMAIN j.sent \ Owned(j) THEN 1 ELSE 0
    <3>1. \A x \in Numbers : k.recycled[x] = IF x \in DOMAIN k.sent \ Owned(k) THEN 1 ELSE 0
      BY DEF Sound
    <3>2. DOMAIN j.sent \ Owned(j) = DOMAIN k.sent \ Owned(k)
      BY <1>3, <1>4, <1>6, <1>7
    <3> QED BY <1>6, <3>1, <3>2
  <2>2. \A x \in ToSet(j.pending), y \in ToSet(j.retransmitted) : y < x
    BY <1>1, <1>3, <1>5, <1>6 DEF Sound, Owned
  <2>3. ToSet(j.pending) \cap Repeated(j) = {}
    BY <1>1, <1>3, <1>5, <1>6, <1>7 DEF Sound, Owned
  <2>4. Owned(j) \subseteq DOMAIN j.sent
    BY <1>1, <1>4, <1>6, <1>7
  <2> QED BY <1>5, <1>6, <2>1, <2>2, <2>3, <2>4 DEF Sound
<1>9. ASSUME NEW f \in Held(k) \cup ToSet(frames)
      PROVE  f \in Held(j)
  <2>1. CASE f \in ToSet(frames)
    BY <1>4, <1>5, <1>6, <2>1, HeldIs
  <2>2. CASE f \in Held(k)
    <3>1. \/ f \in k.acked \/ f \in ToSet(k.fresh) \/ f \in ToSet(k.misc)
          \/ \E r \in k.data_repeat : f \in ToSet(r.rest)
          \/ \E pn \in ToSet(k.pending) : f \in ToSet(k.sent[pn])
      BY <2>2, HeldIs
    <3>2. \A pn \in ToSet(k.pending) : s[pn] = k.sent[pn]
      BY <1>1, <1>4 DEF Owned
    <3> QED BY <1>5, <1>6, <3>1, <3>2, HeldIs
  <2> QED BY <2>1, <2>2
<1>10. Grown(k, j)
  BY <1>4, <1>6 DEF Grown, n
<1> QED BY <1>2, <1>8, <1>9, <1>10 DEF q

LEMMA FinalizeIsOK ==
  ASSUME NEW k, Sound(k), Len(k.sent) < MaxPackets, Frames \subseteq Held(k),
         NEW r, FillOK(k, r), NEW with_ack
  PROVE  LET j == Finalize(r, with_ack)
         IN  Sound(j) /\ Frames \subseteq Held(j) /\ (j.sent = k.sent \/ Grown(k, j))
<1> DEFINE q == QueueForRetransmit(r.ctx, r.frames)
           none == QueueForRetransmit(r.ctx, <<>>)
           j == Finalize(r, with_ack)
<1>1. /\ Sound(r.ctx) /\ r.ctx.sent = k.sent /\ r.frames \in Payloads
      /\ \A f \in Frames : f \in Held(r.ctx) \/ f \in ToSet(r.frames)
  BY DEF FillOK, Keeps
<1>2. ToSet(<<>>) = {} /\ <<>> \in Payloads
  BY DEF ToSet, Payloads
<1>3. CASE r.frames # <<>>
  <2>1. /\ Sound(q) /\ Grown(r.ctx, q)
        /\ \A f \in Held(r.ctx) \cup ToSet(r.frames) : f \in Held(q)
    BY <1>1, QueueForRetransmitIsOK
  <2> DEFINE e == [q EXCEPT !.is_pto_required = FALSE]
  <2>2. j = e
    BY <1>3 DEF Finalize
  <2> HIDE DEF q, j
  <2>3. q \in Contexts
    BY <2>1 DEF Sound
  <2>4. /\ e \in Contexts /\ e.sent = q.sent /\ e.pending = q.pending
        /\ e.retransmitted = q.retransmitted /\ e.data_repeat = q.data_repeat
        /\ e.recycled = q.recycled /\ e.in_transit = q.in_transit
        /\ e.acked = q.acked /\ e.misc = q.misc /\ e.fresh = q.fresh
    BY <2>3 DEF Contexts
  <2> HIDE DEF e
  <2>5. Sound(e) /\ Held(e) = Held(q)
    BY <2>1, <2>4, SoundSame, HeldSame
  <2>6. Grown(k, e)
    BY <1>1, <2>1, <2>4 DEF Grown
  <2>7. Frames \subseteq Held(e)
    BY <1>1, <2>1, <2>5
  <2> QED BY <2>2, <2>5, <2>6, <2>7 DEF j
<1>4. CASE r.frames = <<>>
  <2>1. /\ Sound(none) /\ Grown(r.ctx, none)
        /\ \A f \in Held(r.ctx) \cup ToSet(<<>>) : f \in Held(none)
    BY <1>1, <1>2, QueueForRetransmitIsOK
  <2>2. j = IF with_ack THEN none ELSE r.ctx
    BY <1>4 DEF Finalize
  <2> HIDE DEF none, j
  <2>3. Grown(k, none)
    BY <1>1, <2>1 DEF Grown
  <2>4. Frames \subseteq Held(none) /\ Frames \subseteq Held(r.ctx)
    BY <1>1, <1>2, <1>4, <2>1
  <2> QED BY <1>1, <2>1, <2>2, <2>3, <2>4 DEF j
<1> QED BY <1>3, <1>4
-----------------------------------------------------------------------------
(* What an acknowledgement does to a context.                              *)
AckOK(k, j) == Sound(j) /\ j.sent = k.sent /\ Keeps(k, j, <<>>)

LEMMA AckOKChain ==
  ASSUME NEW k, NEW j, NEW m, AckOK(k, j), AckOK(j, m)
  PROVE  AckOK(k, m)
BY KeepsChain DEF AckOK

LEMMA AckFramesIsOK ==
  ASSUME NEW k, Sound(k), NEW pn \in DOMAIN k.sent
  PROVE  LET j == AckFrames(k, pn)
         IN  /\ AckOK(k, j) /\ j.pending = k.pending /\ j.retransmitted = k.retransmitted
             /\ \A f \in ToSet(k.sent[pn]) : f \in Frames => f \in j.acked
<1> DEFINE T == Frames \cup {Ping}
           S == k.acked \cup (ToSet(k.sent[pn]) \ {Ping})
           j == [k EXCEPT !.acked = S]
<1>1. k \in Contexts /\ k.acked \subseteq Frames /\ k.sent[pn] \in Seq(T)
  <2>1. k.sent \in Seq(Payloads)
    BY SoundTells
  <2> DEFINE P == Payloads
  <2> HIDE DEF P
  <2>2. k.sent[pn] \in P
    BY <2>1 DEF P
  <2> QED BY <2>2, SoundTells DEF P, Payloads
<1>2. ToSet(k.sent[pn]) \subseteq T
  <2> HIDE DEF T
  <2> QED BY <1>1, HoldsMembers
<1>3. S \subseteq Frames /\ k.acked \subseteq S
  BY <1>1, <1>2
<1>4. \A f \in ToSet(k.sent[pn]) : f \in Frames => f \in S
  <2>1. Ping \notin Frames
    <3>1. \A x \in ToSet(NewData) \cup ToSet(NewControl) : x \in Nat \ {0}
      BY LossRecoveryAssumption, HoldsMembers, Zenon
    <3> QED BY <3>1 DEF Frames, Data, Ping
  <2> QED BY <2>1
<1>5. AckFrames(k, pn) = j
  BY <1>1 DEF AckFrames, Contexts
<1> HIDE DEF S
<1>6. /\ j \in Contexts /\ j.sent = k.sent /\ j.pending = k.pending
      /\ j.retransmitted = k.retransmitted /\ j.data_repeat = k.data_repeat
      /\ j.recycled = k.recycled /\ j.in_transit = k.in_transit
      /\ j.acked = S /\ j.misc = k.misc /\ j.fresh = k.fresh
  BY <1>1, <1>3 DEF Contexts
<1> HIDE DEF j
<1>7. Sound(j)
  BY <1>6, SoundSame
<1>8. Keeps(k, j, <<>>)
  <2> SUFFICES ASSUME NEW f \in Frames, f \in Held(k)
               PROVE  f \in Held(j)
    BY DEF Keeps
  <2>1. \/ f \in k.acked \/ f \in ToSet(k.fresh) \/ f \in ToSet(k.misc)
        \/ \E r \in k.data_repeat : f \in ToSet(r.rest)
        \/ \E q \in ToSet(k.pending) : f \in ToSet(k.sent[q])
    BY HeldIs
  <2> QED BY <1>3, <1>6, <2>1, HeldIs
<1> QED BY <1>4, <1>5, <1>6, <1>7, <1>8 DEF AckOK

LEMMA AnsweredIsOK ==
  ASSUME NEW k, Sound(k), NEW pn, NEW highest
  PROVE  LET j == Answered(k, pn, highest)
         IN  AckOK(k, j) /\ j.pending = k.pending /\ j.retransmitted = k.retransmitted
<1> DEFINE e == [k EXCEPT !.nb_retransmit = 0]
<1>1. k \in Contexts
  BY DEF Sound
<1>2. /\ e \in Contexts /\ e.sent = k.sent /\ e.pending = k.pending
      /\ e.retransmitted = k.retransmitted /\ e.data_repeat = k.data_repeat
      /\ e.recycled = k.recycled /\ e.in_transit = k.in_transit
      /\ e.acked = k.acked /\ e.misc = k.misc /\ e.fresh = k.fresh
  BY <1>1 DEF Contexts
<1> HIDE DEF e
<1>3. Sound(e) /\ Held(e) = Held(k)
  BY <1>2, SoundSame, HeldSame
<1>4. Answered(k, pn, highest) = e \/ Answered(k, pn, highest) = k
  BY DEF Answered, e
<1>5. AckOK(k, e) /\ AckOK(k, k)
  BY <1>2, <1>3 DEF AckOK, Keeps
<1> QED BY <1>2, <1>4, <1>5

(* A lost packet is acknowledged after all, or too old.                    *)
LEMMA ForgottenIsOK ==
  ASSUME NEW k, Sound(k), NEW pn \in ToSet(k.retransmitted)
  PROVE  LET j == DequeueRetransmitted(k, pn)
         IN  /\ AckOK(k, j) /\ j.pending = k.pending
             /\ ToSet(j.retransmitted) = ToSet(k.retransmitted) \ {pn}
<1> DEFINE w == Without(k.retransmitted, pn)
           o == [k EXCEPT !.retransmitted = w]
           c == Recycle(o, pn)
           j == DequeueRetransmitted(k, pn)
<1>1. /\ k \in Contexts /\ pn \in Numbers /\ pn \in DOMAIN k.sent /\ pn \in Owned(k)
      /\ k.retransmitted \in Seq(Numbers) /\ pn \notin ToSet(k.pending)
  <2>1. pn \in Numbers /\ pn \in DOMAIN k.sent /\ pn \in Owned(k)
    BY SoundTells DEF Owned, Sound
  <2>2. pn \in Int
    BY <2>1 DEF Numbers
  <2> QED BY <2>1, <2>2, SoundTells DEF Sound
<1>2. w \in Seq(Numbers) /\ ToSet(w) = ToSet(k.retransmitted) \ {pn} /\ Falling(w)
  BY <1>1, WithoutIs DEF Sound
<1>3. [k EXCEPT !.retransmitted = Without(@, pn)] = o
  BY <1>1 DEF Contexts
<1>4. j = IF pn \in Repeated(k) THEN o ELSE c
  BY <1>3, Zenon DEF DequeueRetransmitted
<1> HIDE DEF w, j
<1>5. /\ o \in Contexts /\ Alike(k, o) /\ o.pending = k.pending /\ o.retransmitted = w
      /\ o.data_repeat = k.data_repeat /\ o.recycled = k.recycled /\ o.in_transit = k.in_transit
  BY <1>1, <1>2 DEF Contexts, Alike
<1> HIDE DEF o
<1>6. /\ c \in Contexts /\ Alike(o, c)
      /\ c.pending = o.pending /\ c.retransmitted = o.retransmitted
      /\ c.data_repeat = o.data_repeat /\ c.in_transit = o.in_transit
      /\ \A q \in Numbers : c.recycled[q] = IF q = pn THEN o.recycled[q] + 1 ELSE o.recycled[q]
  BY <1>1, <1>5, RecycleIs
<1> HIDE DEF c
<1>7. /\ j \in Contexts /\ Alike(k, j) /\ j.pending = k.pending /\ j.retransmitted = w
      /\ j.data_repeat = k.data_repeat /\ j.in_transit = k.in_transit
      /\ \A q \in Numbers : j.recycled[q] = IF q = pn /\ pn \notin Repeated(k)
                                             THEN k.recycled[q] + 1 ELSE k.recycled[q]
  <2>1. CASE pn \in Repeated(k)
    BY <1>4, <1>5, <2>1
  <2>2. CASE pn \notin Repeated(k)
    BY <1>4, <1>5, <1>6, <2>2 DEF Alike
  <2> QED BY <2>1, <2>2
<1>8. /\ Repeated(j) = Repeated(k)
      /\ Owned(j) = IF pn \in Repeated(k) THEN Owned(k) ELSE Owned(k) \ {pn}
  <2>1. Repeated(j) = Repeated(k)
    BY <1>7 DEF Repeated
  <2> QED BY <1>1, <1>2, <1>7, <2>1 DEF Owned
<1>9. Sound(j)
  <2>1. \A q \in Numbers : j.recycled[q] = IF q \in DOMAIN j.sent \ Owned(j) THEN 1 ELSE 0
    <3>1. \A q \in Numbers : k.recycled[q] = IF q \in DOMAIN k.sent \ Owned(k) THEN 1 ELSE 0
      BY DEF Sound
    <3>2. j.sent = k.sent
      BY <1>7 DEF Alike
    <3> QED BY <1>1, <1>7, <1>8, <3>1, <3>2
  <2>2. Owned(j) \subseteq DOMAIN j.sent
    BY <1>7, <1>8 DEF Sound, Alike
  <2>3. \A x \in ToSet(j.pending), y \in ToSet(j.retransmitted) : y < x
    BY <1>2, <1>7 DEF Sound
  <2> QED BY <1>2, <1>7, <1>8, <2>1, <2>2, <2>3 DEF Sound
<1>10. AckOK(k, j)
  <2>1. Held(j) = Held(k)
    BY <1>7, HeldSame DEF Alike
  <2> QED BY <1>7, <1>9, <2>1 DEF AckOK, Keeps, Alike
<1> QED BY <1>2, <1>7, <1>10 DEF j
-----------------------------------------------------------------------------
(* picoquic_process_ack_range: the packets that are still to be searched   *)
(* are in the list.                                                        *)
LEMMA ProcessAckRangesIsOK ==
  ASSUME NEW k, Sound(k), NEW ack, NEW highest \in Nat
  PROVE  LET j == ProcessAckRanges(k, ack, highest)
         IN  AckOK(k, j) /\ j.retransmitted = k.retransmitted
<1> DEFINE top == TopPacket(k, Max(ack))
           l == Taking(k.pending, top)
           n == Len(l)
           start == [k EXCEPT !.highest = highest]
           visit == [i \in DOMAIN l |-> [a \in Contexts |->
                      LET pn == l[n + 1 - i]
                      IN  IF pn \notin ack THEN a
                          ELSE Answered(DequeueRetransmit(AckFrames(a, pn), pn, TRUE, FALSE), pn,
                                        highest)]]
           Q == [i \in 0 .. n |-> {a \in Contexts :
                  /\ AckOK(k, a) /\ a.retransmitted = k.retransmitted
                  /\ \A x \in 1 .. n - i : l[x] \in ToSet(a.pending)}]
<1>1. k \in Contexts /\ k.pending \in Seq(Numbers)
  BY SoundTells
<1>2. top \in Nat
  <2> DEFINE from == {i \in DOMAIN k.pending : k.pending[i] >= Max(ack)}
  <2>1. top = IF Max(ack) <= k.highest THEN 1
              ELSE IF from = {} THEN Len(k.pending) ELSE Min(from)
    BY DEF TopPacket
  <2>2. from \subseteq Nat
    BY <1>1
  <2>3. from # {} => Min(from) \in Nat
    <3> HIDE DEF from
    <3> QED BY <2>2, LeastIs
  <2> HIDE DEF from, top
  <2> QED BY <1>1, <2>1, <2>3
<1> HIDE DEF top
<1>3. /\ l \in Seq(Numbers) /\ \A x \in DOMAIN l : x \in DOMAIN k.pending /\ l[x] = k.pending[x]
  BY <1>1, <1>2, TakenAndLeft
<1> HIDE DEF l
<1>4. n \in Nat /\ DOMAIN l = 1 .. n
  BY <1>3
<1> HIDE DEF n
<1>5. \A x, y \in 1 .. n : x < y => l[x] < l[y]
  BY <1>3, <1>4 DEF Sound, Rising
<1>6. start \in Q[0]
  <2>1. /\ start \in Contexts /\ start.sent = k.sent /\ start.pending = k.pending
        /\ start.retransmitted = k.retransmitted /\ start.data_repeat = k.data_repeat
        /\ start.recycled = k.recycled /\ start.in_transit = k.in_transit
        /\ start.acked = k.acked /\ start.misc = k.misc /\ start.fresh = k.fresh
    BY <1>1 DEF Contexts
  <2> HIDE DEF start
  <2>2. Sound(start) /\ Held(start) = Held(k)
    BY <2>1, SoundSame, HeldSame
  <2>3. AckOK(k, start)
    BY <2>1, <2>2 DEF AckOK, Keeps
  <2>4. \A x \in 1 .. n : l[x] \in ToSet(start.pending)
    BY <1>3, <1>4, <2>1 DEF ToSet
  <2>5. 0 \in 0 .. n /\ 1 .. n - 0 = 1 .. n
    BY <1>4
  <2> QED BY <2>1, <2>3, <2>4, <2>5
<1>7. ASSUME NEW i \in 1 .. n, NEW a \in Q[i - 1]
      PROVE  visit[i][a] \in Q[i]
  <2> DEFINE pn == l[n + 1 - i]
             b == AckFrames(a, pn)
             c == DequeueRetransmit(b, pn, TRUE, FALSE)
             d == Answered(c, pn, highest)
  <2>1. i - 1 \in 0 .. n /\ i \in 0 .. n /\ n + 1 - i \in 1 .. n /\ n + 1 - i \in 1 .. n - (i - 1)
        /\ \A x \in 1 .. n - i : x \in 1 .. n - (i - 1) /\ x < n + 1 - i /\ x \in 1 .. n
    BY <1>4
  <2>2. /\ a \in Contexts /\ AckOK(k, a) /\ a.retransmitted = k.retransmitted
        /\ \A x \in 1 .. n - (i - 1) : l[x] \in ToSet(a.pending)
    BY <2>1
  <2>3. visit[i][a] = IF pn \notin ack THEN a ELSE d
    BY <1>4, <2>2, Zenon
  <2> HIDE DEF visit
  <2>4. pn \in ToSet(a.pending) /\ \A x \in 1 .. n - i : l[x] \in ToSet(a.pending) /\ l[x] # pn
    <3>1. \A x \in 1 .. n - i : l[x] < pn
      BY <1>5, <2>1
    <3>2. pn \in Nat /\ \A x \in 1 .. n - i : l[x] \in Nat
      <4>1. \A x \in 1 .. n : l[x] \in Numbers
        BY <1>1, <1>3, <1>4
      <4>2. Numbers \subseteq Nat
        BY DEF Numbers
      <4> QED BY <2>1, <4>1, <4>2
    <3> HIDE DEF pn
    <3>3. \A x \in 1 .. n - i : l[x] # pn
      BY <3>1, <3>2
    <3>4. pn \in ToSet(a.pending)
      BY <2>1, <2>2 DEF pn
    <3> QED BY <2>1, <2>2, <3>3, <3>4
  <2> HIDE DEF pn
  <2>5. CASE pn \notin ack
    <3>1. a \in Q[i]
      BY <2>1, <2>2, <2>4
    <3> HIDE DEF Q
    <3> QED BY <2>3, <2>5, <3>1
  <2>6. CASE pn \in ack
    <3>1. Sound(a) /\ pn \in DOMAIN a.sent
      BY <2>2, <2>4 DEF AckOK, Sound, Owned
    <3>2. /\ AckOK(a, b) /\ b.pending = a.pending /\ b.retransmitted = a.retransmitted
          /\ \A f \in ToSet(a.sent[pn]) : f \in Frames => f \in b.acked
      BY <3>1, AckFramesIsOK
    <3> HIDE DEF b
    <3>3. Sound(b) /\ b.sent = a.sent /\ pn \in ToSet(b.pending)
      BY <2>4, <3>2 DEF AckOK
    <3>4. /\ Sound(c) /\ Alike(b, c) /\ ToSet(c.pending) = ToSet(b.pending) \ {pn}
          /\ c.retransmitted = b.retransmitted
      BY <3>3, FreedIsSound
    <3>5. Keeps(b, c, <<>>)
      BY <3>2, <3>3, FreedKeeps
    <3> HIDE DEF c
    <3>6. AckOK(b, c)
      BY <3>4, <3>5 DEF AckOK, Alike
    <3>7. AckOK(c, d) /\ d.pending = c.pending /\ d.retransmitted = c.retransmitted
      BY <3>4, AnsweredIsOK
    <3> HIDE DEF d
    <3>8. AckOK(k, d)
      BY <2>2, <3>2, <3>6, <3>7, AckOKChain
    <3>9. d \in Contexts /\ d.retransmitted = k.retransmitted
          /\ \A x \in 1 .. n - i : l[x] \in ToSet(d.pending)
      BY <2>2, <2>4, <3>2, <3>4, <3>7, <3>8 DEF AckOK, Sound
    <3>10. d \in Q[i]
      BY <2>1, <3>8, <3>9
    <3> HIDE DEF Q
    <3> QED BY <2>3, <2>6, <3>10
  <2> HIDE DEF Q
  <2> QED BY <2>5, <2>6
<1>8. ProcessAckRanges(k, ack, highest) = Walk(visit, start, n)
  BY Zenon DEF ProcessAckRanges, l, top, n
<1> HIDE DEF visit, start
<1> DEFINE w == Walk(visit, start, n)
<1>9. w \in Q[n]
  <2> HIDE DEF Q
  <2> QED BY <1>4, <1>6, <1>7, WalkLeads
<1>10. n \in 0 .. n
  BY <1>4
<1> HIDE DEF w
<1>11. AckOK(k, w) /\ w.retransmitted = k.retransmitted
  BY <1>9, <1>10
<1> QED BY <1>8, <1>11 DEF w

(* picoquic_check_spurious_retransmission takes out what is acknowledged.  *)
LEMMA CheckSpuriousIsOK ==
  ASSUME NEW k, Sound(k), NEW ack, NEW highest
  PROVE  LET j == CheckSpurious(k, ack, highest)
         IN  /\ AckOK(k, j) /\ ToSet(j.retransmitted) \subseteq ToSet(k.retransmitted)
             /\ ToSet(k.retransmitted) \ ack \subseteq ToSet(j.retransmitted)
<1> DEFINE l == k.retransmitted
           n == Len(l)
           visit == [i \in DOMAIN l |-> [a \in Contexts |->
                      LET pn == l[i]
                      IN  IF pn \notin ack THEN a
                          ELSE Answered(DequeueRetransmitted(AckFrames(a, pn), pn), pn, highest)]]
           Q == [i \in 0 .. n |-> {a \in Contexts :
                  /\ AckOK(k, a) /\ ToSet(a.retransmitted) \subseteq ToSet(l)
                  /\ ToSet(l) \ ack \subseteq ToSet(a.retransmitted)
                  /\ \A x \in i + 1 .. n : l[x] \in ToSet(a.retransmitted)}]
<1>1. /\ k \in Contexts /\ l \in Seq(Numbers) /\ n \in Nat /\ DOMAIN l = 1 .. n
      /\ \A x, y \in 1 .. n : x < y => l[x] > l[y]
  <2>1. k \in Contexts /\ l \in Seq(Numbers)
    BY SoundTells
  <2>2. n \in Nat /\ DOMAIN l = 1 .. n
    BY <2>1
  <2> QED BY <2>1, <2>2 DEF Sound, Falling
<1>2. CheckSpurious(k, ack, highest) = Walk(visit, k, n)
  BY Zenon DEF CheckSpurious
<1> HIDE DEF l, n
<1>3. k \in Q[0]
  <2>1. AckOK(k, k)
    BY DEF AckOK, Keeps
  <2>2. \A x \in 0 + 1 .. n : l[x] \in ToSet(l)
    BY <1>1 DEF ToSet
  <2>3. 0 \in 0 .. n
    BY <1>1
  <2> QED BY <1>1, <2>1, <2>2, <2>3 DEF l
<1>4. ASSUME NEW i \in 1 .. n, NEW a \in Q[i - 1]
      PROVE  visit[i][a] \in Q[i]
  <2> DEFINE pn == l[i]
             b == AckFrames(a, pn)
             c == DequeueRetransmitted(b, pn)
             d == Answered(c, pn, highest)
  <2>1. i - 1 \in 0 .. n /\ i \in 0 .. n /\ i \in (i - 1) + 1 .. n
        /\ \A x \in i + 1 .. n : x \in (i - 1) + 1 .. n /\ i < x /\ x \in 1 .. n
    BY <1>1
  <2>2. /\ a \in Contexts /\ AckOK(k, a) /\ ToSet(a.retransmitted) \subseteq ToSet(l)
        /\ ToSet(l) \ ack \subseteq ToSet(a.retransmitted)
        /\ \A x \in (i - 1) + 1 .. n : l[x] \in ToSet(a.retransmitted)
    BY <2>1
  <2>3. visit[i][a] = IF pn \notin ack THEN a ELSE d
    BY <1>1, <2>2, Zenon
  <2> HIDE DEF visit
  <2>4. pn \in ToSet(a.retransmitted)
        /\ \A x \in i + 1 .. n : l[x] \in ToSet(a.retransmitted) /\ l[x] # pn
    <3>1. \A x \in i + 1 .. n : pn > l[x]
      BY <1>1, <2>1
    <3>2. pn \in Nat /\ \A x \in i + 1 .. n : l[x] \in Nat
      <4>1. \A x \in 1 .. n : l[x] \in Numbers
        BY <1>1
      <4>2. Numbers \subseteq Nat
        BY DEF Numbers
      <4> QED BY <2>1, <4>1, <4>2
    <3> HIDE DEF pn
    <3>3. \A x \in i + 1 .. n : l[x] # pn
      BY <3>1, <3>2
    <3>4. pn \in ToSet(a.retransmitted)
      BY <2>1, <2>2 DEF pn
    <3> QED BY <2>1, <2>2, <3>3, <3>4
  <2> HIDE DEF pn
  <2>5. CASE pn \notin ack
    <3>1. a \in Q[i]
      BY <2>1, <2>2, <2>4
    <3> HIDE DEF Q
    <3> QED BY <2>3, <2>5, <3>1
  <2>6. CASE pn \in ack
    <3>1. Sound(a) /\ pn \in DOMAIN a.sent
      BY <2>2, <2>4 DEF AckOK, Sound, Owned
    <3>2. AckOK(a, b) /\ b.retransmitted = a.retransmitted
      BY <3>1, AckFramesIsOK
    <3> HIDE DEF b
    <3>3. AckOK(b, c) /\ ToSet(c.retransmitted) = ToSet(b.retransmitted) \ {pn}
      BY <2>4, <3>2, ForgottenIsOK DEF AckOK
    <3> HIDE DEF c
    <3>4. AckOK(c, d) /\ d.retransmitted = c.retransmitted
      BY <3>3, AnsweredIsOK DEF AckOK
    <3> HIDE DEF d
    <3>5. AckOK(k, d)
      BY <2>2, <3>2, <3>3, <3>4, AckOKChain
    <3>6. /\ d \in Contexts /\ ToSet(d.retransmitted) = ToSet(a.retransmitted) \ {pn}
      BY <3>2, <3>3, <3>4, <3>5 DEF AckOK, Sound
    <3>7. d \in Q[i]
      BY <2>1, <2>2, <2>4, <2>6, <3>5, <3>6
    <3> HIDE DEF Q
    <3> QED BY <2>3, <2>6, <3>7
  <2> HIDE DEF Q
  <2> QED BY <2>5, <2>6
<1> HIDE DEF visit
<1> DEFINE w == Walk(visit, k, n)
<1>5. w \in Q[n]
  <2> HIDE DEF Q
  <2> QED BY <1>1, <1>3, <1>4, WalkLeads
<1>6. n \in 0 .. n
  BY <1>1
<1> HIDE DEF w
<1>7. /\ AckOK(k, w) /\ ToSet(w.retransmitted) \subseteq ToSet(l)
      /\ ToSet(l) \ ack \subseteq ToSet(w.retransmitted)
  BY <1>5, <1>6
<1> QED BY <1>2, <1>7 DEF w, l
-----------------------------------------------------------------------------
(* picoquic_dequeue_old_retransmitted_packets takes out the n oldest.      *)
LEMMA LastIsOldest ==
  ASSUME NEW m \in Seq(Numbers), Falling(m), m # <<>>
  PROVE  Last(m) \in ToSet(m) /\ \A x \in ToSet(m) : Last(m) <= x
<1>1. Len(m) \in Nat \ {0} /\ DOMAIN m = 1 .. Len(m) /\ Last(m) = m[Len(m)]
  BY DEF Last
<1>2. \A i \in 1 .. Len(m) : m[i] \in Nat
  <2>1. \A i \in 1 .. Len(m) : m[i] \in Numbers
    BY <1>1
  <2>2. Numbers \subseteq Nat
    BY DEF Numbers
  <2> QED BY <2>1, <2>2
<1> DEFINE n == Len(m)
<1>3. \A i \in 1 .. n : m[n] <= m[i]
  <2>1. n \in Nat \ {0} /\ \A i, j \in 1 .. n : i < j => m[i] > m[j]
    BY <1>1 DEF Falling
  <2> HIDE DEF n
  <2>2. \A i \in 1 .. n : i = n \/ i < n
    BY <2>1
  <2>3. n \in 1 .. n /\ \A i \in 1 .. n : m[i] \in Nat
    BY <1>2, <2>1 DEF n
  <2> QED BY <2>1, <2>2, <2>3
<1>4. Len(m) \in 1 .. Len(m)
  BY <1>1
<1> QED BY <1>1, <1>3, <1>4 DEF ToSet

LEMMA DequeueOldIsOK ==
  ASSUME NEW k, Sound(k), NEW l \in Seq(Numbers), Falling(l), NEW old \in 0 .. Len(l),
         ToSet(k.retransmitted) \subseteq ToSet(l),
         \A i \in DOMAIN l : i > Len(l) - old => l[i] \in ToSet(k.retransmitted)
  PROVE  AckOK(k, DequeueOld(k, old))
<1> DEFINE n == Len(l)
           visit == [i \in 1 .. old |-> [a \in Contexts |->
                      DequeueRetransmitted(a, Last(a.retransmitted))]]
           Q == [i \in 0 .. old |-> {a \in Contexts :
                  /\ AckOK(k, a)
                  /\ \A p \in ToSet(a.retransmitted) : \E x \in 1 .. n - i : p = l[x]
                  /\ \A x \in 1 .. n - i : x > n - old => l[x] \in ToSet(a.retransmitted)}]
<1>1. /\ n \in Nat /\ DOMAIN l = 1 .. n /\ old \in Nat /\ old <= n
      /\ \A x, y \in 1 .. n : x < y => l[x] > l[y]
  BY DEF Falling
<1>2. \A x \in 1 .. n : l[x] \in Nat
  <2>1. \A x \in 1 .. n : l[x] \in Numbers
    BY <1>1
  <2>2. Numbers \subseteq Nat
    BY DEF Numbers
  <2> QED BY <2>1, <2>2
<1>3. DequeueOld(k, old) = Walk(visit, k, old)
  BY Zenon DEF DequeueOld
<1>4. /\ \A p \in ToSet(k.retransmitted) : \E x \in 1 .. n - 0 : p = l[x]
      /\ \A x \in 1 .. n - 0 : x > n - old => l[x] \in ToSet(k.retransmitted)
  <2>1. 1 .. n - 0 = 1 .. n
    BY <1>1
  <2>2. \A p \in ToSet(l) : \E x \in 1 .. n : p = l[x]
    BY <1>1, Zenon DEF ToSet
  <2> HIDE DEF n
  <2>3. \A x \in 1 .. n : x > n - old => l[x] \in ToSet(k.retransmitted)
    BY <1>1 DEF n
  <2> QED BY <2>1, <2>2, <2>3
<1> HIDE DEF n
<1>5. k \in Q[0]
  <2>1. AckOK(k, k) /\ k \in Contexts
    BY DEF AckOK, Keeps, Sound
  <2>2. 0 \in 0 .. old
    BY <1>1
  <2> QED BY <1>4, <2>1, <2>2
<1>6. ASSUME NEW i \in 1 .. old, NEW a \in Q[i - 1]
      PROVE  visit[i][a] \in Q[i]
  <2> DEFINE m == a.retransmitted
             o == n - (i - 1)
             p == Last(m)
             b == DequeueRetransmitted(a, p)
  <2>1. /\ i - 1 \in 0 .. old /\ i \in 0 .. old /\ o \in 1 .. n /\ o > n - old
        /\ o \in 1 .. n - (i - 1)
        /\ \A x \in 1 .. n - (i - 1) : x \in 1 .. n /\ (x = o \/ x < o)
        /\ \A x \in 1 .. n - i : x \in 1 .. n - (i - 1) /\ x < o
        /\ \A x \in 1 .. n - (i - 1) : x # o => x \in 1 .. n - i
    BY <1>1
  <2>2. /\ a \in Contexts /\ AckOK(k, a)
        /\ \A q \in ToSet(m) : \E x \in 1 .. n - (i - 1) : q = l[x]
        /\ \A x \in 1 .. n - (i - 1) : x > n - old => l[x] \in ToSet(m)
    BY <2>1
  <2>3. visit[i][a] = b
    BY <2>2, Zenon
  <2> HIDE DEF visit
  <2>4. Sound(a) /\ m \in Seq(Numbers) /\ Falling(m)
    BY <2>2, SoundTells DEF AckOK, Sound
  <2> HIDE DEF o
  <2>5. l[o] \in ToSet(m)
    BY <2>1, <2>2
  <2>6. m # <<>>
    BY <2>5 DEF ToSet
  <2> HIDE DEF m
  <2>7. p \in ToSet(m) /\ \A x \in ToSet(m) : p <= x
    BY <2>4, <2>6, LastIsOldest
  <2>8. p = l[o]
    <3>1. PICK x \in 1 .. n - (i - 1) : p = l[x]
      BY <2>2, <2>7
    <3>2. x = o \/ l[x] > l[o]
      BY <1>1, <2>1
    <3>3. l[x] <= l[o]
      BY <2>5, <2>7, <3>1
    <3>4. l[x] \in Nat /\ l[o] \in Nat
      BY <1>2, <2>1
    <3> QED BY <3>1, <3>2, <3>3, <3>4
  <2>9. AckOK(a, b) /\ ToSet(b.retransmitted) = ToSet(m) \ {p}
    BY <2>4, <2>7, ForgottenIsOK DEF m
  <2> HIDE DEF b, p
  <2>10. AckOK(k, b) /\ b \in Contexts
    <3>1. AckOK(k, b)
      BY <2>2, <2>9, AckOKChain
    <3> QED BY <3>1 DEF AckOK, Sound
  <2>11. \A q \in ToSet(b.retransmitted) : \E x \in 1 .. n - i : q = l[x]
    BY <2>1, <2>2, <2>8, <2>9
  <2>12. ASSUME NEW x \in 1 .. n - i, x > n - old
         PROVE  l[x] \in ToSet(b.retransmitted)
    <3>1. x \in 1 .. n - (i - 1) /\ x < o /\ x \in 1 .. n
      BY <2>1
    <3>2. l[x] > l[o] /\ l[x] \in Nat /\ l[o] \in Nat
      BY <1>1, <1>2, <2>1, <3>1
    <3>3. l[x] # p
      BY <2>8, <3>2
    <3> QED BY <2>2, <2>9, <2>12, <3>1, <3>3
  <2>13. b \in Q[i]
    BY <2>1, <2>10, <2>11, <2>12
  <2> HIDE DEF Q
  <2> QED BY <2>3, <2>13
<1> HIDE DEF visit
<1> DEFINE w == Walk(visit, k, old)
<1>7. w \in Q[old]
  <2> HIDE DEF Q
  <2> QED BY <1>1, <1>5, <1>6, WalkLeads
<1>8. old \in 0 .. old
  BY <1>1
<1> HIDE DEF w
<1>9. AckOK(k, w)
  BY <1>7, <1>8
<1> QED BY <1>3, <1>9 DEF w

LEMMA DecodeAckIsOK ==
  ASSUME NEW k, Sound(k), NEW ack, ack # {}, ack \subseteq DOMAIN k.sent, NEW rack,
         NEW old \in 0 .. Len(k.retransmitted),
         \A i \in DOMAIN k.retransmitted :
           i > Len(k.retransmitted) - old => k.retransmitted[i] \notin ack
  PROVE  AckOK(k, DecodeAck(k, ack, old, rack))
<1> DEFINE highest == Max({k.highest, Max(ack)})
           p == ProcessAckRanges(k, ack, highest)
           s == CheckSpurious(p, ack, highest)
           e == DequeueOld(s, old)
           q == QueueRetransmitOnAck(e, rack)
           d == DecodeAck(k, ack, old, rack)
<1>1. highest \in Nat
  <2>1. k.highest \in Nat
    BY SoundTells
  <2>2. Max(ack) \in Nat
    <3> DEFINE S == Payloads
    <3> HIDE DEF S
    <3>1. k.sent \in Seq(S)
      BY SoundTells DEF S
    <3>2. DOMAIN k.sent = 1 .. Len(k.sent) /\ Len(k.sent) \in Nat
      BY <3>1
    <3>3. ack \subseteq 0 .. Len(k.sent)
      BY <3>2
    <3>4. Max(ack) \in ack
      BY <3>2, <3>3, GreatestIs
    <3> QED BY <3>3, <3>4
  <2> DEFINE a == Max(ack)
             h == k.highest
  <2> HIDE DEF a, h
  <2>3. {h, a} \subseteq 0 .. h + a /\ h + a \in Nat /\ {h, a} # {}
    BY <2>1, <2>2 DEF a, h
  <2>4. Max({h, a}) \in {h, a}
    BY <2>3, GreatestIs
  <2> QED BY <2>1, <2>2, <2>4 DEF a, h
<1> HIDE DEF highest
<1>2. AckOK(k, p) /\ p.retransmitted = k.retransmitted
  BY <1>1, ProcessAckRangesIsOK
<1> HIDE DEF p
<1>3. /\ AckOK(p, s) /\ ToSet(s.retransmitted) \subseteq ToSet(p.retransmitted)
      /\ ToSet(p.retransmitted) \ ack \subseteq ToSet(s.retransmitted)
  BY <1>2, CheckSpuriousIsOK DEF AckOK
<1> HIDE DEF s
<1>4. AckOK(s, e)
  <2> DEFINE l == k.retransmitted
  <2>1. l \in Seq(Numbers) /\ Falling(l)
    BY SoundTells DEF Sound
  <2>2. \A i \in DOMAIN l : i > Len(l) - old => l[i] \in ToSet(s.retransmitted)
    <3>1. \A i \in DOMAIN l : l[i] \in ToSet(l)
      BY DEF ToSet
    <3> QED BY <1>2, <1>3, <3>1
  <2> HIDE DEF l
  <2>3. Sound(s) /\ ToSet(s.retransmitted) \subseteq ToSet(l) /\ old \in 0 .. Len(l)
    BY <1>2, <1>3 DEF AckOK, l
  <2> QED BY <2>1, <2>2, <2>3, DequeueOldIsOK
<1> HIDE DEF e
<1>5. AckOK(e, q)
  BY <1>4, QueueRetransmitOnAckIsOK DEF AckOK
<1> HIDE DEF q
<1>6. AckOK(k, e) /\ AckOK(k, q)
  BY <1>2, <1>3, <1>4, <1>5, AckOKChain
<1>7. d = e \/ d = q
  <2> DEFINE spurious == [b \in Contexts |-> CheckSpurious(b, ack, highest)]
             expired == [b \in Contexts |-> DequeueOld(b, old)]
             repaired == [b \in Contexts |->
                           IF b.acked = k.acked /\ b.recycled = k.recycled THEN b
                           ELSE QueueRetransmitOnAck(b, rack)]
  <2>1. p \in Contexts /\ s \in Contexts /\ e \in Contexts
    BY <1>2, <1>3, <1>4 DEF AckOK, Sound
  <2>2. d = repaired[expired[spurious[p]]]
    BY Zenon DEF DecodeAck, p, highest
  <2> HIDE DEF d
  <2>3. spurious[p] = s /\ expired[s] = e
    BY <2>1, Zenon DEF s, e
  <2>4. repaired[e] = e \/ repaired[e] = q
    BY <2>1, Zenon DEF q
  <2> HIDE DEF spurious, expired, repaired
  <2> QED BY <2>2, <2>3, <2>4
<1> HIDE DEF d
<1>8. AckOK(k, d)
  BY <1>6, <1>7
<1> QED BY <1>8 DEF d
-----------------------------------------------------------------------------
(* The steps.                                                              *)
LEMMA SentTells ==
  ASSUME NEW k, Sound(k)
  PROVE  Len(k.sent) \in Nat /\ DOMAIN k.sent = 1 .. Len(k.sent)
<1> DEFINE T == Payloads
<1> HIDE DEF T
<1>1. k.sent \in Seq(T)
  BY SoundTells DEF T
<1> QED BY <1>1

LEMMA InitSatisfies == Init => IInv
<1> SUFFICES ASSUME Init
             PROVE  IInv
  OBVIOUS
<1> DEFINE T == Frames \cup {Ping}
<1>1. NewData \in Seq(T) /\ NewControl \in Seq(T)
  <2>1. ToSet(NewData) \subseteq T /\ ToSet(NewControl) \subseteq T
    BY DEF Frames, Data
  <2>2. NewData \in Seq(Nat \ {0}) /\ NewControl \in Seq(Nat \ {0})
    BY LossRecoveryAssumption
  <2> HIDE DEF T
  <2>3. \A i \in DOMAIN NewData : NewData[i] \in T
    BY <2>1, Zenon DEF ToSet
  <2>4. \A i \in DOMAIN NewControl : NewControl[i] \in T
    BY <2>1, Zenon DEF ToSet
  <2>5. Len(NewData) \in Nat /\ DOMAIN NewData = 1 .. Len(NewData)
        /\ NewData \in [1 .. Len(NewData) -> T]
    BY <2>2, <2>3
  <2>6. Len(NewControl) \in Nat /\ DOMAIN NewControl = 1 .. Len(NewControl)
        /\ NewControl \in [1 .. Len(NewControl) -> T]
    BY <2>2, <2>4
  <2> QED BY <2>5, <2>6
<1>2. /\ ctx.sent = <<>> /\ ctx.pending = <<>> /\ ctx.retransmitted = <<>>
      /\ ctx.data_repeat = {} /\ ctx.misc = NewControl /\ ctx.fresh = NewData
      /\ ctx.acked = {} /\ ctx.in_transit = 0 /\ ctx.recycled = [pn \in Numbers |-> 0]
  BY DEF Init
<1>3. ctx \in Contexts
  <2>1. <<>> \in Seq(Payloads) /\ <<>> \in Seq(Numbers) /\ 0 \in Nat
        /\ [pn \in Numbers |-> 0] \in [Numbers -> Nat]
        /\ NewControl \in Payloads /\ NewData \in Payloads
    BY <1>1 DEF Payloads
  <2> DEFINE P == Payloads
             Z == [pn \in Numbers |-> 0]
  <2> HIDE DEF P, Z
  <2> QED BY <2>1 DEF Init, Contexts, P, Z
<1>4. ToSet(<<>>) = {} /\ DOMAIN <<>> = {} /\ Len(<<>>) = 0
  BY DEF ToSet
<1>5. Repeated(ctx) = {} /\ Owned(ctx) = {}
  BY <1>2, <1>4 DEF Repeated, Owned
<1>6. Sound(ctx)
  <2>1. \A pn \in Numbers : ctx.recycled[pn] = 0
    BY <1>2
  <2> QED BY <1>2, <1>3, <1>4, <1>5, <2>1 DEF Sound, Rising, Falling
<1>7. Frames \subseteq Held(ctx)
  BY <1>2, HeldIs DEF Frames, Data
<1>8. net = {} /\ told = {} /\ acks = {} /\ peer = [received |-> {}, owes |-> FALSE]
      /\ Len(ctx.sent) <= MaxPackets
  BY <1>2, <1>4, LossRecoveryAssumption DEF Init
<1>9. ctx \in Contexts /\ Owned(ctx) \subseteq DOMAIN ctx.sent
  BY <1>6 DEF Sound
<1> QED BY <1>6, <1>7, <1>8, <1>9 DEF IInv, TypeOK

LEMMA PrepareKeeps ==
  ASSUME IInv, NEW rack, NEW timer \in BOOLEAN, Prepare(rack, timer)
  PROVE  IInv'
<1> DEFINE r == PreparePacket(ctx, rack, timer)
           after == Finalize(r, pure > 0)
<1>1. Sound(ctx) /\ Frames \subseteq Held(ctx) /\ Len(ctx.sent) < MaxPackets
  BY DEF IInv, Prepare
<1>2. FillOK(ctx, r)
  BY <1>1, PreparePacketIsOK
<1>3. Sent(r, after, pure > 0)
  BY Zenon DEF Prepare
<1> HIDE DEF r
<1>4. Sound(after) /\ Frames \subseteq Held(after) /\ (after.sent = ctx.sent \/ Grown(ctx, after))
  BY <1>1, <1>2, FinalizeIsOK
<1> HIDE DEF after
<1>5. ctx' = after /\ UNCHANGED <<peer, acks, told>>
  BY <1>3 DEF Sent
<1>6. net' = net \/ (net' = net \cup {Len(after.sent)} /\ Len(after.sent) # Len(ctx.sent))
  BY <1>3 DEF Sent
<1>7. /\ Len(after.sent) <= MaxPackets /\ DOMAIN ctx.sent \subseteq DOMAIN after.sent
      /\ Len(after.sent) # Len(ctx.sent) => Len(after.sent) \in DOMAIN after.sent
  <2>1. /\ Len(after.sent) \in Nat /\ DOMAIN after.sent = 1 .. Len(after.sent)
        /\ Len(ctx.sent) \in Nat /\ DOMAIN ctx.sent = 1 .. Len(ctx.sent)
    BY <1>1, <1>4, SentTells
  <2> QED BY <1>1, <1>4, <2>1, LossRecoveryAssumption DEF Grown
<1>8. net' \subseteq DOMAIN after.sent
  BY <1>6, <1>7 DEF IInv, TypeOK
<1>9. /\ \A a \in acks : a # {} /\ a \subseteq DOMAIN after.sent
      /\ peer \in [received : SUBSET Numbers, owes : BOOLEAN]
      /\ peer.received \subseteq DOMAIN after.sent /\ told \subseteq DOMAIN after.sent
      /\ peer.owes => peer.received # {}
  BY <1>7 DEF IInv, TypeOK
<1>10. after \in Contexts /\ Owned(after) \subseteq DOMAIN after.sent
  BY <1>4 DEF Sound
<1> QED BY <1>4, <1>5, <1>7, <1>8, <1>9, <1>10 DEF IInv, TypeOK

LEMMA ReceiveAckKeeps ==
  ASSUME IInv, NEW ack, NEW old \in OldOnes, NEW rack, ReceiveAck(ack, old, rack)
  PROVE  IInv'
<1> DEFINE after == DecodeAck(ctx, ack, old, rack)
<1>1. /\ Sound(ctx) /\ Frames \subseteq Held(ctx) /\ Len(ctx.sent) <= MaxPackets
      /\ ack # {} /\ ack \subseteq DOMAIN ctx.sent
  BY DEF IInv, TypeOK, ReceiveAck
<1>2. ctx' = after
  BY Zenon DEF ReceiveAck
<1>3. AckOK(ctx, after)
  BY <1>1, DecodeAckIsOK DEF ReceiveAck, OldOnes
<1> HIDE DEF after
<1>4. Sound(after) /\ after.sent = ctx.sent /\ Frames \subseteq Held(after)
  <2>1. ToSet(<<>>) = {}
    BY DEF ToSet
  <2> QED BY <1>1, <1>3, <2>1 DEF AckOK, Keeps
<1>5. /\ net' \subseteq DOMAIN after.sent /\ told' \subseteq DOMAIN after.sent
      /\ \A a \in acks' : a # {} /\ a \subseteq DOMAIN after.sent
      /\ UNCHANGED peer /\ Len(after.sent) <= MaxPackets
      /\ peer \in [received : SUBSET Numbers, owes : BOOLEAN]
      /\ peer.received \subseteq DOMAIN after.sent /\ (peer.owes => peer.received # {})
  BY <1>1, <1>4 DEF IInv, TypeOK, ReceiveAck
<1>6. after \in Contexts /\ Owned(after) \subseteq DOMAIN after.sent
  BY <1>4 DEF Sound
<1> QED BY <1>2, <1>4, <1>5, <1>6 DEF IInv, TypeOK

LEMMA PeerKeeps ==
  ASSUME IInv, (\E pn \in net : PeerReceives(pn)) \/ PeerAcks \/ PeerForgets
  PROVE  IInv'
<1>1. /\ Sound(ctx) /\ Frames \subseteq Held(ctx) /\ Len(ctx.sent) <= MaxPackets
      /\ net \subseteq DOMAIN ctx.sent /\ told \subseteq DOMAIN ctx.sent
      /\ \A a \in acks : a # {} /\ a \subseteq DOMAIN ctx.sent
      /\ peer \in [received : SUBSET Numbers, owes : BOOLEAN]
      /\ peer.received \subseteq DOMAIN ctx.sent /\ (peer.owes => peer.received # {})
  BY DEF IInv, TypeOK
<1> DEFINE Kept ==
             /\ ctx' = ctx /\ net' \subseteq DOMAIN ctx.sent /\ told' = told
             /\ \A a \in acks' : a # {} /\ a \subseteq DOMAIN ctx.sent
             /\ peer' \in [received : SUBSET Numbers, owes : BOOLEAN]
             /\ peer'.received \subseteq DOMAIN ctx.sent /\ (peer'.owes => peer'.received # {})
<1>2. Kept
  <2>1. ASSUME NEW pn \in net, PeerReceives(pn)
        PROVE  Kept
    <3>1. pn \in Numbers
      <4>1. Len(ctx.sent) \in Nat /\ DOMAIN ctx.sent = 1 .. Len(ctx.sent)
        BY <1>1, SentTells
      <4>2. pn \in 1 .. Len(ctx.sent)
        BY <1>1, <4>1
      <4> QED BY <1>1, <4>1, <4>2, LossRecoveryAssumption DEF Numbers
    <3>2. (peer.owes \/ ctx.sent[pn] # <<>>) \in BOOLEAN
      OBVIOUS
    <3> QED BY <1>1, <2>1, <3>1, <3>2 DEF PeerReceives
  <2>2. ASSUME PeerAcks
        PROVE  Kept
    BY <1>1, <2>2 DEF PeerAcks
  <2>3. ASSUME PeerForgets
        PROVE  Kept
    <3> DEFINE top == Max(peer.received)
    <3>1. top \in peer.received
      <4>1. peer.received \subseteq 0 .. MaxPackets /\ peer.received # {} /\ MaxPackets \in Nat
        BY <1>1, <2>3, LossRecoveryAssumption DEF PeerForgets, Numbers
      <4> QED BY <4>1, GreatestIs
    <3> HIDE DEF top
    <3>2. /\ peer' = [peer EXCEPT !.received = @ \ (told \ {top})]
          /\ UNCHANGED <<ctx, net, acks, told, losses, early, pure>>
      BY <2>3 DEF PeerForgets, top
    <3> QED BY <1>1, <3>1, <3>2
  <2> QED BY <2>1, <2>2, <2>3
<1>3. ctx \in Contexts /\ Owned(ctx) \subseteq DOMAIN ctx.sent
  BY <1>1 DEF Sound
<1> QED BY <1>1, <1>2, <1>3 DEF IInv, TypeOK
-----------------------------------------------------------------------------
(* In every state, a packet or a queue holds a copy of each frame that is  *)
(* not acknowledged, each packet is in the lists it may be in, and its     *)
(* memory is given back when it has left them.                             *)
THEOREM InvariantHolds == Spec => []IInv
<1>1. Init => IInv
  BY InitSatisfies
<1>2. IInv /\ [Next]_vars => IInv'
  <2> SUFFICES ASSUME IInv, [Next]_vars
               PROVE  IInv'
    OBVIOUS
  <2>1. ASSUME NEW rack \in Racks, NEW timer \in BOOLEAN, Prepare(rack, timer)
        PROVE  IInv'
    BY <2>1, PrepareKeeps
  <2>2. ASSUME NEW ack \in acks, NEW old \in OldOnes, NEW rack \in Racks,
               ReceiveAck(ack, old, rack)
        PROVE  IInv'
    BY <2>2, ReceiveAckKeeps
  <2>3. ASSUME (\E pn \in net : PeerReceives(pn)) \/ PeerAcks \/ PeerForgets
        PROVE  IInv'
    BY <2>3, PeerKeeps
  <2>4. CASE UNCHANGED vars
    BY <2>4 DEF vars, IInv, TypeOK, Owned, Repeated, Sound
  <2> QED BY <2>1, <2>2, <2>3, <2>4, Zenon DEF Next
<1> QED BY <1>1, <1>2, PTL DEF Spec

(* The context, the acknowledgements and the knowledge of the peer have    *)
(* their types, and name packets that were sent.                           *)
THEOREM TypesHold == Spec => []TypeOK
<1>1. IInv => TypeOK
  BY DEF IInv
<1> QED BY <1>1, InvariantHolds, PTL

(* No frame is forgotten between loss, late acknowledgements, repetitions  *)
(* and timers.                                                             *)
THEOREM NothingForgottenHolds == Spec => []NothingForgotten
<1>1. IInv => NothingForgotten
  <2> SUFFICES ASSUME Frames \subseteq Held(ctx), NEW f \in Frames
               PROVE  \/ f \in ctx.acked
                      \/ f \in ToSet(ctx.fresh) \cup ToSet(ctx.misc)
                      \/ \E r \in ctx.data_repeat : f \in ToSet(r.rest)
                      \/ \E pn \in ToSet(ctx.pending) : f \in ToSet(ctx.sent[pn])
    BY DEF IInv, NothingForgotten
  <2>1. f \in Held(ctx)
    OBVIOUS
  <2> QED BY <2>1, HeldIs
<1> QED BY <1>1, InvariantHolds, PTL

(* The memory of a packet is given back once, and not while a list holds   *)
(* the packet.                                                             *)
THEOREM RecycledOnceHolds == Spec => []RecycledOnce
<1>1. IInv => RecycledOnce
  <2> SUFFICES ASSUME IInv, NEW pn \in DOMAIN ctx.sent
               PROVE  ctx.recycled[pn] = IF pn \in Owned(ctx) THEN 0 ELSE 1
    BY DEF RecycledOnce
  <2>1. Sound(ctx) /\ Len(ctx.sent) <= MaxPackets
    BY DEF IInv, TypeOK
  <2>2. Len(ctx.sent) \in Nat /\ DOMAIN ctx.sent = 1 .. Len(ctx.sent)
    BY <2>1, SentTells
  <2>3. pn \in 1 .. Len(ctx.sent)
    BY <2>2
  <2>4. pn \in Numbers
    BY <2>1, <2>2, <2>3, LossRecoveryAssumption DEF Numbers
  <2> QED BY <2>1, <2>4 DEF Sound
<1> QED BY <1>1, InvariantHolds, PTL

(* The window counts what is pending, and both lists are in the order of   *)
(* the packet numbers, on which their searches rely.                       *)
THEOREM ListsHold == Spec => []ListsAreSound
<1>1. IInv => ListsAreSound
  BY DEF IInv, Sound, Rising, Falling, ListsAreSound
<1> QED BY <1>1, InvariantHolds, PTL
=============================================================================
