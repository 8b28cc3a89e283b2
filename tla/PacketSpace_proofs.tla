------------------------ MODULE PacketSpace_proofs -------------------------
(***************************************************************************)
(* Proofs about AckContext for every number of packets, every bound on the *)
(* frames in flight and every repeat limit, and about SackList for every   *)
(* list, every number of ranges in a frame and every repeat limit.         *)
(***************************************************************************)
EXTENDS MCPacketSpace, FiniteSetTheorems, WellFoundedInduction, TLAPS

(* The inductive invariant: what the runs check, and that a frame in       *)
(* flight holds no empty range, without which trimming could grow an item. *)
FramesWellFormed == \A F \in frames : \A r \in F : r.lo <= r.hi

IInv ==
  /\ TypeOK
  /\ RangesSeparated
  /\ AcksAreTruthful
  /\ ForgottenOnlyIfLearned
  /\ LargestKept
  /\ FramesWellFormed

-----------------------------------------------------------------------------
(* An item just below, an item just above: there is at most one of each in *)
(* a well-formed list, and the one RecordOne chooses is it.                *)
LEMMA RecordOneBounds ==
  ASSUME NEW L \in SUBSET Items, WellFormed(L), NEW pn \in Nat,
         ~AlreadyReceived(L, pn)
  PROVE  \E lo, hi \in Nat :
           LET below == {it \in L : it.hi + 1 = pn}
               above == {it \in L : it.lo = pn + 1}
           IN  /\ RecordOne(L, pn) = (L \ (below \cup above)) \cup {NewItem(lo, hi)}
               /\ \/ below = {} /\ lo = pn
                  \/ \E b \in below : below = {b} /\ lo = b.lo
               /\ \/ above = {} /\ hi = pn
                  \/ \E a \in above : above = {a} /\ hi = a.hi
<1> DEFINE below == {it \in L : it.hi + 1 = pn}
           above == {it \in L : it.lo = pn + 1}
           lo == IF below = {} THEN pn ELSE (CHOOSE it \in below : TRUE).lo
           hi == IF above = {} THEN pn ELSE (CHOOSE it \in above : TRUE).hi
<1>1. RecordOne(L, pn) = (L \ (below \cup above)) \cup {NewItem(lo, hi)}
  BY DEF RecordOne
<1>2. \A x, y \in below : x = y
  BY DEF WellFormed, Separated, Items
<1>3. \A x, y \in above : x = y
  BY DEF WellFormed, Separated, Items
<1>4. lo \in Nat /\ (\/ below = {} /\ lo = pn
                     \/ \E b \in below : below = {b} /\ lo = b.lo)
  <2>1. CASE below = {}
    BY <2>1
  <2>2. CASE below # {}
    <3>1. PICK b \in below : b = CHOOSE it \in below : TRUE
      BY <2>2
    <3>2. below = {b}
      BY <3>1, <1>2
    <3> QED BY <2>2, <3>1, <3>2 DEF Items
  <2> QED BY <2>1, <2>2
<1>5. hi \in Nat /\ (\/ above = {} /\ hi = pn
                     \/ \E a \in above : above = {a} /\ hi = a.hi)
  <2>1. CASE above = {}
    BY <2>1
  <2>2. CASE above # {}
    <3>1. PICK a \in above : a = CHOOSE it \in above : TRUE
      BY <2>2
    <3>2. above = {a}
      BY <3>1, <1>3
    <3> QED BY <2>2, <3>1, <3>2 DEF Items
  <2> QED BY <2>1, <2>2
<1> HIDE DEF below, above, lo, hi
<1>6. QED
  BY <1>1, <1>4, <1>5 DEF below, above

(* RecordOne keeps the list well formed and adds exactly pn to it.         *)
LEMMA RecordOneAdds ==
  ASSUME NEW L \in SUBSET Items, WellFormed(L), NEW pn \in Nat,
         ~AlreadyReceived(L, pn)
  PROVE  /\ RecordOne(L, pn) \in SUBSET Items
         /\ WellFormed(RecordOne(L, pn))
         /\ Covered(RecordOne(L, pn)) = Covered(L) \cup {pn}
         /\ \A m \in Nat : (\E it \in L : it.hi = m /\ pn < m)
                             => \E it \in RecordOne(L, pn) : it.hi = m
         /\ (\A it \in L : it.hi < pn) => \E it \in RecordOne(L, pn) : it.hi = pn
<1> DEFINE below == {it \in L : it.hi + 1 = pn}
           above == {it \in L : it.lo = pn + 1}
           New == RecordOne(L, pn)
<1>1. PICK lo \in Nat, hi \in Nat :
        /\ New = (L \ (below \cup above)) \cup {NewItem(lo, hi)}
        /\ \/ below = {} /\ lo = pn
           \/ \E b \in below : below = {b} /\ lo = b.lo
        /\ \/ above = {} /\ hi = pn
           \/ \E a \in above : above = {a} /\ hi = a.hi
  BY RecordOneBounds
<1> DEFINE n == NewItem(lo, hi)
<1>2. n \in Items /\ n.lo = lo /\ n.hi = hi
  BY AckContextAssumption DEF NewItem, Items, SentCounts, NeverSent
<1>3. lo <= pn /\ pn <= hi
  BY <1>1 DEF Items, WellFormed
<1>4. \A it \in L : it \in Items /\ it.lo \in Nat /\ it.hi \in Nat /\ it.lo <= it.hi
  BY DEF Items, WellFormed
<1>5. \A it \in L : it \in below \/ it \in above
        \/ it.hi + 1 < pn \/ pn + 1 < it.lo
  BY <1>4 DEF AlreadyReceived
<1>6. \A it \in L \ (below \cup above) : it.hi + 1 < lo \/ hi + 1 < it.lo
  <2> TAKE it \in L \ (below \cup above)
  <2>1. it.hi + 1 < pn \/ pn + 1 < it.lo
    BY <1>5
  <2>2. CASE it.hi + 1 < pn
    BY <1>1, <1>4, <2>2 DEF WellFormed, Separated
  <2>3. CASE pn + 1 < it.lo
    BY <1>1, <1>4, <2>3 DEF WellFormed, Separated
  <2> QED BY <2>1, <2>2, <2>3
<1>7. WellFormed(New)
  <2>1. \A x \in New : x.lo <= x.hi
    BY <1>1, <1>2, <1>3, <1>4
  <2>2. ASSUME NEW x \in New, NEW y \in New, x # y
        PROVE  x.hi + 1 < y.lo \/ y.hi + 1 < x.lo
    <3>1. CASE x = n
      BY <1>1, <1>2, <1>6, <2>2, <3>1
    <3>2. CASE y = n
      BY <1>1, <1>2, <1>6, <2>2, <3>2
    <3>3. CASE x # n /\ y # n
      BY <1>1, <2>2, <3>3 DEF WellFormed, Separated
    <3> QED BY <3>1, <3>2, <3>3
  <2> QED BY <2>1, <2>2 DEF WellFormed, Separated
<1>8. Covered(New) = Covered(L) \cup {pn}
  <2>1. lo .. hi = {pn} \cup Covered(below \cup above)
    <3>1. lo .. pn = {pn} \cup Covered(below)
      <4>1. CASE below = {} /\ lo = pn
        BY <4>1 DEF Covered
      <4>2. CASE \E b \in below : below = {b} /\ lo = b.lo
        <5>1. PICK b \in below : below = {b} /\ lo = b.lo
          BY <4>2
        <5>2. b.hi + 1 = pn /\ b.lo \in Nat /\ b.hi \in Nat /\ b.lo <= b.hi
          BY <5>1, <1>4
        <5>3. lo .. pn = {pn} \cup (b.lo .. b.hi)
          BY <5>1, <5>2
        <5> QED BY <5>1, <5>3 DEF Covered
      <4> QED BY <1>1, <4>1, <4>2
    <3>2. pn .. hi = {pn} \cup Covered(above)
      <4>1. CASE above = {} /\ hi = pn
        BY <4>1 DEF Covered
      <4>2. CASE \E a \in above : above = {a} /\ hi = a.hi
        <5>1. PICK a \in above : above = {a} /\ hi = a.hi
          BY <4>2
        <5>2. a.lo = pn + 1 /\ a.lo \in Nat /\ a.hi \in Nat /\ a.lo <= a.hi
          BY <5>1, <1>4
        <5>3. pn .. hi = {pn} \cup (a.lo .. a.hi)
          BY <5>1, <5>2
        <5> QED BY <5>1, <5>3 DEF Covered
      <4> QED BY <1>1, <4>1, <4>2
    <3>3. lo .. hi = (lo .. pn) \cup (pn .. hi)
      BY <1>3
    <3>4. Covered(below \cup above) = Covered(below) \cup Covered(above)
      BY DEF Covered
    <3> QED BY <3>1, <3>2, <3>3, <3>4
  <2>2. Covered(New) = Covered(L \ (below \cup above)) \cup (lo .. hi)
    BY <1>1, <1>2 DEF Covered
  <2>3. Covered(L) = Covered(L \ (below \cup above)) \cup Covered(below \cup above)
    BY DEF Covered
  <2> QED BY <2>1, <2>2, <2>3
<1>9. \A m \in Nat : (\E it \in L : it.hi = m /\ pn < m)
                       => \E it \in New : it.hi = m
  <2> SUFFICES ASSUME NEW m \in Nat, NEW it \in L, it.hi = m, pn < m
               PROVE  \E x \in New : x.hi = m
    OBVIOUS
  <2>1. it \notin below
    BY <1>4
  <2>2. CASE it \in above
    BY <1>1, <1>2, <2>2
  <2>3. CASE it \notin above
    BY <1>1, <2>1, <2>3
  <2> QED BY <2>2, <2>3
<1>10. (\A it \in L : it.hi < pn) => \E it \in New : it.hi = pn
  <2> HAVE \A it \in L : it.hi < pn
  <2>1. above = {}
    BY <1>4
  <2> QED BY <1>1, <1>2, <2>1
<1>11. New \in SUBSET Items
  BY <1>1, <1>2
<1> QED BY <1>7, <1>8, <1>9, <1>10, <1>11

(* The list after one more transmission of the items in B.                 *)
Counted(L, B, k) == (L \ B) \cup {SentOnceMore(it, k) : it \in B}

(* Counting a transmission changes no range.                               *)
LEMMA SentKeepsShape ==
  ASSUME NEW L \in SUBSET Items, WellFormed(L), NEW B \in SUBSET L,
         NEW k \in Kinds
  PROVE  /\ Counted(L, B, k) \in SUBSET Items
         /\ WellFormed(Counted(L, B, k))
         /\ Covered(Counted(L, B, k)) = Covered(L)
         /\ \A it \in L : \E x \in Counted(L, B, k) : x.hi = it.hi
<1> DEFINE N == Counted(L, B, k)
<1>1. \A it \in L : /\ SentOnceMore(it, k) \in Items
                    /\ SentOnceMore(it, k).lo = it.lo
                    /\ SentOnceMore(it, k).hi = it.hi
  BY AckContextAssumption DEF SentOnceMore, Items, SentCounts, Kinds
<1>2. \A x \in N : \E a \in L : /\ a.lo = x.lo /\ a.hi = x.hi
                                /\ (x = a /\ a \notin B) \/ (x = SentOnceMore(a, k) /\ a \in B)
  BY <1>1 DEF Counted
<1>3. \A a \in L : \E x \in N : a.lo = x.lo /\ a.hi = x.hi
  BY <1>1 DEF Counted
<1>4. N \in SUBSET Items
  BY <1>1 DEF Counted
<1> HIDE DEF N
<1>5. WellFormed(N)
  BY <1>2 DEF WellFormed, Separated
<1>6. Covered(N) = Covered(L)
  BY <1>2, <1>3 DEF Covered
<1> QED BY <1>3, <1>4, <1>5, <1>6 DEF N

(* The ranges a frame takes come from the list, besides the top one.       *)
LEMMA SelectedIsBelow ==
  ASSUME NEW L, NEW k, NEW top, NEW room
  PROVE  SelectedBelow(L, k, top, MaxBlocks, room) \subseteq L \ {top}
BY DEF SelectedBelow, TopN

(* An acknowledged ACK frame takes out of the list only numbers it carried,*)
(* and never the largest.                                                  *)
LEMMA AckOfAckForgets ==
  ASSUME NEW L \in SUBSET Items, WellFormed(L), NEW F \in SUBSET Ranges,
         \A r \in F : r.lo <= r.hi
  PROVE  /\ AckOfAck(L, F) \in SUBSET Items
         /\ WellFormed(AckOfAck(L, F))
         /\ Covered(AckOfAck(L, F)) \subseteq Covered(L)
         /\ Covered(L) \ Covered(AckOfAck(L, F))
              \subseteq UNION {r.lo .. r.hi : r \in F}
         /\ \A it \in L : IsHighest(L, it) =>
              \E x \in AckOfAck(L, F) : x.hi = it.hi
<1> DEFINE hit(it) == {r \in F : r.lo = it.lo}
           high == {it \in L : IsHighest(L, it) /\ hit(it) # {}}
           gone == {it \in L : ~IsHighest(L, it) /\ \E r \in hit(it) : r.hi = it.hi}
           cut(it) == TrimHighest(it, (CHOOSE r \in hit(it) : TRUE).hi)
           N == AckOfAck(L, F)
<1>1. N = (L \ (high \cup gone)) \cup {cut(it) : it \in high}
  BY DEF AckOfAck
<1>2. \A it \in L : it.lo \in Nat /\ it.hi \in Nat /\ it.lo <= it.hi
  BY DEF Items, WellFormed
<1>3. \A it \in high :
        /\ cut(it) \in Items /\ cut(it).hi = it.hi
        /\ it.lo <= cut(it).lo /\ cut(it).lo <= cut(it).hi
        /\ it.lo .. (cut(it).lo - 1) \subseteq UNION {r.lo .. r.hi : r \in F}
  <2> TAKE it \in high
  <2> DEFINE r == CHOOSE r \in hit(it) : TRUE
  <2>1. r \in F /\ r.lo = it.lo
    OBVIOUS
  <2>2. r.lo \in Nat /\ r.hi \in Nat
    BY <2>1 DEF Ranges
  <2>3. cut(it) = [it EXCEPT !.lo = IF r.hi < it.hi THEN r.hi + 1 ELSE it.hi]
    BY DEF TrimHighest
  <2> HIDE DEF r, cut
  <2>4. it \in Items /\ it \in L
    OBVIOUS
  <2>5. cut(it) \in Items /\ cut(it).hi = it.hi
        /\ cut(it).lo = IF r.hi < it.hi THEN r.hi + 1 ELSE it.hi
    BY <2>2, <2>3, <2>4 DEF Items
  <2>6. it.lo <= r.hi /\ it.lo <= it.hi
    BY <1>2, <2>1, <2>4
  <2>7. it.lo <= cut(it).lo /\ cut(it).lo <= cut(it).hi
    BY <1>2, <2>2, <2>4, <2>5, <2>6
  <2>8. it.lo .. (cut(it).lo - 1) \subseteq r.lo .. r.hi
    BY <1>2, <2>1, <2>2, <2>4, <2>5
  <2> QED BY <2>1, <2>5, <2>7, <2>8
<1> HIDE DEF cut
<1>4. \A x \in N : \E it \in L : /\ it.lo <= x.lo /\ x.lo <= x.hi /\ x.hi = it.hi
                                 /\ x.lo \in Nat /\ x \in Items
                                 /\ (x = it /\ it \notin high) \/ (x = cut(it) /\ it \in high)
  <2> TAKE x \in N
  <2>1. CASE x \in L /\ x \notin high
    BY <1>2, <2>1
  <2>2. CASE \E it \in high : x = cut(it)
    <3>1. PICK it \in high : x = cut(it)
      BY <2>2
    <3>2. cut(it) \in Items /\ cut(it).lo \in Nat
      BY <1>3 DEF Items
    <3> QED BY <1>3, <3>1, <3>2
  <2> QED BY <1>1, <2>1, <2>2
<1>5. \A it \in L : it \notin gone => \E x \in N : x.hi = it.hi
  BY <1>1, <1>3
<1>6. N \in SUBSET Items
  BY <1>4
<1>7. WellFormed(N)
  <2>1. \A x \in N : x.lo <= x.hi
    BY <1>4
  <2>2. ASSUME NEW x \in N, NEW y \in N, x # y
        PROVE  x.hi + 1 < y.lo \/ y.hi + 1 < x.lo
    <3>1. PICK a \in L : /\ a.lo <= x.lo /\ x.hi = a.hi
                         /\ (x = a /\ a \notin high) \/ (x = cut(a) /\ a \in high)
      BY <1>4
    <3>2. PICK b \in L : /\ b.lo <= y.lo /\ y.hi = b.hi
                         /\ (y = b /\ b \notin high) \/ (y = cut(b) /\ b \in high)
      BY <1>4
    <3>3. a # b
      BY <2>2, <3>1, <3>2
    <3>4. a.hi + 1 < b.lo \/ b.hi + 1 < a.lo
      BY <3>3 DEF WellFormed, Separated
    <3>5. x.lo \in Nat /\ y.lo \in Nat
      BY <1>4
    <3> QED BY <1>2, <3>1, <3>2, <3>4, <3>5
  <2> QED BY <2>1, <2>2 DEF WellFormed, Separated
<1>8. Covered(N) \subseteq Covered(L)
  <2> SUFFICES ASSUME NEW x \in N, NEW z \in x.lo .. x.hi
               PROVE  \E it \in L : z \in it.lo .. it.hi
    BY DEF Covered
  <2>1. PICK it \in L : it.lo <= x.lo /\ x.hi = it.hi /\ x.lo \in Nat
    BY <1>4
  <2> QED BY <1>2, <2>1
<1>9. Covered(L) \ Covered(N) \subseteq UNION {r.lo .. r.hi : r \in F}
  <2> SUFFICES ASSUME NEW it \in L, NEW z \in it.lo .. it.hi, z \notin Covered(N)
               PROVE  \E r \in F : z \in r.lo .. r.hi
    BY DEF Covered
  <2>1. CASE it \in gone
    <3>1. PICK r \in F : r.lo = it.lo /\ r.hi = it.hi
      BY <2>1
    <3> QED BY <3>1
  <2>2. CASE it \in high
    <3>1. cut(it) \in N
      BY <1>1, <2>2
    <3>2. z \notin cut(it).lo .. cut(it).hi
      BY <3>1 DEF Covered
    <3>3. cut(it).lo \in Nat /\ it.lo \in Nat /\ it.hi \in Nat
      BY <1>2, <1>3, <2>2 DEF Items
    <3>4. z \in it.lo .. (cut(it).lo - 1)
      BY <1>3, <2>2, <3>2, <3>3
    <3> QED BY <1>3, <2>2, <3>4
  <2>3. CASE it \notin gone /\ it \notin high
    BY <1>1, <2>3 DEF Covered
  <2> QED BY <2>1, <2>2, <2>3
<1>10. \A it \in L : IsHighest(L, it) => it \notin gone
  OBVIOUS
<1> QED BY <1>5, <1>6, <1>7, <1>8, <1>9, <1>10

-----------------------------------------------------------------------------
LEMMA InitIInv == Init => IInv
<1> SUFFICES ASSUME Init PROVE IInv
  OBVIOUS
<1>1. TypeOK
  BY DEF Init, TypeOK, ActState, Kinds
<1>2. RangesSeparated
  BY DEF Init, RangesSeparated, WellFormed, Separated
<1>3. AcksAreTruthful /\ ForgottenOnlyIfLearned
  BY DEF Init, AcksAreTruthful, ForgottenOnlyIfLearned, Covered
<1>4. LargestKept /\ FramesWellFormed
  BY DEF Init, LargestKept, FramesWellFormed
<1> QED BY <1>1, <1>2, <1>3, <1>4 DEF IInv

(* The flags keep their types through the handlers.                        *)
LEMMA FlagsTyped ==
  ASSUME NEW a \in [Kinds -> ActState], NEW c \in Content, NEW pn \in Pns
  PROVE  MarkOrder(AfterFrames(a, c), pn) \in [Kinds -> ActState]
<1>1. \A b \in [Kinds -> ActState], i \in BOOLEAN :
        SetAckNeeded(b, i) \in [Kinds -> ActState]
  <2> TAKE b \in [Kinds -> ActState], i \in BOOLEAN
  <2>1. \A k \in Kinds : [b[k] EXCEPT !.needed = TRUE, !.late = FALSE,
                                    !.immediate = @ \/ (k = 0 /\ i)] \in ActState
    BY DEF ActState
  <2> QED BY <2>1 DEF SetAckNeeded
<1>2. [k \in Kinds |-> [a[k] EXCEPT !.afterFin = TRUE]] \in [Kinds -> ActState]
  BY DEF ActState
<1>3. AfterFrames(a, c) \in [Kinds -> ActState]
  BY <1>1, <1>2 DEF AfterFrames
<1>4. \A b \in [Kinds -> ActState] : MarkOrder(b, pn) \in [Kinds -> ActState]
  <2> TAKE b \in [Kinds -> ActState]
  <2>1. \A k \in Kinds : [b[k] EXCEPT !.outOfOrder = TRUE] \in ActState
    BY DEF ActState
  <2> QED BY <2>1 DEF MarkOrder
<1> QED BY <1>3, <1>4

LEMMA ReceiveIInv ==
  ASSUME IInv, NEW pn \in Pns, NEW c \in Contents, Receive(pn, c)
  PROVE  IInv'
<1> USE DEF IInv
<1>1. pn \in Nat /\ pn \in Pns
  BY AckContextAssumption DEF Pns
<1>2. c \in Content
  BY AckContextAssumption DEF Contents, Content
<1>3. /\ items \in SUBSET Items /\ WellFormed(items) /\ ~AlreadyReceived(items, pn)
      /\ items' = RecordOne(items, pn)
  BY DEF TypeOK, RangesSeparated, Receive
<1>4. /\ items' \in SUBSET Items
      /\ WellFormed(items')
      /\ Covered(items') = Covered(items) \cup {pn}
      /\ \A m \in Nat : (\E it \in items : it.hi = m /\ pn < m)
                          => \E it \in items' : it.hi = m
      /\ (\A it \in items : it.hi < pn) => \E it \in items' : it.hi = pn
  BY <1>1, <1>3, RecordOneAdds
<1>5. /\ accepted' = accepted \cup {pn}
      /\ learned' = learned /\ frames' = frames
  BY DEF Receive
<1>6. TypeOK'
  <2>1. act' \in [Kinds -> ActState]
    BY <1>1, <1>2, FlagsTyped DEF Receive, TypeOK
  <2>2. again' \in SUBSET Pns
    BY <1>1, <1>2 DEF Receive, TypeOK
  <2> QED BY <1>1, <1>4, <1>5, <2>1, <2>2 DEF TypeOK
<1>7. RangesSeparated'
  BY <1>4 DEF RangesSeparated
<1>8. AcksAreTruthful'
  BY <1>4, <1>5 DEF AcksAreTruthful
<1>9. ForgottenOnlyIfLearned'
  BY <1>4, <1>5 DEF ForgottenOnlyIfLearned
<1>10. LargestKept'
  <2>1. CASE accepted = {}
    <3>1. items = {}
      BY <2>1, <1>3 DEF AcksAreTruthful, Covered, WellFormed, Items
    <3> QED BY <1>1, <1>4, <1>5, <2>1, <3>1 DEF LargestKept
  <2>2. CASE accepted # {}
    <3>1. PICK top \in items : top.hi \in accepted /\ \A n \in accepted : n <= top.hi
      BY <2>2 DEF LargestKept
    <3>2. \A it \in items : it.lo \in Nat /\ it.hi \in Nat /\ it.hi \in accepted
      BY <1>3 DEF AcksAreTruthful, Covered, WellFormed, Items
    <3>3. accepted \in SUBSET Nat
      BY AckContextAssumption DEF TypeOK, Pns
    <3>4. pn # top.hi
      BY <1>3, <3>2 DEF AlreadyReceived, WellFormed
    <3>5. CASE pn < top.hi
      BY <1>1, <1>4, <1>5, <3>1, <3>2, <3>3, <3>5 DEF LargestKept
    <3>6. CASE top.hi < pn
      BY <1>1, <1>4, <1>5, <3>1, <3>2, <3>3, <3>6 DEF LargestKept
    <3> QED BY <1>1, <3>2, <3>4, <3>5, <3>6
  <2> QED BY <2>1, <2>2
<1>11. FramesWellFormed'
  BY <1>5 DEF FramesWellFormed
<1> QED BY <1>6, <1>7, <1>8, <1>9, <1>10, <1>11

LEMMA SendAckIInv ==
  ASSUME IInv, NEW k \in SendKinds, NEW room \in 0 .. MaxBlocks, SendAck(k, room)
  PROVE  IInv'
<1> USE DEF IInv
<1>1. k \in Kinds
  BY AckContextAssumption
<1>2. PICK top \in items :
        LET top1 == SentOnceMore(top, k)
            L == (items \ {top}) \cup {top1}
            below == SelectedBelow(L, k, top1, MaxBlocks, room)
        IN  /\ items' = (L \ below) \cup {SentOnceMore(it, k) : it \in below}
            /\ frames' = frames \cup {{Bare(it) : it \in below \cup {top}}}
            /\ act' = [act EXCEPT ![k] = AckSent(@, k, top.hi)]
  BY DEF SendAck, FormatAck
<1> DEFINE top1 == SentOnceMore(top, k)
           L == Counted(items, {top}, k)
           below == SelectedBelow(L, k, top1, MaxBlocks, room)
           F == {Bare(it) : it \in below \cup {top}}
<1>3. L = (items \ {top}) \cup {top1}
  BY DEF Counted
<1>4. /\ items' = Counted(L, below, k)
      /\ frames' = frames \cup {F}
  BY <1>2, <1>3 DEF Counted
<1>5. items \in SUBSET Items /\ WellFormed(items) /\ {top} \in SUBSET items
  BY DEF TypeOK, RangesSeparated
<1>6. /\ L \in SUBSET Items
      /\ WellFormed(L)
      /\ Covered(L) = Covered(items)
      /\ \A it \in items : \E x \in L : x.hi = it.hi
  BY <1>1, <1>5, SentKeepsShape
<1>7. below \in SUBSET L
  BY SelectedIsBelow
<1> HIDE DEF L, below
<1>8. /\ items' \in SUBSET Items
      /\ WellFormed(items')
      /\ Covered(items') = Covered(L)
      /\ \A it \in L : \E x \in items' : x.hi = it.hi
  BY <1>1, <1>4, <1>6, <1>7, SentKeepsShape
<1>9. accepted' = accepted /\ learned' = learned /\ again' = again
  BY DEF SendAck
<1>10. \A r \in F : r \in Ranges /\ r.lo <= r.hi /\ r.lo .. r.hi \subseteq accepted
  <2>1. \A it \in below \cup {top} :
          it \in Items /\ it.lo <= it.hi /\ it.lo .. it.hi \subseteq accepted
    BY <1>5, <1>6, <1>7 DEF WellFormed, AcksAreTruthful, Covered
  <2> QED BY <2>1 DEF Bare, Ranges, Items
<1> HIDE DEF F
<1>11. TypeOK'
  <2>1. act' \in [Kinds -> ActState]
    <3>1. top.hi \in Nat
      BY <1>5 DEF Items
    <3>2. AckSent(act[k], k, top.hi) \in ActState
      BY <1>1, <3>1 DEF TypeOK, ActState, AckSent
    <3>3. act' = [act EXCEPT ![k] = AckSent(act[k], k, top.hi)]
      BY <1>1, <1>2 DEF TypeOK
    <3> QED BY <1>1, <3>2, <3>3 DEF TypeOK
  <2>2. frames' \in SUBSET (SUBSET Ranges)
    BY <1>4, <1>10 DEF TypeOK
  <2> QED BY <1>8, <1>9, <2>1, <2>2 DEF TypeOK
<1>12. RangesSeparated'
  BY <1>8 DEF RangesSeparated
<1>13. AcksAreTruthful'
  <2>1. Covered(items') \subseteq accepted'
    BY <1>6, <1>8, <1>9 DEF AcksAreTruthful
  <2>2. \A G \in frames' : \A r \in G : r.lo .. r.hi \subseteq accepted'
    BY <1>4, <1>9, <1>10 DEF AcksAreTruthful
  <2> QED BY <2>1, <2>2 DEF AcksAreTruthful
<1>14. ForgottenOnlyIfLearned'
  BY <1>6, <1>8, <1>9 DEF ForgottenOnlyIfLearned
<1>15. LargestKept'
  BY <1>6, <1>8, <1>9 DEF LargestKept
<1>16. FramesWellFormed'
  BY <1>4, <1>10 DEF FramesWellFormed
<1> QED BY <1>11, <1>12, <1>13, <1>14, <1>15, <1>16

LEMMA PacketAckedIInv ==
  ASSUME IInv, NEW F \in frames, PacketAcked(F)
  PROVE  IInv'
<1> USE DEF IInv
<1>1. /\ items \in SUBSET Items /\ WellFormed(items)
      /\ F \in SUBSET Ranges /\ \A r \in F : r.lo <= r.hi
  BY DEF TypeOK, RangesSeparated, FramesWellFormed
<1>2. /\ items' = AckOfAck(items, F)
      /\ frames' = frames \ {F} /\ accepted' = accepted
      /\ learned' = learned \cup UNION {r.lo .. r.hi : r \in F}
      /\ act' = act /\ again' = again
  BY DEF PacketAcked
<1>3. /\ items' \in SUBSET Items
      /\ WellFormed(items')
      /\ Covered(items') \subseteq Covered(items)
      /\ Covered(items) \ Covered(items') \subseteq UNION {r.lo .. r.hi : r \in F}
      /\ \A it \in items : IsHighest(items, it) => \E x \in items' : x.hi = it.hi
  BY <1>1, <1>2, AckOfAckForgets
<1>4. UNION {r.lo .. r.hi : r \in F} \subseteq accepted
  BY DEF AcksAreTruthful
<1>5. TypeOK'
  BY <1>2, <1>3, <1>4 DEF TypeOK
<1>6. RangesSeparated'
  BY <1>3 DEF RangesSeparated
<1>7. AcksAreTruthful'
  BY <1>2, <1>3 DEF AcksAreTruthful
<1>8. ForgottenOnlyIfLearned'
  BY <1>2, <1>3 DEF ForgottenOnlyIfLearned
<1>9. LargestKept'
  <2> SUFFICES ASSUME accepted # {}
               PROVE  \E x \in items' : x.hi \in accepted /\ \A n \in accepted : n <= x.hi
    BY <1>2 DEF LargestKept
  <2>1. PICK top \in items : top.hi \in accepted /\ \A n \in accepted : n <= top.hi
    BY DEF LargestKept
  <2>2. \A o \in items : o.lo \in Nat /\ o.hi \in Nat /\ o.lo <= o.hi /\ o.hi <= top.hi
    BY <1>1, <2>1 DEF AcksAreTruthful, Covered, WellFormed, Items
  <2>3. IsHighest(items, top)
    BY <1>1, <2>2 DEF IsHighest, WellFormed, Separated
  <2> QED BY <1>3, <2>1, <2>3
<1>10. FramesWellFormed'
  BY <1>2 DEF FramesWellFormed
<1> QED BY <1>5, <1>6, <1>7, <1>8, <1>9, <1>10

LEMMA OtherIInv ==
  ASSUME IInv,
         \/ \E F \in frames : PacketLost(F)
         \/ \E k \in SendKinds : AskIfNeeded(k) \/ DelayExpires(k) \/ IdleExpires(k)
         \/ UNCHANGED vars
  PROVE  IInv'
<1> USE DEF IInv
<1>1. /\ items' = items /\ accepted' = accepted /\ learned' = learned
      /\ again' = again /\ frames' \in SUBSET frames
  BY DEF PacketLost, AskIfNeeded, DelayExpires, IdleExpires, vars
<1>2. act' \in [Kinds -> ActState]
  <2>1. CASE act' = act
    BY <2>1 DEF TypeOK
  <2>2. ASSUME NEW k \in SendKinds,
               AskIfNeeded(k) \/ DelayExpires(k) \/ IdleExpires(k)
        PROVE  act' \in [Kinds -> ActState]
    <3>1. k \in Kinds /\ act[k] \in ActState
      BY AckContextAssumption DEF TypeOK
    <3>2. [act[k] EXCEPT !.late = TRUE] \in ActState
      BY <3>1 DEF ActState
    <3>3. [act[k] EXCEPT !.idle = TRUE] \in ActState
      BY <3>1 DEF ActState
    <3>4. Asked(act[k]) \in ActState
      BY <3>1 DEF ActState, Asked
    <3> QED BY <2>2, <3>1, <3>2, <3>3, <3>4
            DEF AskIfNeeded, DelayExpires, IdleExpires, TypeOK
  <2> QED BY <2>1, <2>2 DEF PacketLost, vars
<1>3. TypeOK'
  BY <1>1, <1>2 DEF TypeOK
<1>4. RangesSeparated' /\ ForgottenOnlyIfLearned' /\ LargestKept'
  BY <1>1 DEF RangesSeparated, ForgottenOnlyIfLearned, LargestKept
<1>5. AcksAreTruthful' /\ FramesWellFormed'
  BY <1>1 DEF AcksAreTruthful, FramesWellFormed
<1> QED BY <1>3, <1>4, <1>5

LEMMA NextIInv == IInv /\ [Next]_vars => IInv'
<1> SUFFICES ASSUME IInv, [Next]_vars PROVE IInv'
  OBVIOUS
<1>1. CASE Arrive
  BY <1>1, ReceiveIInv DEF Arrive
<1>2. CASE \E k \in SendKinds, room \in 0 .. MaxBlocks : SendAck(k, room)
  BY <1>2, SendAckIInv
<1>3. CASE \E F \in frames : PacketAcked(F)
  BY <1>3, PacketAckedIInv
<1>4. CASE \/ \E F \in frames : PacketLost(F)
           \/ \E k \in SendKinds : AskIfNeeded(k) \/ DelayExpires(k) \/ IdleExpires(k)
           \/ UNCHANGED vars
  BY <1>4, OtherIInv
<1> QED BY <1>1, <1>2, <1>3, <1>4 DEF Next, PacketSettled

(* IInv is inductive and initially true.                                   *)
THEOREM Invariance == Spec => []IInv
<1>1. Init => IInv
  BY InitIInv
<1>2. IInv /\ [Next]_vars => IInv'
  BY NextIInv
<1> QED BY <1>1, <1>2, PTL DEF Spec

(* The state components keep their types.                                  *)
THEOREM TypeCorrect == Spec => []TypeOK
<1>1. IInv => TypeOK
  BY DEF IInv
<1> QED BY <1>1, Invariance, PTL

(* The received ranges are disjoint and never adjacent.                    *)
THEOREM Separation == Spec => []RangesSeparated
<1>1. IInv => RangesSeparated
  BY DEF IInv
<1> QED BY <1>1, Invariance, PTL

(* No ACK frame names a packet that was not received.                      *)
THEOREM Truthfulness == Spec => []AcksAreTruthful
<1>1. IInv => AcksAreTruthful
  BY DEF IInv
<1> QED BY <1>1, Invariance, PTL

(* Trimming the list never loses a packet the peer does not know about.    *)
THEOREM NothingLostByTrimming == Spec => []ForgottenOnlyIfLearned
<1>1. IInv => ForgottenOnlyIfLearned
  BY DEF IInv
<1> QED BY <1>1, Invariance, PTL

(* The largest packet number received stays in the list.                   *)
THEOREM LargestIsKept == Spec => []LargestKept
<1>1. IInv => LargestKept
  BY DEF IInv
<1> QED BY <1>1, Invariance, PTL

-----------------------------------------------------------------------------
(* What the code reads with picoquic_sack_list_last is the largest number  *)
(* ever received, 0 before the first packet.                               *)
LEMMA LastIsLargest ==
  ASSUME NEW L \in SUBSET Items, NEW A \in SUBSET Nat, WellFormed(L),
         Covered(L) \subseteq A,
         A # {} => \E it \in L : it.hi \in A /\ \A n \in A : n <= it.hi
  PROVE  /\ A = {} => ListLast(L) = 0
         /\ A # {} => ListLast(L) \in A /\ \A n \in A : n <= ListLast(L)
<1>1. \A it \in L : it.lo \in Nat /\ it.hi \in Nat /\ it.lo <= it.hi /\ it.hi \in A
  BY DEF Items, WellFormed, Covered
<1>2. CASE A = {}
  BY <1>1, <1>2 DEF ListLast
<1>3. CASE A # {}
  <2>1. PICK top \in L : top.hi \in A /\ \A n \in A : n <= top.hi
    BY <1>3
  <2>2. IsHighest(L, top)
    BY <1>1, <2>1 DEF IsHighest, WellFormed, Separated
  <2>3. \A it \in L : IsHighest(L, it) => it = top
    BY <1>1, <2>2 DEF IsHighest, WellFormed, Separated
  <2>4. ListLast(L) = top.hi
    BY <2>2, <2>3 DEF ListLast, IsHighest
  <2> QED BY <1>3, <2>1, <2>4
<1> QED BY <1>2, <1>3

(* The expected packet number never goes back, trims included.             *)
THEOREM LastMonotone == Spec => LastNeverDecreases
<1>1. ASSUME IInv, IInv', [Next]_vars
      PROVE  [ListLast(items') >= ListLast(items)]_vars
  <2>1. accepted \subseteq accepted'
    BY <1>1 DEF Next, Arrive, Receive, SendAck, PacketSettled, PacketAcked,
                PacketLost, AskIfNeeded, DelayExpires, IdleExpires, vars
  <2>2. accepted \in SUBSET Nat /\ accepted' \in SUBSET Nat
    BY <1>1, AckContextAssumption DEF IInv, TypeOK, Pns
  <2>3. /\ accepted = {} => ListLast(items) = 0
        /\ accepted # {} => ListLast(items) \in accepted
    BY <1>1, <2>2, LastIsLargest
       DEF IInv, TypeOK, RangesSeparated, AcksAreTruthful, LargestKept
  <2>4. /\ accepted' = {} => ListLast(items') = 0
        /\ accepted' # {} => ListLast(items') \in accepted'
                             /\ \A n \in accepted' : n <= ListLast(items')
    BY <1>1, <2>2, LastIsLargest
       DEF IInv, TypeOK, RangesSeparated, AcksAreTruthful, LargestKept
  <2>5. ListLast(items') >= ListLast(items)
    <3>1. CASE accepted' = {}
      <4>1. accepted = {}
        BY <2>1, <3>1
      <4> QED BY <2>3, <2>4, <3>1, <4>1
    <3>2. CASE accepted' # {} /\ accepted = {}
      <4>1. ListLast(items') \in Nat
        BY <2>2, <2>4, <3>2
      <4> QED BY <2>3, <3>2, <4>1
    <3>3. CASE accepted' # {} /\ accepted # {}
      <4>1. ListLast(items) \in accepted' /\ ListLast(items') \in Nat
        BY <2>1, <2>2, <2>3, <2>4, <3>3
      <4>2. ListLast(items) <= ListLast(items')
        BY <2>4, <3>3, <4>1
      <4> QED BY <2>2, <4>1, <4>2
    <3> QED BY <3>1, <3>2, <3>3
  <2> QED BY <2>5
<1>2. IInv /\ IInv' /\ [Next]_vars => [ListLast(items') >= ListLast(items)]_vars
  BY <1>1
<1> QED BY <1>2, Invariance, PTL DEF Spec, LastNeverDecreases
-----------------------------------------------------------------------------
(* The items of a list in the order of their numbers, without overlap.     *)
Rising(l) == \A i, j \in DOMAIN l : i < j => l[i].lo < l[j].lo

Spaced(l) ==
  /\ \A i \in DOMAIN l : l[i].lo <= l[i].hi
  /\ \A i, j \in DOMAIN l : i < j => l[i].hi + 2 <= l[j].lo

(* A list that the operations may be called with.                          *)
Sound(s) == s \in Sacks /\ Rising(s.list) /\ CountsExact(s)
-----------------------------------------------------------------------------
(* The least and the greatest of a set of numbers.                         *)
LEMMA LeastIs ==
  ASSUME NEW S, S \subseteq Nat, S # {}
  PROVE  Min(S) \in S /\ \A i \in S : Min(S) <= i
<1>1. PICK n \in S : \A i \in S : ~(<<i, n>> \in OpToRel(<, Nat))
  BY NatLessThanWellFounded, WFMin, Zenon
<1>2. \A i \in S : ~(i < n)
  BY <1>1 DEF OpToRel
<1>3. n \in S /\ \A i \in S : n <= i
  BY <1>2
<1> QED BY <1>3, Zenon DEF Min

LEMMA GreatestIs ==
  ASSUME NEW m \in Nat, NEW S, S \subseteq 0 .. m, S # {}
  PROVE  Max(S) \in S /\ \A i \in S : i <= Max(S)
<1> DEFINE below == {m - i : i \in S}
<1>1. below \subseteq Nat /\ below # {}
  <2>1. \A i \in S : m - i \in Nat
    OBVIOUS
  <2> QED BY <2>1
<1>2. Min(below) \in below /\ \A i \in below : Min(below) <= i
  BY <1>1, LeastIs
<1>3. PICK n \in S : Min(below) = m - n
  BY <1>2
<1>4. \A i \in S : m - n <= m - i
  BY <1>2, <1>3
<1>5. n \in S /\ \A i \in S : i <= n
  BY <1>4
<1> QED BY <1>5, Zenon DEF Max

(* What a set of numbers holds up to m, when it holds 0 and the successor  *)
(* of what it holds.                                                       *)
LEMMA UpTo ==
  ASSUME NEW m \in Nat, NEW S, 0 \in S, \A n \in 1 .. m : n - 1 \in S => n \in S
  PROVE  \A n \in 0 .. m : n \in S
<1> DEFINE left == (0 .. m) \ S
<1>1. ASSUME left # {}
      PROVE  FALSE
  <2>1. left \subseteq Nat
    OBVIOUS
  <2> HIDE DEF left
  <2>2. PICK n \in left : \A i \in left : n <= i
    BY <1>1, <2>1, LeastIs
  <2>3. n \in 1 .. m /\ n - 1 \in 0 .. m /\ n - 1 < n
    BY <2>2 DEF left
  <2>4. n - 1 \in S
    BY <2>2, <2>3 DEF left
  <2> QED BY <2>2, <2>3, <2>4 DEF left
<1> QED BY <1>1

(* The function that Walk computes with, on its first values.              *)
Visits(f, visit, start, n) ==
  f = [i \in 0 .. n |-> IF i = 0 THEN start ELSE visit[i][f[i - 1]]]

LEMMA VisitsExist ==
  ASSUME NEW visit, NEW start, NEW m \in Nat
  PROVE  \E f : Visits(f, visit, start, m)
<1> DEFINE S == {n \in 0 .. m : \E f : Visits(f, visit, start, n)}
<1>1. 0 \in S
  <2> DEFINE f == [n \in 0 .. 0 |-> start]
  <2>1. Visits(f, visit, start, 0)
    BY DEF Visits
  <2> QED BY <2>1
<1>2. ASSUME NEW n \in 1 .. m, n - 1 \in S
      PROVE  n \in S
  <2>1. PICK g : Visits(g, visit, start, n - 1)
    BY <1>2
  <2> DEFINE f == [i \in 0 .. n |-> IF i < n THEN g[i] ELSE visit[n][g[n - 1]]]
  <2>2. \A i \in 0 .. n - 1 : f[i] = g[i] /\ g[i] = IF i = 0 THEN start ELSE visit[i][g[i - 1]]
    <3>1. \A i \in 0 .. n - 1 : g[i] = IF i = 0 THEN start ELSE visit[i][g[i - 1]]
      BY <2>1, Zenon DEF Visits
    <3>2. \A i \in 0 .. n - 1 : i \in 0 .. n /\ i < n
      OBVIOUS
    <3>3. \A i \in 0 .. n - 1 : f[i] = g[i]
      BY <3>2, Zenon
    <3> QED BY <3>1, <3>3, Zenon
  <2>3. f[n] = visit[n][g[n - 1]]
    OBVIOUS
  <2>4. f = [i \in 0 .. n |-> f[i]]
    OBVIOUS
  <2> HIDE DEF f
  <2>5. ASSUME NEW i \in 0 .. n
        PROVE  f[i] = IF i = 0 THEN start ELSE visit[i][f[i - 1]]
    <3>1. CASE i = n
      <4>1. f[n - 1] = g[n - 1] /\ n # 0
        BY <2>2
      <4> QED BY <2>3, <3>1, <4>1
    <3>2. CASE i # n /\ i # 0
      <4>1. i \in 0 .. n - 1 /\ i - 1 \in 0 .. n - 1
        BY <3>2
      <4>2. f[i - 1] = g[i - 1] /\ f[i] = g[i]
        BY <2>2, <4>1
      <4> QED BY <2>2, <3>2, <4>1, <4>2
    <3>3. CASE i = 0
      <4>1. 0 \in 0 .. n - 1
        OBVIOUS
      <4> QED BY <2>2, <3>3, <4>1
    <3> QED BY <3>1, <3>2, <3>3
  <2>6. Visits(f, visit, start, n)
    BY <2>4, <2>5, Zenon DEF Visits
  <2> QED BY <2>6
<1>3. \A n \in 0 .. m : n \in S
  <2> HIDE DEF S
  <2> QED BY <1>1, <1>2, UpTo
<1> QED BY <1>3

(* A walk leads to Q[n] if each visit leads from one member of Q to the    *)
(* next.                                                                   *)
LEMMA WalkLeads ==
  ASSUME NEW visit, NEW start, NEW n \in Nat, NEW Q, start \in Q[0],
         \A i \in 1 .. n : \A a \in Q[i - 1] : visit[i][a] \in Q[i]
  PROVE  Walk(visit, start, n) \in Q[n]
<1> DEFINE f == CHOOSE g : Visits(g, visit, start, n)
<1>1. Visits(f, visit, start, n)
  BY VisitsExist, Zenon
<1>2. Walk(visit, start, n) = f[n]
  BY Zenon DEF Walk, Visits
<1> HIDE DEF f
<1> DEFINE S == {i \in 0 .. n : f[i] \in Q[i]}
<1>3. 0 \in S
  BY <1>1 DEF Visits
<1>4. ASSUME NEW i \in 1 .. n, i - 1 \in S
      PROVE  i \in S
  <2>1. i \in 0 .. n /\ i # 0
    OBVIOUS
  <2>2. f[i] = IF i = 0 THEN start ELSE visit[i][f[i - 1]]
    BY <1>1, <2>1, Zenon DEF Visits
  <2>3. f[i] = visit[i][f[i - 1]]
    BY <2>1, <2>2
  <2> QED BY <1>4, <2>1, <2>3
<1>5. n \in S
  <2> HIDE DEF S
  <2>1. n \in 0 .. n
    OBVIOUS
  <2> QED BY <1>3, <1>4, <2>1, UpTo
<1> QED BY <1>2, <1>5
-----------------------------------------------------------------------------
(* Sequences.                                                              *)
LEMMA Domains ==
  ASSUME NEW T, NEW l \in Seq(T)
  PROVE  /\ Len(l) \in Nat /\ DOMAIN l = 1 .. Len(l) /\ l \in [1 .. Len(l) -> T]
         /\ \A i \in 1 .. Len(l) : l[i] \in T
         /\ l # <<>> <=> Len(l) >= 1
  OBVIOUS

LEMMA AllMembers ==
  ASSUME NEW T, NEW l \in Seq(T)
  PROVE  /\ ToSet(l) \subseteq T
         /\ \A i \in 1 .. Len(l) : l[i] \in ToSet(l)
         /\ \A x \in ToSet(l) : \E i \in 1 .. Len(l) : x = l[i]
  BY DEF ToSet

LEMMA ConcatIs ==
  ASSUME NEW T, NEW l \in Seq(T), NEW m \in Seq(T)
  PROVE  /\ l \o m \in Seq(T) /\ Len(l \o m) = Len(l) + Len(m)
         /\ \A i \in 1 .. Len(l) + Len(m) :
              (l \o m)[i] = IF i <= Len(l) THEN l[i] ELSE m[i - Len(l)]
  OBVIOUS

LEMMA SliceIs ==
  ASSUME NEW T, NEW l \in Seq(T), NEW a \in 1 .. Len(l) + 1, NEW b \in 0 .. Len(l), a <= b + 1
  PROVE  /\ SubSeq(l, a, b) \in Seq(T) /\ Len(SubSeq(l, a, b)) = b + 1 - a
         /\ \A i \in 1 .. b + 1 - a : SubSeq(l, a, b)[i] = l[i + a - 1]
  OBVIOUS

LEMMA RemoveIs ==
  ASSUME NEW T, NEW l \in Seq(T), NEW i \in 1 .. Len(l)
  PROVE  /\ RemoveAt(l, i) \in Seq(T) /\ Len(RemoveAt(l, i)) = Len(l) - 1
         /\ \A j \in 1 .. Len(l) - 1 :
              RemoveAt(l, i)[j] = IF j < i THEN l[j] ELSE l[j + 1]
<1> DEFINE left == SubSeq(l, 1, i - 1)
           right == SubSeq(l, i + 1, Len(l))
<1>1. /\ left \in Seq(T) /\ Len(left) = i - 1
      /\ \A j \in 1 .. i - 1 : left[j] = l[j]
  <2>1. 1 \in 1 .. Len(l) + 1 /\ i - 1 \in 0 .. Len(l) /\ 1 <= (i - 1) + 1
    OBVIOUS
  <2>2. left \in Seq(T) /\ Len(left) = (i - 1) + 1 - 1 /\ \A j \in 1 .. (i - 1) + 1 - 1 : left[j] = l[j + 1 - 1]
    BY <2>1, SliceIs
  <2> HIDE DEF left
  <2> QED BY <2>2
<1>2. /\ right \in Seq(T) /\ Len(right) = Len(l) - i
      /\ \A j \in 1 .. Len(l) - i : right[j] = l[j + i]
  <2>1. i + 1 \in 1 .. Len(l) + 1 /\ Len(l) \in 0 .. Len(l) /\ i + 1 <= Len(l) + 1
    OBVIOUS
  <2>2. /\ right \in Seq(T) /\ Len(right) = Len(l) + 1 - (i + 1)
        /\ \A j \in 1 .. Len(l) + 1 - (i + 1) : right[j] = l[j + (i + 1) - 1]
    BY <2>1, SliceIs
  <2> HIDE DEF right
  <2> QED BY <2>2
<1>3. RemoveAt(l, i) = left \o right
  BY DEF RemoveAt
<1> HIDE DEF left, right
<1>4. /\ left \o right \in Seq(T) /\ Len(left \o right) = Len(left) + Len(right)
      /\ \A j \in 1 .. Len(left) + Len(right) :
           (left \o right)[j] = IF j <= Len(left) THEN left[j] ELSE right[j - Len(left)]
  BY <1>1, <1>2, ConcatIs
<1>5. ASSUME NEW j \in 1 .. Len(l) - 1
      PROVE  RemoveAt(l, i)[j] = IF j < i THEN l[j] ELSE l[j + 1]
  <2>1. RemoveAt(l, i)[j] = IF j <= i - 1 THEN left[j] ELSE right[j - (i - 1)]
    <3>1. j \in 1 .. Len(left) + Len(right) /\ Len(left) = i - 1
      BY <1>1, <1>2
    <3>2. (left \o right)[j] = IF j <= Len(left) THEN left[j] ELSE right[j - Len(left)]
      BY <1>4, <3>1
    <3> QED BY <1>3, <3>1, <3>2
  <2>2. j < i => left[j] = l[j]
    BY <1>1
  <2>3. ~(j < i) => right[j - (i - 1)] = l[j + 1]
    <3>1. ~(j < i) => j - (i - 1) \in 1 .. Len(l) - i /\ j - (i - 1) + i = j + 1
      OBVIOUS
    <3> QED BY <1>2, <3>1
  <2> QED BY <2>1, <2>2, <2>3
<1> QED BY <1>1, <1>2, <1>3, <1>4, <1>5

LEMMA InsertIs ==
  ASSUME NEW T, NEW l \in Seq(T), NEW i \in 1 .. Len(l) + 1, NEW x \in T
  PROVE  /\ InsertAt(l, i, x) \in Seq(T) /\ Len(InsertAt(l, i, x)) = Len(l) + 1
         /\ InsertAt(l, i, x)[i] = x
         /\ \A j \in 1 .. Len(l) + 1 : j < i => InsertAt(l, i, x)[j] = l[j]
         /\ \A j \in 1 .. Len(l) + 1 : j > i => InsertAt(l, i, x)[j] = l[j - 1]
<1> DEFINE left == SubSeq(l, 1, i - 1)
           right == SubSeq(l, i, Len(l))
           start == left \o <<x>>
<1>1. /\ left \in Seq(T) /\ Len(left) = i - 1
      /\ \A j \in 1 .. i - 1 : left[j] = l[j]
  <2>1. 1 \in 1 .. Len(l) + 1 /\ i - 1 \in 0 .. Len(l) /\ 1 <= (i - 1) + 1
    OBVIOUS
  <2>2. left \in Seq(T) /\ Len(left) = (i - 1) + 1 - 1 /\ \A j \in 1 .. (i - 1) + 1 - 1 : left[j] = l[j + 1 - 1]
    BY <2>1, SliceIs
  <2> HIDE DEF left
  <2> QED BY <2>2
<1>2. /\ right \in Seq(T) /\ Len(right) = Len(l) + 1 - i
      /\ \A j \in 1 .. Len(l) + 1 - i : right[j] = l[j + i - 1]
  <2>1. i \in 1 .. Len(l) + 1 /\ Len(l) \in 0 .. Len(l) /\ i <= Len(l) + 1
    OBVIOUS
  <2> QED BY <2>1, SliceIs
<1>3. InsertAt(l, i, x) = start \o right
  BY DEF InsertAt
<1> HIDE DEF left, right
<1>4. /\ start \in Seq(T) /\ Len(start) = i
      /\ \A j \in 1 .. i : start[j] = IF j < i THEN l[j] ELSE x
  <2>1. <<x>> \in Seq(T) /\ Len(<<x>>) = 1 /\ <<x>>[1] = x
    OBVIOUS
  <2>2. /\ start \in Seq(T) /\ Len(start) = Len(left) + Len(<<x>>)
        /\ \A j \in 1 .. Len(left) + Len(<<x>>) :
             start[j] = IF j <= Len(left) THEN left[j] ELSE <<x>>[j - Len(left)]
    BY <1>1, <2>1, ConcatIs
  <2> HIDE DEF start
  <2> QED BY <1>1, <2>1, <2>2
<1> HIDE DEF start
<1>5. /\ start \o right \in Seq(T) /\ Len(start \o right) = Len(start) + Len(right)
      /\ \A j \in 1 .. Len(start) + Len(right) :
           (start \o right)[j] = IF j <= Len(start) THEN start[j] ELSE right[j - Len(start)]
  BY <1>2, <1>4, ConcatIs
<1>6. ASSUME NEW j \in 1 .. Len(l) + 1
      PROVE  InsertAt(l, i, x)[j] = IF j < i THEN l[j] ELSE IF j = i THEN x ELSE l[j - 1]
  <2>1. InsertAt(l, i, x)[j] = IF j <= i THEN start[j] ELSE right[j - i]
    BY <1>2, <1>3, <1>4, <1>5
  <2>2. j <= i => start[j] = IF j < i THEN l[j] ELSE x
    BY <1>4
  <2>3. j > i => right[j - i] = l[j - 1]
    <3>1. j > i => j - i \in 1 .. Len(l) + 1 - i /\ j - i + i - 1 = j - 1
      OBVIOUS
    <3> QED BY <1>2, <3>1
  <2> QED BY <2>1, <2>2, <2>3
<1> QED BY <1>2, <1>3, <1>4, <1>5, <1>6
-----------------------------------------------------------------------------
(* The order of a list.                                                    *)
LEMMA ItemIs ==
  ASSUME NEW it \in Items
  PROVE  it.lo \in Nat /\ it.hi \in Nat /\ it.sent \in SentCounts
  BY DEF Items

LEMMA NewItemIs ==
  ASSUME NEW lo \in Nat, NEW hi \in Nat
  PROVE  /\ NewItem(lo, hi) \in Items
         /\ NewItem(lo, hi).lo = lo /\ NewItem(lo, hi).hi = hi
         /\ NewItem(lo, hi).sent = NeverSent /\ NeverSent \in SentCounts
         /\ \A k \in Kinds : NeverSent[k] = 0
<1>1. NeverSent \in SentCounts /\ \A k \in Kinds : NeverSent[k] = 0
  BY SackListAssumption DEF NeverSent, SentCounts
<1> QED BY <1>1 DEF NewItem, Items

LEMMA OrderedIs ==
  ASSUME NEW l \in Seq(Items)
  PROVE  Ordered(l) <=> Spaced(l)
<1>1. ASSUME Spaced(l)
      PROVE  Ordered(l)
  <2>1. \A i \in 1 .. Len(l) - 1 : i \in DOMAIN l /\ i + 1 \in DOMAIN l /\ i < i + 1
    OBVIOUS
  <2> QED BY <1>1, <2>1 DEF Spaced, Ordered
<1>2. ASSUME Ordered(l)
      PROVE  Spaced(l)
  <2>1. \A i \in 1 .. Len(l) : l[i].lo \in Nat /\ l[i].hi \in Nat /\ l[i].lo <= l[i].hi
    BY <1>2, ItemIs DEF Ordered
  <2> DEFINE S == {d \in 0 .. Len(l) : \A i \in 1 .. Len(l) :
                     i + d + 1 \in 1 .. Len(l) => l[i].hi + 2 <= l[i + d + 1].lo}
  <2>2. 0 \in S
    <3>1. ASSUME NEW i \in 1 .. Len(l), i + 0 + 1 \in 1 .. Len(l)
          PROVE  l[i].hi + 2 <= l[i + 0 + 1].lo
      <4>1. i \in 1 .. Len(l) - 1 /\ i + 0 + 1 = i + 1
        BY <3>1
      <4> QED BY <1>2, <4>1 DEF Ordered
    <3> QED BY <3>1
  <2>3. ASSUME NEW d \in 1 .. Len(l), d - 1 \in S
        PROVE  d \in S
    <3>1. ASSUME NEW i \in 1 .. Len(l), i + d + 1 \in 1 .. Len(l)
          PROVE  l[i].hi + 2 <= l[i + d + 1].lo
      <4>1. i + (d - 1) + 1 = i + d /\ i + d \in 1 .. Len(l) - 1
        BY <3>1
      <4>2. l[i].hi + 2 <= l[i + d].lo
        BY <2>3, <4>1
      <4>3. l[i + d].hi + 2 <= l[i + d + 1].lo
        BY <1>2, <4>1 DEF Ordered
      <4>4. i + d \in 1 .. Len(l)
        BY <4>1
      <4>5. /\ l[i + d].lo <= l[i + d].hi /\ l[i].hi \in Nat /\ l[i + d].lo \in Nat
            /\ l[i + d].hi \in Nat /\ l[i + d + 1].lo \in Nat
        BY <2>1, <3>1, <4>4
      <4> DEFINE w == l[i].hi
                 x == l[i + d].lo
                 y == l[i + d].hi
                 z == l[i + d + 1].lo
      <4>6. w + 2 <= x /\ y + 2 <= z /\ x <= y /\ w \in Nat /\ x \in Nat /\ y \in Nat /\ z \in Nat
        BY <4>2, <4>3, <4>5
      <4> HIDE DEF w, x, y, z
      <4>7. w + 2 <= z
        BY <4>6
      <4> QED BY <4>7 DEF w, z
    <3> QED BY <3>1
  <2> HIDE DEF S
  <2>4. \A d \in 0 .. Len(l) : d \in S
    <3>1. Len(l) \in Nat
      OBVIOUS
    <3> QED BY <2>2, <2>3, <3>1, UpTo
  <2>5. ASSUME NEW i \in 1 .. Len(l), NEW j \in 1 .. Len(l), i < j
        PROVE  l[i].hi + 2 <= l[j].lo
    <3>1. j - i - 1 \in 0 .. Len(l) /\ i + (j - i - 1) + 1 = j
      BY <2>5
    <3> QED BY <2>4, <3>1 DEF S
  <2>6. DOMAIN l = 1 .. Len(l)
    OBVIOUS
  <2>7. \A i, j \in 1 .. Len(l) : i < j => l[i].hi + 2 <= l[j].lo
    BY <2>5
  <2>8. \A i \in 1 .. Len(l) : l[i].lo <= l[i].hi
    BY <2>1
  <2> QED BY <2>6, <2>7, <2>8 DEF Spaced
<1> QED BY <1>1, <1>2

LEMMA SpacedRises ==
  ASSUME NEW l \in Seq(Items), Spaced(l)
  PROVE  Rising(l)
<1>1. ASSUME NEW i \in DOMAIN l, NEW j \in DOMAIN l, i < j
      PROVE  l[i].lo < l[j].lo
  <2>1. l[i].lo <= l[i].hi /\ l[i].hi + 2 <= l[j].lo
    BY <1>1 DEF Spaced
  <2>2. l[i].lo \in Nat /\ l[i].hi \in Nat /\ l[j].lo \in Nat
    BY ItemIs
  <2> QED BY <2>1, <2>2
<1> QED BY <1>1 DEF Rising

LEMMA RisingIsOne ==
  ASSUME NEW l \in Seq(Items), Rising(l), NEW i \in 1 .. Len(l), NEW j \in 1 .. Len(l),
         l[i].lo = l[j].lo
  PROVE  i = j
<1>1. DOMAIN l = 1 .. Len(l)
  OBVIOUS
<1>2. l[i].lo \in Nat /\ l[j].lo \in Nat
  BY ItemIs
<1> QED BY <1>1, <1>2 DEF Rising

LEMMA FindBelowIs ==
  ASSUME NEW l \in Seq(Items), Rising(l), NEW n \in Nat
  PROVE  /\ FindBelow(l, n) \in 0 .. Len(l)
         /\ \A i \in 1 .. Len(l) : i <= FindBelow(l, n) <=> l[i].lo <= n
<1> DEFINE I == {i \in DOMAIN l : l[i].lo <= n}
           b == FindBelow(l, n)
<1>1. DOMAIN l = 1 .. Len(l) /\ Len(l) \in Nat
  OBVIOUS
<1>2. \A i \in 1 .. Len(l) : l[i].lo \in Nat
  BY ItemIs
<1>3. CASE I = {}
  <2>1. b = 0
    BY <1>3 DEF FindBelow
  <2>2. \A i \in 1 .. Len(l) : ~(l[i].lo <= n)
    BY <1>1, <1>3
  <2> QED BY <1>1, <2>1, <2>2
<1>4. CASE I # {}
  <2>1. b = Max(I)
    BY <1>4 DEF FindBelow
  <2>2. I \subseteq 0 .. Len(l)
    BY <1>1
  <2>3. Max(I) \in I /\ \A i \in I : i <= Max(I)
    <3> HIDE DEF I
    <3> QED BY <1>1, <1>4, <2>2, GreatestIs
  <2>4. b \in 1 .. Len(l) /\ l[b].lo <= n /\ \A i \in I : i <= b
    BY <1>1, <2>1, <2>3
  <2> HIDE DEF b
  <2>5. ASSUME NEW i \in 1 .. Len(l), i <= b
        PROVE  l[i].lo <= n
    <3>1. i = b \/ l[i].lo < l[b].lo
      BY <1>1, <2>4, <2>5 DEF Rising
    <3> QED BY <1>2, <2>4, <3>1
  <2>6. b \in 0 .. Len(l) /\ \A i \in 1 .. Len(l) : i <= b <=> l[i].lo <= n
    BY <1>1, <2>4, <2>5
  <2> QED BY <2>6 DEF b
<1> QED BY <1>3, <1>4

LEMMA ItemsFinite ==
  ASSUME NEW T, NEW l \in Seq(T)
  PROVE  IsFiniteSet(ToSet(l))
<1> DEFINE f == [i \in 1 .. Len(l) |-> l[i]]
<1>1. DOMAIN l = 1 .. Len(l) /\ Len(l) \in Nat
  OBVIOUS
<1>2. f \in [1 .. Len(l) -> ToSet(l)] /\ \A x \in ToSet(l) : \E i \in 1 .. Len(l) : f[i] = x
  BY <1>1 DEF ToSet
<1>3. f \in Surjection(1 .. Len(l), ToSet(l))
  BY <1>2 DEF Surjection
<1>4. IsFiniteSet(1 .. Len(l))
  BY <1>1, FS_Interval
<1> QED BY <1>3, <1>4, FS_Surjection
-----------------------------------------------------------------------------
(* How many items of a set were sent n times, when the set changes.        *)
Times(L, k, n) == Cardinality({it \in L : it.sent[k] = n})
One(it, k, n) == IF it.sent[k] = n THEN 1 ELSE 0

LEMMA TimesAdd ==
  ASSUME NEW L, IsFiniteSet(L), NEW x, x \notin L, NEW k, NEW n
  PROVE  /\ Times(L, k, n) \in Nat
         /\ Times(L \cup {x}, k, n) = Times(L, k, n) + One(x, k, n)
<1> DEFINE S == {it \in L : it.sent[k] = n}
<1>1. S \subseteq L /\ x \notin S
  OBVIOUS
<1>2. IsFiniteSet(S)
  BY <1>1, FS_Subset
<1>3. {it \in L \cup {x} : it.sent[k] = n} = IF x.sent[k] = n THEN S \cup {x} ELSE S
  OBVIOUS
<1>4. Times(L, k, n) = Cardinality(S)
  BY DEF Times
<1>5. Times(L \cup {x}, k, n) = Cardinality(IF x.sent[k] = n THEN S \cup {x} ELSE S)
  BY <1>3 DEF Times
<1> HIDE DEF S
<1>6. Cardinality(S) \in Nat /\ Cardinality(S \cup {x}) = Cardinality(S) + 1
  BY <1>1, <1>2, FS_CardinalityType, FS_AddElement
<1>7. CASE x.sent[k] = n
  BY <1>4, <1>5, <1>6, <1>7 DEF One
<1>8. CASE x.sent[k] # n
  BY <1>4, <1>5, <1>6, <1>8 DEF One
<1> QED BY <1>7, <1>8

LEMMA TimesRemove ==
  ASSUME NEW L, IsFiniteSet(L), NEW x \in L, NEW k, NEW n
  PROVE  /\ Times(L, k, n) \in Nat /\ Times(L \ {x}, k, n) \in Nat
         /\ Times(L \ {x}, k, n) = Times(L, k, n) - One(x, k, n)
<1> DEFINE M == L \ {x}
<1>1. IsFiniteSet(M) /\ x \notin M /\ L = M \cup {x}
  BY FS_RemoveElement
<1> HIDE DEF M
<1>2. Times(M, k, n) \in Nat /\ Times(M \cup {x}, k, n) = Times(M, k, n) + One(x, k, n)
  BY <1>1, TimesAdd
<1>3. One(x, k, n) \in {0, 1}
  BY DEF One
<1>4. Times(L, k, n) = Times(M, k, n) + One(x, k, n)
  BY <1>1, <1>2
<1>5. Times(M, k, n) = Times(L, k, n) - One(x, k, n) /\ Times(L, k, n) \in Nat
  BY <1>2, <1>3, <1>4
<1> QED BY <1>2, <1>5 DEF M

LEMMA TimesReplace ==
  ASSUME NEW L, IsFiniteSet(L), NEW x \in L, NEW y, y \notin L \ {x}, NEW k, NEW n
  PROVE  /\ Times(L, k, n) \in Nat
         /\ Times((L \ {x}) \cup {y}, k, n) = Times(L, k, n) - One(x, k, n) + One(y, k, n)
<1> DEFINE M == L \ {x}
<1>1. IsFiniteSet(M) /\ y \notin M
  BY FS_RemoveElement
<1>2. Times(L, k, n) \in Nat /\ Times(M, k, n) = Times(L, k, n) - One(x, k, n)
  BY TimesRemove
<1> HIDE DEF M
<1>3. Times(M \cup {y}, k, n) = Times(M, k, n) + One(y, k, n)
  BY <1>1, TimesAdd
<1>4. One(x, k, n) \in {0, 1} /\ One(y, k, n) \in {0, 1}
  BY DEF One
<1>5. Times(M \cup {y}, k, n) = Times(L, k, n) - One(x, k, n) + One(y, k, n)
  BY <1>2, <1>3, <1>4
<1> QED BY <1>2, <1>5 DEF M

LEMMA CountIs ==
  ASSUME NEW c \in Counts, NEW n, NEW d \in Int
  PROVE  /\ Count(c, n, d) \in Counts
         /\ \A m \in 0 .. Repeat - 1 :
              c[m] \in Int /\ Count(c, n, d)[m] = c[m] + IF m = n THEN d ELSE 0
<1>1. DOMAIN c = 0 .. Repeat - 1 /\ \A m \in 0 .. Repeat - 1 : c[m] \in Int
  BY DEF Counts
<1>2. \A m \in 0 .. Repeat - 1 : c[m] + d \in Int
  BY <1>1
<1> QED BY <1>1, <1>2 DEF Count, Counts

LEMMA SackIs ==
  ASSUME NEW s \in Sacks
  PROVE  /\ s.list \in Seq(Items) /\ s.rc \in [Kinds -> Counts]
         /\ \A k \in Kinds : s.rc[k] \in Counts
         /\ s = [list |-> s.list, rc |-> s.rc]
  BY DEF Sacks

LEMMA MakeSack ==
  ASSUME NEW l \in Seq(Items), NEW r \in [Kinds -> Counts]
  PROVE  [list |-> l, rc |-> r] \in Sacks
  BY DEF Sacks

(* What the counters count.                                                *)
LEMMA ExactIs ==
  ASSUME NEW s \in Sacks
  PROVE  CountsExact(s) <=> \A k \in Kinds, n \in 0 .. Repeat - 1 :
                              s.rc[k][n] = Times(ToSet(s.list), k, n)
  BY DEF CountsExact, Times
-----------------------------------------------------------------------------
(* The operations on one item.                                             *)
LEMMA InsertSound ==
  ASSUME NEW s, Sound(s), NEW i \in 1 .. Len(s.list) + 1, NEW lo \in Nat, NEW hi \in Nat,
         \A j \in 1 .. Len(s.list) : IF j < i THEN s.list[j].lo < lo ELSE lo < s.list[j].lo
  PROVE  /\ Sound(InsertItem(s, i, lo, hi))
         /\ NewItem(lo, hi) \notin ToSet(s.list)
         /\ ToSet(InsertItem(s, i, lo, hi).list) = ToSet(s.list) \cup {NewItem(lo, hi)}
         /\ InsertItem(s, i, lo, hi).list = InsertAt(s.list, i, NewItem(lo, hi))
<1> DEFINE l == s.list
           x == NewItem(lo, hi)
           m == InsertAt(l, i, x)
           t == InsertItem(s, i, lo, hi)
<1>1. s \in Sacks /\ l \in Seq(Items) /\ Rising(l) /\ CountsExact(s)
  BY SackIs DEF Sound
<1>2. x \in Items /\ x.lo = lo /\ x.sent = NeverSent /\ \A k \in Kinds : NeverSent[k] = 0
  BY NewItemIs
<1>3. t.list = m /\ t.rc = [k \in Kinds |-> Count(s.rc[k], 0, 1)]
      /\ t = [list |-> m, rc |-> [k \in Kinds |-> Count(s.rc[k], 0, 1)]]
  BY DEF InsertItem
<1>4. m = InsertAt(l, i, x) /\ i \in 1 .. Len(l) + 1
  OBVIOUS
<1>5. \A j \in 1 .. Len(l) : IF j < i THEN l[j].lo < lo ELSE lo < l[j].lo
  OBVIOUS
<1> HIDE DEF x, t, l, m
<1>6. /\ m \in Seq(Items) /\ Len(m) = Len(l) + 1
      /\ m[i] = x
      /\ \A j \in 1 .. Len(l) + 1 : j < i => m[j] = l[j]
      /\ \A j \in 1 .. Len(l) + 1 : j > i => m[j] = l[j - 1]
  <2>1. l \in Seq(Items) /\ x \in Items /\ i \in 1 .. Len(l) + 1
    BY <1>1, <1>2, <1>4
  <2>2. InsertAt(l, i, x) \in Seq(Items) /\ Len(InsertAt(l, i, x)) = Len(l) + 1
    <3>1. InsertAt(l, i, x) \in Seq(Items)
      BY <2>1, InsertIs
    <3>2. Len(InsertAt(l, i, x)) = Len(l) + 1
      BY <2>1, InsertIs
    <3> QED BY <3>1, <3>2
  <2>3. InsertAt(l, i, x)[i] = x
    BY <2>1, InsertIs
  <2>4. \A j \in 1 .. Len(l) + 1 : j < i => InsertAt(l, i, x)[j] = l[j]
    BY <2>1, InsertIs
  <2>5. \A j \in 1 .. Len(l) + 1 : j > i => InsertAt(l, i, x)[j] = l[j - 1]
    BY <2>1, InsertIs
  <2> QED BY <1>4, <2>2, <2>3, <2>4, <2>5, Zenon
<1>7. DOMAIN l = 1 .. Len(l) /\ DOMAIN m = 1 .. Len(l) + 1 /\ Len(l) \in Nat
  BY <1>1, <1>6
<1>8. \A j \in 1 .. Len(l) : l[j].lo \in Nat /\ IF j < i THEN l[j].lo < lo ELSE lo < l[j].lo
  BY <1>1, <1>5, ItemIs
<1>9. Rising(m)
  <2>1. ASSUME NEW a \in 1 .. Len(l) + 1, NEW b \in 1 .. Len(l) + 1, a < b
        PROVE  m[a].lo < m[b].lo
    <3>1. CASE b < i
      <4>1. m[a] = l[a] /\ m[b] = l[b] /\ a \in 1 .. Len(l) /\ b \in 1 .. Len(l)
        BY <1>6, <1>7, <1>4, <2>1, <3>1
      <4> QED BY <1>1, <1>7, <2>1, <4>1 DEF Rising
    <3>2. CASE b = i
      <4>1. m[a] = l[a] /\ m[b] = x /\ a \in 1 .. Len(l) /\ a < i
        BY <1>6, <1>7, <1>4, <2>1, <3>2
      <4> QED BY <1>2, <1>8, <4>1
    <3>3. CASE b > i /\ a = i
      <4>1. m[a] = x /\ m[b] = l[b - 1] /\ b - 1 \in 1 .. Len(l) /\ ~(b - 1 < i)
        BY <1>6, <1>7, <2>1, <3>3
      <4> QED BY <1>2, <1>8, <4>1
    <3>4. CASE b > i /\ a < i
      <4>1. m[a] = l[a] /\ m[b] = l[b - 1] /\ b - 1 \in 1 .. Len(l) /\ a \in 1 .. Len(l) /\ a < b - 1
        BY <1>6, <1>7, <2>1, <3>4
      <4> QED BY <1>1, <1>7, <4>1 DEF Rising
    <3>5. CASE b > i /\ a > i
      <4>1. /\ m[a] = l[a - 1] /\ m[b] = l[b - 1] /\ b - 1 \in 1 .. Len(l) /\ a - 1 \in 1 .. Len(l)
            /\ a - 1 < b - 1
        BY <1>6, <1>7, <2>1, <3>5
      <4> QED BY <1>1, <1>7, <4>1 DEF Rising
    <3> QED BY <1>7, <3>1, <3>2, <3>3, <3>4, <3>5
  <2> QED BY <1>7, <2>1 DEF Rising
<1>10. x \notin ToSet(l)
  <2>1. \A j \in 1 .. Len(l) : l[j].lo # x.lo
    BY <1>2, <1>7, <1>8
  <2> QED BY <1>7, <2>1 DEF ToSet
<1>11. ToSet(m) = ToSet(l) \cup {x}
  <2>1. \A j \in 1 .. Len(l) + 1 : m[j] \in ToSet(l) \cup {x}
    <3>1. ASSUME NEW j \in 1 .. Len(l) + 1
          PROVE  m[j] \in ToSet(l) \cup {x}
      <4>1. j < i => j \in 1 .. Len(l)
        BY <1>7, <1>4
      <4>2. j > i => j - 1 \in 1 .. Len(l)
        BY <1>7, <1>4
      <4>3. j < i \/ j = i \/ j > i
        BY <1>7, <1>4
      <4>4. j < i => m[j] = l[j]
        BY <1>6
      <4>5. j = i => m[j] = x
        BY <1>6
      <4>6. j > i => m[j] = l[j - 1]
        BY <1>6, <1>7, <1>4
      <4>7. \A a \in 1 .. Len(l) : l[a] \in ToSet(l)
        BY <1>7 DEF ToSet
      <4> QED BY <4>1, <4>2, <4>3, <4>4, <4>5, <4>6, <4>7
    <3> QED BY <3>1
  <2>2. \A j \in 1 .. Len(l) : \E a \in 1 .. Len(l) + 1 : m[a] = l[j]
    <3>1. ASSUME NEW j \in 1 .. Len(l)
          PROVE  \E a \in 1 .. Len(l) + 1 : m[a] = l[j]
      <4>1. CASE j < i
        <5>1. j \in 1 .. Len(l) + 1
          BY <1>7
        <5> QED BY <1>6, <4>1, <5>1
      <4>2. CASE ~(j < i)
        <5>1. j + 1 \in 1 .. Len(l) + 1 /\ ~(j + 1 < i) /\ j + 1 # i /\ (j + 1) - 1 = j
          BY <1>7, <4>2
        <5>2. m[j + 1] = l[(j + 1) - 1]
          BY <1>6, <1>7, <1>4, <5>1
        <5> QED BY <5>1, <5>2
      <4> QED BY <4>1, <4>2
    <3> QED BY <3>1
  <2>3. i \in 1 .. Len(l) + 1 /\ m[i] = x
    BY <1>6, <1>7, <1>4
  <2>4. ToSet(m) = {m[j] : j \in 1 .. Len(l) + 1} /\ ToSet(l) = {l[j] : j \in 1 .. Len(l)}
    BY <1>7 DEF ToSet
  <2>5. \A y \in ToSet(m) : y \in ToSet(l) \cup {x}
    BY <2>1, <2>4
  <2>6. \A y \in ToSet(l) \cup {x} : y \in ToSet(m)
    BY <2>2, <2>3, <2>4
  <2> QED BY <2>5, <2>6
<1>12. t \in Sacks
  <2>1. [k \in Kinds |-> Count(s.rc[k], 0, 1)] \in [Kinds -> Counts]
    BY <1>1, SackIs, CountIs
  <2> QED BY <1>3, <1>6, <2>1, MakeSack
<1>13. CountsExact(t)
  <2>1. ASSUME NEW k \in Kinds, NEW n \in 0 .. Repeat - 1
        PROVE  t.rc[k][n] = Times(ToSet(t.list), k, n)
    <3>1. t.rc[k][n] = s.rc[k][n] + (IF n = 0 THEN 1 ELSE 0)
      <4>1. s.rc[k] \in Counts /\ t.rc[k] = Count(s.rc[k], 0, 1)
        BY <1>1, <1>3, SackIs
      <4> QED BY <4>1, CountIs
    <3>2. s.rc[k][n] = Times(ToSet(l), k, n)
      BY <1>1, ExactIs DEF l
    <3>3. IsFiniteSet(ToSet(l))
      BY <1>1, ItemsFinite
    <3>4. Times(ToSet(m), k, n) = Times(ToSet(l), k, n) + One(x, k, n)
      BY <1>10, <1>11, <3>3, TimesAdd
    <3>5. One(x, k, n) = IF n = 0 THEN 1 ELSE 0
      BY <1>2 DEF One
    <3> QED BY <1>3, <3>1, <3>2, <3>4, <3>5
  <2> QED BY <1>12, <2>1, ExactIs
<1> QED BY <1>3, <1>9, <1>10, <1>11, <1>12, <1>13 DEF Sound, x, t, l, m
LEMMA DeleteSound ==
  ASSUME NEW s, Sound(s), NEW i \in 1 .. Len(s.list)
  PROVE  /\ Sound(DeleteItem(s, i))
         /\ ToSet(DeleteItem(s, i).list) = ToSet(s.list) \ {s.list[i]}
         /\ Len(DeleteItem(s, i).list) = Len(s.list) - 1
         /\ \A j \in 1 .. Len(s.list) - 1 : j < i => DeleteItem(s, i).list[j] = s.list[j]
         /\ \A j \in 1 .. Len(s.list) - 1 : j >= i => DeleteItem(s, i).list[j] = s.list[j + 1]
<1> DEFINE l == s.list
           x == s.list[i]
           m == RemoveAt(l, i)
           t == DeleteItem(s, i)
<1>1. s \in Sacks /\ l \in Seq(Items) /\ Rising(l) /\ CountsExact(s)
  BY SackIs DEF Sound
<1>2. x \in Items /\ x = l[i] /\ i \in 1 .. Len(l)
  BY <1>1
<1>3. t.list = m /\ t.rc = [k \in Kinds |-> Count(s.rc[k], x.sent[k], -1)]
      /\ t = [list |-> m, rc |-> [k \in Kinds |-> Count(s.rc[k], x.sent[k], -1)]]
  BY DEF DeleteItem
<1>4. m = RemoveAt(l, i)
  OBVIOUS
<1> HIDE DEF x, t, l, m
<1>5. /\ m \in Seq(Items) /\ Len(m) = Len(l) - 1
      /\ \A j \in 1 .. Len(l) - 1 : j < i => m[j] = l[j]
      /\ \A j \in 1 .. Len(l) - 1 : j >= i => m[j] = l[j + 1]
  <2>1. RemoveAt(l, i) \in Seq(Items) /\ Len(RemoveAt(l, i)) = Len(l) - 1
    BY <1>1, <1>2, RemoveIs
  <2>2. \A j \in 1 .. Len(l) - 1 : RemoveAt(l, i)[j] = IF j < i THEN l[j] ELSE l[j + 1]
    BY <1>1, <1>2, RemoveIs
  <2>3. \A j \in 1 .. Len(l) - 1 : j >= i => ~(j < i)
    BY <1>2
  <2> QED BY <1>4, <2>1, <2>2, <2>3
<1>6. DOMAIN l = 1 .. Len(l) /\ DOMAIN m = 1 .. Len(l) - 1 /\ Len(l) \in Nat
  BY <1>1, <1>5
<1>7. ASSUME NEW a \in 1 .. Len(l) - 1
      PROVE  \E b \in 1 .. Len(l) : b # i /\ m[a] = l[b] /\ b = IF a < i THEN a ELSE a + 1
  <2>1. CASE a < i
    <3>1. a \in 1 .. Len(l) /\ a # i /\ m[a] = l[a]
      BY <1>2, <1>5, <1>6, <2>1
    <3> QED BY <2>1, <3>1
  <2>2. CASE ~(a < i)
    <3>1. a + 1 \in 1 .. Len(l) /\ a + 1 # i /\ m[a] = l[a + 1]
      BY <1>2, <1>5, <1>6, <2>2
    <3> QED BY <2>2, <3>1
  <2> QED BY <2>1, <2>2
<1>8. Rising(m)
  <2>1. ASSUME NEW a \in 1 .. Len(l) - 1, NEW b \in 1 .. Len(l) - 1, a < b
        PROVE  m[a].lo < m[b].lo
    <3>1. PICK c \in 1 .. Len(l) : m[a] = l[c] /\ c = IF a < i THEN a ELSE a + 1
      BY <1>7
    <3>2. PICK d \in 1 .. Len(l) : m[b] = l[d] /\ d = IF b < i THEN b ELSE b + 1
      BY <1>7
    <3>3. c < d
      BY <1>2, <1>6, <2>1, <3>1, <3>2
    <3> QED BY <1>1, <1>6, <3>1, <3>2, <3>3 DEF Rising
  <2> QED BY <1>6, <2>1 DEF Rising
<1>9. ToSet(m) = ToSet(l) \ {x}
  <2>1. \A a \in 1 .. Len(l) - 1 : m[a] \in ToSet(l) \ {x}
    <3>1. ASSUME NEW a \in 1 .. Len(l) - 1
          PROVE  m[a] \in ToSet(l) \ {x}
      <4>1. PICK b \in 1 .. Len(l) : b # i /\ m[a] = l[b]
        BY <1>7
      <4>2. l[b].lo # l[i].lo
        BY <1>1, <1>2, <4>1, RisingIsOne
      <4> QED BY <1>2, <1>6, <4>1, <4>2 DEF ToSet
    <3> QED BY <3>1
  <2>2. \A b \in 1 .. Len(l) : b # i => \E a \in 1 .. Len(l) - 1 : m[a] = l[b]
    <3>1. ASSUME NEW b \in 1 .. Len(l), b # i
          PROVE  \E a \in 1 .. Len(l) - 1 : m[a] = l[b]
      <4>1. CASE b < i
        <5>1. b \in 1 .. Len(l) - 1
          BY <1>2, <1>6, <4>1
        <5> QED BY <1>5, <4>1, <5>1
      <4>2. CASE ~(b < i)
        <5>1. b - 1 \in 1 .. Len(l) - 1 /\ b - 1 >= i /\ (b - 1) + 1 = b
          BY <1>2, <1>6, <3>1, <4>2
        <5>2. m[b - 1] = l[(b - 1) + 1]
          BY <1>5, <5>1
        <5> QED BY <5>1, <5>2
      <4> QED BY <4>1, <4>2
    <3> QED BY <3>1
  <2>3. ToSet(m) = {m[j] : j \in 1 .. Len(l) - 1} /\ ToSet(l) = {l[j] : j \in 1 .. Len(l)}
    BY <1>6 DEF ToSet
  <2>4. \A y \in ToSet(l) \ {x} : \E b \in 1 .. Len(l) : b # i /\ y = l[b]
    BY <1>2, <2>3
  <2>5. \A y \in ToSet(l) \ {x} : y \in ToSet(m)
    BY <2>2, <2>3, <2>4
  <2>6. \A y \in ToSet(m) : y \in ToSet(l) \ {x}
    BY <2>1, <2>3
  <2> QED BY <2>5, <2>6
<1>10. x \in ToSet(l)
  BY <1>2, <1>6 DEF ToSet
<1>11. t \in Sacks
  <2>1. [k \in Kinds |-> Count(s.rc[k], x.sent[k], -1)] \in [Kinds -> Counts]
    BY <1>1, SackIs, CountIs
  <2> QED BY <1>3, <1>5, <2>1, MakeSack
<1>12. CountsExact(t)
  <2>1. ASSUME NEW k \in Kinds, NEW n \in 0 .. Repeat - 1
        PROVE  t.rc[k][n] = Times(ToSet(t.list), k, n)
    <3>1. t.rc[k][n] = s.rc[k][n] + (IF n = x.sent[k] THEN -1 ELSE 0) /\ s.rc[k][n] \in Int
      <4>1. s.rc[k] \in Counts /\ t.rc[k] = Count(s.rc[k], x.sent[k], -1)
        BY <1>1, <1>3, SackIs
      <4> QED BY <4>1, CountIs
    <3>2. s.rc[k][n] = Times(ToSet(l), k, n)
      BY <1>1, ExactIs DEF l
    <3>3. IsFiniteSet(ToSet(l))
      BY <1>1, ItemsFinite
    <3>4. Times(ToSet(m), k, n) = Times(ToSet(l), k, n) - One(x, k, n)
      BY <1>9, <1>10, <3>3, TimesRemove
    <3>5. One(x, k, n) = IF n = x.sent[k] THEN 1 ELSE 0
      BY DEF One
    <3> QED BY <1>3, <3>1, <3>2, <3>4, <3>5
  <2> QED BY <1>11, <2>1, ExactIs
<1>13. Sound(t)
  BY <1>3, <1>8, <1>11, <1>12 DEF Sound
<1> QED BY <1>3, <1>5, <1>9, <1>13 DEF x, t, l

(* An item is replaced by another one at its place.                        *)
Replaced(m, l, i, y) == m = [l EXCEPT ![i] = y]

(* An item that starts at lo keeps the order in place i.                   *)
Fits(l, i, lo) ==
  \A j \in 1 .. Len(l) : (j < i => l[j].lo < lo) /\ (j > i => lo < l[j].lo)

LEMMA ReplaceIs ==
  ASSUME NEW l \in Seq(Items), Rising(l), NEW i \in 1 .. Len(l), NEW y \in Items,
         Fits(l, i, y.lo), NEW m, Replaced(m, l, i, y)
  PROVE  /\ m \in Seq(Items) /\ Len(m) = Len(l)
         /\ \A j \in 1 .. Len(l) : m[j] = IF j = i THEN y ELSE l[j]
         /\ Rising(m)
         /\ ToSet(m) = (ToSet(l) \ {l[i]}) \cup {y}
         /\ l[i] \in ToSet(l) /\ y \notin ToSet(l) \ {l[i]}
<1>1. \A j \in 1 .. Len(l) : (j < i => l[j].lo < y.lo) /\ (j > i => y.lo < l[j].lo)
  BY DEF Fits
<1>2. m \in Seq(Items) /\ Len(m) = Len(l) /\ Len(l) \in Nat
      /\ \A j \in 1 .. Len(l) : m[j] = IF j = i THEN y ELSE l[j]
  BY DEF Replaced
<1>3. DOMAIN l = 1 .. Len(l) /\ DOMAIN m = 1 .. Len(l)
  BY <1>2
<1>4. Rising(m)
  <2>1. ASSUME NEW a \in 1 .. Len(l), NEW b \in 1 .. Len(l), a < b
        PROVE  m[a].lo < m[b].lo
    <3>1. CASE a = i
      <4>1. m[a] = y /\ m[b] = l[b] /\ b > i
        BY <1>2, <2>1, <3>1
      <4> QED BY <1>1, <4>1
    <3>2. CASE b = i
      <4>1. m[b] = y /\ m[a] = l[a] /\ a < i
        BY <1>2, <2>1, <3>2
      <4> QED BY <1>1, <4>1
    <3>3. CASE a # i /\ b # i
      BY <1>2, <1>3, <2>1, <3>3 DEF Rising
    <3> QED BY <3>1, <3>2, <3>3
  <2> QED BY <1>3, <2>1 DEF Rising
<1>5. \A j \in 1 .. Len(l) : j # i => l[j] # l[i] /\ l[j] # y
  <2>1. ASSUME NEW j \in 1 .. Len(l), j # i
        PROVE  l[j] # l[i] /\ l[j] # y
    <3>1. l[j].lo # l[i].lo
      BY <2>1, RisingIsOne
    <3>2. l[j].lo < y.lo \/ y.lo < l[j].lo
      BY <1>1, <2>1
    <3>3. l[j].lo \in Nat /\ y.lo \in Nat
      BY ItemIs
    <3> QED BY <3>1, <3>2, <3>3
  <2> QED BY <2>1
<1>6. ToSet(m) = {m[j] : j \in 1 .. Len(l)} /\ ToSet(l) = {l[j] : j \in 1 .. Len(l)}
  BY <1>3 DEF ToSet
<1>7. ToSet(m) = (ToSet(l) \ {l[i]}) \cup {y}
  BY <1>2, <1>5, <1>6
<1>8. l[i] \in ToSet(l) /\ y \notin ToSet(l) \ {l[i]}
  BY <1>5, <1>6
<1> QED BY <1>2, <1>4, <1>7, <1>8
(* The counters r of s after x became y.                                   *)
Moved(r, s, x, y) ==
  /\ r \in [Kinds -> Counts]
  /\ \A k \in Kinds, n \in 0 .. Repeat - 1 :
       r[k][n] = s.rc[k][n] - One(x, k, n) + One(y, k, n)

Exchanged(M, L, x, y) == M = (L \ {x}) \cup {y}

LEMMA ReplaceSound ==
  ASSUME NEW s, Sound(s), NEW i \in 1 .. Len(s.list), NEW y \in Items,
         Fits(s.list, i, y.lo), NEW m, Replaced(m, s.list, i, y),
         NEW r, Moved(r, s, s.list[i], y)
  PROVE  /\ Sound([list |-> m, rc |-> r])
         /\ Exchanged(ToSet(m), ToSet(s.list), s.list[i], y)
         /\ Len(m) = Len(s.list)
<1> DEFINE l == s.list
           t == [list |-> m, rc |-> r]
<1>1. s \in Sacks /\ l \in Seq(Items) /\ Rising(l) /\ CountsExact(s)
  BY SackIs DEF Sound
<1>2. /\ m \in Seq(Items) /\ Rising(m) /\ ToSet(m) = (ToSet(l) \ {l[i]}) \cup {y}
      /\ l[i] \in ToSet(l) /\ y \notin ToSet(l) \ {l[i]} /\ Len(m) = Len(l)
  <2>1. i \in 1 .. Len(l) /\ Replaced(m, l, i, y) /\ Fits(l, i, y.lo)
    OBVIOUS
  <2>2. l \in Seq(Items) /\ Rising(l)
    BY <1>1
  <2> HIDE DEF l
  <2>3. m \in Seq(Items) /\ Len(m) = Len(l)
    BY <2>1, <2>2, ReplaceIs
  <2>4. Rising(m)
    BY <2>1, <2>2, ReplaceIs
  <2>5. ToSet(m) = (ToSet(l) \ {l[i]}) \cup {y}
    BY <2>1, <2>2, ReplaceIs
  <2>6. l[i] \in ToSet(l) /\ y \notin ToSet(l) \ {l[i]}
    BY <2>1, <2>2, ReplaceIs
  <2> QED BY <2>3, <2>4, <2>5, <2>6
<1>3. t.list = m /\ t.rc = r
  OBVIOUS
<1>4. r \in [Kinds -> Counts] /\ \A k \in Kinds, n \in 0 .. Repeat - 1 :
        r[k][n] = s.rc[k][n] - One(l[i], k, n) + One(y, k, n)
  BY DEF Moved
<1> HIDE DEF l
<1>5. t \in Sacks
  BY <1>2, <1>4, MakeSack
<1> HIDE DEF t
<1>6. CountsExact(t)
  <2>1. ASSUME NEW k \in Kinds, NEW n \in 0 .. Repeat - 1
        PROVE  t.rc[k][n] = Times(ToSet(t.list), k, n)
    <3>1. s.rc[k][n] = Times(ToSet(l), k, n)
      BY <1>1, ExactIs DEF l
    <3>2. IsFiniteSet(ToSet(l))
      BY <1>1, ItemsFinite
    <3>3. Times(ToSet(m), k, n) = Times(ToSet(l), k, n) - One(l[i], k, n) + One(y, k, n)
      BY <1>2, <3>2, TimesReplace
    <3> QED BY <1>3, <1>4, <3>1, <3>3
  <2> QED BY <1>5, <2>1, ExactIs
<1>7. Sound(t)
  BY <1>2, <1>3, <1>5, <1>6 DEF Sound
<1> QED BY <1>2, <1>7 DEF t, l, Exchanged

LEMMA ResetSound ==
  ASSUME NEW s, Sound(s), NEW i \in 1 .. Len(s.list), NEW lo \in Nat, NEW hi \in Nat,
         Fits(s.list, i, lo)
  PROVE  /\ Sound(ResetItem(s, i, lo, hi))
         /\ ToSet(ResetItem(s, i, lo, hi).list) =
              (ToSet(s.list) \ {s.list[i]}) \cup {NewItem(lo, hi)}
         /\ ResetItem(s, i, lo, hi).list = [s.list EXCEPT ![i] = NewItem(lo, hi)]
<1> DEFINE y == NewItem(lo, hi)
           x == s.list[i]
           r == Recount(s.rc, x.sent, NeverSent)
<1>1. /\ y \in Items /\ y.lo = lo /\ y.sent = NeverSent
      /\ \A k \in Kinds : NeverSent[k] = 0
  BY NewItemIs
<1>2. s \in Sacks /\ \A k \in Kinds : s.rc[k] \in Counts
  BY SackIs DEF Sound
<1>3. /\ ResetItem(s, i, lo, hi) = [list |-> [s.list EXCEPT ![i] = y], rc |-> r]
      /\ ResetItem(s, i, lo, hi).list = [s.list EXCEPT ![i] = y]
  BY DEF ResetItem
<1>4. r = [k \in Kinds |-> Count(Count(s.rc[k], x.sent[k], -1), NeverSent[k], 1)]
  BY DEF Recount
<1> HIDE DEF y, x, r
<1>5. ASSUME NEW k \in Kinds
      PROVE  /\ r[k] \in Counts
             /\ \A n \in 0 .. Repeat - 1 : r[k][n] = s.rc[k][n] - One(x, k, n) + One(y, k, n)
  <2> DEFINE c == s.rc[k]
             d == Count(c, x.sent[k], -1)
             e == Count(d, NeverSent[k], 1)
  <2>1. c \in Counts /\ r[k] = e
    BY <1>2, <1>4
  <2> HIDE DEF c
  <2>2. d \in Counts /\ \A n \in 0 .. Repeat - 1 :
          c[n] \in Int /\ d[n] = c[n] + IF n = x.sent[k] THEN -1 ELSE 0
    BY <2>1, CountIs
  <2> HIDE DEF d
  <2>3. e \in Counts /\ \A n \in 0 .. Repeat - 1 :
          d[n] \in Int /\ e[n] = d[n] + IF n = NeverSent[k] THEN 1 ELSE 0
    BY <2>2, CountIs
  <2> HIDE DEF e
  <2>4. ASSUME NEW n \in 0 .. Repeat - 1
        PROVE  e[n] = c[n] - One(x, k, n) + One(y, k, n)
    <3>1. One(x, k, n) = (IF n = x.sent[k] THEN 1 ELSE 0) /\ One(y, k, n) = IF n = NeverSent[k] THEN 1 ELSE 0
      BY <1>1 DEF One
    <3> QED BY <2>2, <2>3, <3>1
  <2> QED BY <2>1, <2>3, <2>4 DEF c
<1>6. r \in [Kinds -> Counts]
  BY <1>4, <1>5
<1>7. Fits(s.list, i, y.lo)
  BY <1>1
<1>8. Moved(r, s, s.list[i], y)
  BY <1>5, <1>6 DEF x, Moved
<1> DEFINE m == [s.list EXCEPT ![i] = y]
<1>9. Replaced(m, s.list, i, y)
  BY DEF Replaced
<1> HIDE DEF m
<1>10. /\ Sound([list |-> m, rc |-> r])
      /\ ToSet(m) = (ToSet(s.list) \ {s.list[i]}) \cup {y}
      /\ Len(m) = Len(s.list)
  <2>1. Sound([list |-> m, rc |-> r])
    BY <1>1, <1>6, <1>7, <1>8, <1>9, ReplaceSound
  <2>2. Exchanged(ToSet(m), ToSet(s.list), s.list[i], y)
    BY <1>1, <1>6, <1>7, <1>8, <1>9, ReplaceSound
  <2>3. Len(m) = Len(s.list)
    BY <1>1, <1>6, <1>7, <1>8, <1>9, ReplaceSound
  <2> QED BY <2>1, <2>2, <2>3 DEF Exchanged
<1> QED BY <1>3, <1>10 DEF y, m

LEMMA OnceMoreIs ==
  ASSUME NEW it \in Items, NEW k \in Kinds
  PROVE  /\ SentOnceMore(it, k) \in Items
         /\ SentOnceMore(it, k).lo = it.lo /\ SentOnceMore(it, k).hi = it.hi
         /\ \A n \in Kinds : n # k => SentOnceMore(it, k).sent[n] = it.sent[n]
         /\ SentOnceMore(it, k).sent[k] = IF it.sent[k] > Repeat THEN it.sent[k] ELSE it.sent[k] + 1
         /\ Bare(SentOnceMore(it, k)) = Bare(it)
<1>1. it.sent \in [Kinds -> 0 .. Repeat + 1]
  BY ItemIs DEF SentCounts
<1>2. it.sent[k] \in 0 .. Repeat + 1 /\ Repeat \in Nat
  BY <1>1, SackListAssumption
<1>3. (IF it.sent[k] > Repeat THEN it.sent[k] ELSE it.sent[k] + 1) \in 0 .. Repeat + 1
  BY <1>2
<1> DEFINE v == IF it.sent[k] > Repeat THEN it.sent[k] ELSE it.sent[k] + 1
           w == [it.sent EXCEPT ![k] = v]
<1>4. w \in [Kinds -> 0 .. Repeat + 1] /\ w[k] = v /\ \A n \in Kinds : n # k => w[n] = it.sent[n]
  BY <1>1, <1>3
<1>5. SentOnceMore(it, k) = [it EXCEPT !.sent = w]
  BY DEF SentOnceMore, Items
<1> HIDE DEF w
<1>6. [it EXCEPT !.sent = w] \in Items /\ [it EXCEPT !.sent = w].lo = it.lo
      /\ [it EXCEPT !.sent = w].hi = it.hi /\ [it EXCEPT !.sent = w].sent = w
  BY <1>4 DEF Items, SentCounts
<1> QED BY <1>4, <1>5, <1>6 DEF Bare

LEMMA RecordSound ==
  ASSUME NEW s, Sound(s), NEW i \in 1 .. Len(s.list), NEW k \in Kinds
  PROVE  /\ Sound(RecordSent(s, i, k))
         /\ RecordSent(s, i, k).list = [s.list EXCEPT ![i] = SentOnceMore(s.list[i], k)]
         /\ Len(RecordSent(s, i, k).list) = Len(s.list)
<1> DEFINE x == s.list[i]
           y == SentOnceMore(x, k)
           c == s.rc[k]
           d == Count(c, x.sent[k], -1)
           e == Count(d, y.sent[k], 1)
           r == [s.rc EXCEPT ![k] = e]
<1>1. s \in Sacks /\ s.list \in Seq(Items) /\ Rising(s.list) /\ s.rc \in [Kinds -> Counts]
  BY SackIs DEF Sound
<1>2. x \in Items /\ c \in Counts
  BY <1>1
<1>3. RecordSent(s, i, k) = [list |-> [s.list EXCEPT ![i] = y], rc |-> r]
  BY DEF RecordSent
<1>4. x = s.list[i] /\ c = s.rc[k]
  OBVIOUS
<1> HIDE DEF x, c
<1>5. y \in Items /\ y.lo = x.lo /\ \A n \in Kinds : n # k => y.sent[n] = x.sent[n]
  BY <1>2, OnceMoreIs
<1> HIDE DEF y
<1>6. d \in Counts /\ \A n \in 0 .. Repeat - 1 :
        c[n] \in Int /\ d[n] = c[n] + IF n = x.sent[k] THEN -1 ELSE 0
  BY <1>2, CountIs
<1> HIDE DEF d
<1>7. e \in Counts /\ \A n \in 0 .. Repeat - 1 :
        d[n] \in Int /\ e[n] = d[n] + IF n = y.sent[k] THEN 1 ELSE 0
  BY <1>6, CountIs
<1> HIDE DEF e
<1>8. r \in [Kinds -> Counts] /\ r[k] = e /\ \A q \in Kinds : q # k => r[q] = s.rc[q]
  BY <1>1, <1>7
<1>9. r = [s.rc EXCEPT ![k] = e]
  OBVIOUS
<1> HIDE DEF r
<1>10. ASSUME NEW q \in Kinds, NEW n \in 0 .. Repeat - 1
      PROVE  r[q][n] = s.rc[q][n] - One(s.list[i], q, n) + One(y, q, n)
  <2>1. CASE q = k
    <3>1. One(x, k, n) = (IF n = x.sent[k] THEN 1 ELSE 0) /\ One(y, k, n) = IF n = y.sent[k] THEN 1 ELSE 0
      BY DEF One
    <3>2. e[n] = c[n] - One(x, k, n) + One(y, k, n)
      BY <1>6, <1>7, <3>1
    <3> QED BY <1>8, <1>4, <2>1, <3>2
  <2>2. CASE q # k
    <3>1. One(x, q, n) = One(y, q, n) /\ One(x, q, n) \in Int
      BY <1>5, <2>2 DEF One
    <3>2. s.rc[q][n] \in Int
      BY <1>1 DEF Counts
    <3> QED BY <1>8, <1>4, <2>2, <3>1, <3>2
  <2> QED BY <2>1, <2>2
<1>11. ASSUME NEW j \in 1 .. Len(s.list)
      PROVE  /\ j < i => s.list[j].lo < y.lo
             /\ j > i => y.lo < s.list[j].lo
  <2>1. DOMAIN s.list = 1 .. Len(s.list)
    BY <1>1
  <2> QED BY <1>1, <1>5, <1>4, <2>1 DEF Rising
<1> DEFINE m == [s.list EXCEPT ![i] = y]
<1>12. Replaced(m, s.list, i, y)
  BY DEF Replaced
<1> HIDE DEF m
<1>13. Fits(s.list, i, y.lo) /\ Moved(r, s, s.list[i], y)
  BY <1>8, <1>10, <1>11 DEF Fits, Moved
<1>14. Sound([list |-> m, rc |-> r]) /\ Len(m) = Len(s.list)
  <2>1. Sound([list |-> m, rc |-> r])
    BY <1>5, <1>12, <1>13, ReplaceSound
  <2>2. Len(m) = Len(s.list)
    BY <1>5, <1>12, <1>13, ReplaceSound
  <2> QED BY <2>1, <2>2
<1> QED BY <1>3, <1>14 DEF y, x, m
-----------------------------------------------------------------------------
(* The loop that extends an item.                                          *)

(* t is s when item i has absorbed the d items above it.                   *)
Absorbed(t, s, i, d) ==
  /\ Sound(t) /\ d \in 0 .. Len(s.list) - i
  /\ Len(t.list) = Len(s.list) - d
  /\ \A j \in 1 .. i - 1 : t.list[j] = s.list[j]
  /\ \A j \in i + 1 .. Len(s.list) - d : t.list[j] = s.list[j + d]
  /\ t.list[i].lo = s.list[i].lo

(* Item i of t is new.                                                     *)
IsNew(t, i, lo, hi) == t.list[i] = NewItem(lo, hi)

LEMMA FitsItself ==
  ASSUME NEW l \in Seq(Items), Rising(l), NEW i \in 1 .. Len(l)
  PROVE  Fits(l, i, l[i].lo)
<1>1. DOMAIN l = 1 .. Len(l)
  OBVIOUS
<1> QED BY <1>1 DEF Fits, Rising

LEMMA SoundIs ==
  ASSUME NEW s, Sound(s)
  PROVE  /\ s \in Sacks /\ s.list \in Seq(Items) /\ Rising(s.list) /\ Len(s.list) \in Nat
         /\ DOMAIN s.list = 1 .. Len(s.list)
         /\ \A i \in 1 .. Len(s.list) : /\ s.list[i] \in Items
                                        /\ s.list[i].lo \in Nat /\ s.list[i].hi \in Nat
<1>1. s \in Sacks /\ s.list \in Seq(Items) /\ Rising(s.list)
  BY SackIs DEF Sound
<1>2. Len(s.list) \in Nat /\ DOMAIN s.list = 1 .. Len(s.list)
      /\ \A i \in 1 .. Len(s.list) : s.list[i] \in Items
  BY <1>1
<1> QED BY <1>1, <1>2, ItemIs

LEMMA GrowStep ==
  ASSUME NEW s, Sound(s), NEW i \in 1 .. Len(s.list), NEW t, NEW d, Absorbed(t, s, i, d),
         NEW hi \in Nat
  PROVE  /\ Absorbed(ResetItem(t, i, t.list[i].lo, hi), s, i, d)
         /\ IsNew(ResetItem(t, i, t.list[i].lo, hi), i, s.list[i].lo, hi)
<1> DEFINE l == t.list
           y == NewItem(l[i].lo, hi)
           u == ResetItem(t, i, l[i].lo, hi)
<1>1. /\ Sound(t) /\ l \in Seq(Items) /\ Rising(l) /\ i \in 1 .. Len(l) /\ Len(l) \in Nat
      /\ l[i].lo \in Nat
  <2>1. Sound(t) /\ l \in Seq(Items) /\ Rising(l) /\ Len(l) \in Nat
    BY SoundIs DEF Absorbed
  <2>2. i \in 1 .. Len(l)
    BY <2>1, SoundIs DEF Absorbed
  <2> QED BY <2>1, <2>2, SoundIs
<1>2. Fits(l, i, l[i].lo)
  BY <1>1, FitsItself
<1>3. Sound(u) /\ u.list = [l EXCEPT ![i] = y]
  BY <1>1, <1>2, ResetSound
<1>4. y.lo = l[i].lo /\ y = NewItem(s.list[i].lo, hi)
  BY <1>1, NewItemIs DEF Absorbed
<1> HIDE DEF u, y
<1>5. /\ Len(u.list) = Len(l) /\ u.list[i] = y
      /\ \A j \in 1 .. Len(l) : j # i => u.list[j] = l[j]
  BY <1>1, <1>3
<1>6. \A j \in 1 .. i - 1 : j \in 1 .. Len(l) /\ j # i
  BY <1>1
<1>7. \A j \in i + 1 .. Len(l) : j \in 1 .. Len(l) /\ j # i
  BY <1>1
<1>8. Absorbed(u, s, i, d)
  <2>1. /\ d \in 0 .. Len(s.list) - i /\ Len(l) = Len(s.list) - d
        /\ \A j \in 1 .. i - 1 : l[j] = s.list[j]
        /\ \A j \in i + 1 .. Len(s.list) - d : l[j] = s.list[j + d]
        /\ l[i].lo = s.list[i].lo
    BY DEF Absorbed
  <2> HIDE DEF l
  <2>2. \A j \in 1 .. i - 1 : u.list[j] = s.list[j]
    BY <1>5, <1>6, <2>1
  <2>3. \A j \in i + 1 .. Len(s.list) - d : u.list[j] = s.list[j + d]
    BY <1>5, <1>7, <2>1
  <2>4. Len(u.list) = Len(s.list) - d /\ u.list[i].lo = s.list[i].lo
    BY <1>4, <1>5, <2>1
  <2> QED BY <1>3, <2>1, <2>2, <2>3, <2>4 DEF Absorbed
<1> QED BY <1>4, <1>5, <1>8 DEF u, IsNew

LEMMA AbsorbStep ==
  ASSUME NEW s, Sound(s), NEW i \in 1 .. Len(s.list), NEW t, NEW d, Absorbed(t, s, i, d),
         i < Len(t.list)
  PROVE  LET u == DeleteItem(ResetItem(t, i, t.list[i].lo, t.list[i + 1].hi), i + 1)
         IN  /\ Absorbed(u, s, i, d + 1)
             /\ IsNew(u, i, s.list[i].lo, s.list[i + d + 1].hi)
<1> DEFINE h == t.list[i + 1].hi
           v == ResetItem(t, i, t.list[i].lo, h)
           u == DeleteItem(v, i + 1)
<1>1. /\ Len(s.list) \in Nat /\ Len(t.list) = Len(s.list) - d /\ d \in 0 .. Len(s.list) - i
      /\ i + 1 \in 1 .. Len(t.list) /\ i + 1 \in i + 1 .. Len(s.list) - d
  BY SoundIs DEF Absorbed
<1>2. Sound(t) /\ t.list[i + 1] = s.list[(i + 1) + d] /\ (i + 1) + d = i + d + 1
  BY <1>1 DEF Absorbed
<1>3. h \in Nat /\ h = s.list[i + d + 1].hi
  BY <1>1, <1>2, SoundIs
<1>4. Absorbed(v, s, i, d) /\ v.list[i] = NewItem(s.list[i].lo, h)
  <2> HIDE DEF h
  <2>1. Absorbed(ResetItem(t, i, t.list[i].lo, h), s, i, d)
    BY <1>3, GrowStep
  <2>2. IsNew(ResetItem(t, i, t.list[i].lo, h), i, s.list[i].lo, h)
    BY <1>3, GrowStep
  <2> QED BY <2>1, <2>2 DEF IsNew
<1> HIDE DEF v, h
<1>5. Sound(v) /\ Len(v.list) = Len(s.list) - d /\ i + 1 \in 1 .. Len(v.list)
  BY <1>1, <1>4 DEF Absorbed
<1>6. Sound(u) /\ Len(u.list) = Len(v.list) - 1
  BY <1>5, DeleteSound
<1>7. /\ \A j \in 1 .. Len(v.list) - 1 : j < i + 1 => u.list[j] = v.list[j]
      /\ \A j \in 1 .. Len(v.list) - 1 : j >= i + 1 => u.list[j] = v.list[j + 1]
  BY <1>5, DeleteSound
<1> HIDE DEF u
<1>8. u.list[i] = v.list[i]
  <2>1. i \in 1 .. Len(v.list) - 1 /\ i < i + 1
    BY <1>1, <1>5
  <2> QED BY <1>7, <2>1
<1>9. ASSUME NEW j \in 1 .. i - 1
      PROVE  u.list[j] = s.list[j]
  <2>1. j \in 1 .. Len(v.list) - 1 /\ j < i + 1
    BY <1>1, <1>5
  <2>2. v.list[j] = s.list[j]
    BY <1>4 DEF Absorbed
  <2> QED BY <1>7, <2>1, <2>2
<1>10. ASSUME NEW j \in i + 1 .. Len(s.list) - (d + 1)
       PROVE  u.list[j] = s.list[j + (d + 1)]
  <2>1. j \in 1 .. Len(v.list) - 1 /\ j >= i + 1 /\ j + 1 \in i + 1 .. Len(s.list) - d
    BY <1>1, <1>5
  <2>2. v.list[j + 1] = s.list[(j + 1) + d] /\ (j + 1) + d = j + (d + 1)
    BY <1>1, <1>4, <2>1 DEF Absorbed
  <2> QED BY <1>7, <2>1, <2>2
<1>11. u.list[i].lo = s.list[i].lo
  BY <1>4, <1>8 DEF Absorbed
<1>12. d + 1 \in 0 .. Len(s.list) - i /\ Len(u.list) = Len(s.list) - (d + 1)
  BY <1>1, <1>5, <1>6
<1>13. Absorbed(u, s, i, d + 1)
  BY <1>6, <1>9, <1>10, <1>11, <1>12 DEF Absorbed
<1>14. u.list[i] = NewItem(s.list[i].lo, s.list[i + d + 1].hi)
  BY <1>3, <1>4, <1>8
<1> QED BY <1>13, <1>14 DEF u, v, h, IsNew
(* The loop before and after its end.                                      *)
Extending(t, s, i, hi, d) ==
  /\ Absorbed(t, s, i, d) /\ t.list[i].hi = s.list[i + d].hi
  /\ d = 0 => t = s
  /\ d > 0 => /\ IsNew(t, i, s.list[i].lo, s.list[i + d].hi)
              /\ s.list[i].hi < hi /\ s.list[i + d].lo <= hi + 1

Extended(t, s, i, hi, d) ==
  /\ Absorbed(t, s, i, d) /\ IsNew(t, i, s.list[i].lo, hi)
  /\ s.list[i].hi < hi /\ s.list[i + d].hi < hi
  /\ d > 0 => s.list[i + d].lo <= hi + 1
  /\ i + d < Len(s.list) => s.list[i + d + 1].lo > hi + 1

Turned(t, s, i, hi, n) ==
  \E d \in Nat : \/ Extending(t, s, i, hi, d) /\ (d = n \/ s.list[i + d].hi >= hi)
                 \/ Extended(t, s, i, hi, d)

LEMMA ExtendTurn ==
  ASSUME NEW s, Sound(s), NEW i \in 1 .. Len(s.list), NEW hi \in Nat, NEW n \in Nat \ {0},
         NEW t, Turned(t, s, i, hi, n - 1)
  PROVE  Turned(ExtendOnce(t, i, hi), s, i, hi, n)
<1> DEFINE u == ExtendOnce(t, i, hi)
<1>1. PICK d \in Nat : \/ Extending(t, s, i, hi, d) /\ (d = n - 1 \/ s.list[i + d].hi >= hi)
                       \/ Extended(t, s, i, hi, d)
  BY DEF Turned
<1>2. Absorbed(t, s, i, d)
  BY <1>1 DEF Extending, Extended
<1>3. /\ Sound(t) /\ Len(s.list) \in Nat /\ Len(t.list) = Len(s.list) - d
      /\ d \in 0 .. Len(s.list) - i /\ t.list[i].lo = s.list[i].lo
  BY <1>2, SoundIs DEF Absorbed
<1>4. i \in 1 .. Len(t.list) /\ i + d \in 1 .. Len(s.list)
  BY <1>3
<1>5. t.list[i].hi \in Nat /\ s.list[i].hi \in Nat /\ s.list[i + d].hi \in Nat /\ s.list[i].lo \in Nat
  BY <1>3, <1>4, SoundIs
<1>6. CASE Extended(t, s, i, hi, d)
  <2>1. t.list[i].hi = hi
    <3>1. t.list[i] = NewItem(s.list[i].lo, hi)
      BY <1>6 DEF Extended, IsNew
    <3>2. NewItem(s.list[i].lo, hi).hi = hi
      BY <1>5, NewItemIs
    <3> QED BY <3>1, <3>2
  <2>2. u = t
    BY <1>5, <2>1 DEF ExtendOnce
  <2> QED BY <1>6, <2>2 DEF Turned
<1>7. CASE Extending(t, s, i, hi, d) /\ s.list[i + d].hi >= hi
  <2>1. u = t
    BY <1>7 DEF Extending, ExtendOnce
  <2> QED BY <1>7, <2>1 DEF Turned
<1>8. CASE Extending(t, s, i, hi, d) /\ ~(s.list[i + d].hi >= hi) /\ d = n - 1
  <2>1. ~(t.list[i].hi >= hi) /\ s.list[i + d].hi < hi
    BY <1>5, <1>8 DEF Extending
  <2>2. s.list[i].hi < hi
    <3>1. CASE d = 0
      <4>1. i + d = i
        BY <3>1
      <4> QED BY <2>1, <4>1
    <3>2. CASE d # 0
      <4>1. d > 0
        BY <1>3, <3>2
      <4> QED BY <1>8, <4>1 DEF Extending
    <3> QED BY <3>1, <3>2
  <2>3. CASE i = Len(t.list) \/ t.list[i + 1].lo - 1 > hi
    <3>1. u = ResetItem(t, i, t.list[i].lo, hi)
      BY <2>1, <2>3 DEF ExtendOnce
    <3>2. Absorbed(u, s, i, d)
      BY <1>2, <3>1, GrowStep
    <3>3. IsNew(u, i, s.list[i].lo, hi)
      BY <1>2, <3>1, GrowStep
    <3>4. ASSUME i + d < Len(s.list)
          PROVE  s.list[i + d + 1].lo > hi + 1
      <4>1. i # Len(t.list) /\ i + 1 \in i + 1 .. Len(s.list) - d /\ i + d + 1 \in 1 .. Len(s.list)
        BY <1>3, <3>4
      <4>2. t.list[i + 1] = s.list[(i + 1) + d] /\ (i + 1) + d = i + d + 1
        BY <1>2, <1>3, <4>1 DEF Absorbed
      <4>3. s.list[i + d + 1].lo - 1 > hi /\ s.list[i + d + 1].lo \in Nat
        BY <2>3, <4>1, <4>2, SoundIs
      <4> QED BY <4>3
    <3>5. d > 0 => s.list[i + d].lo <= hi + 1
      BY <1>8 DEF Extending
    <3>6. Extended(u, s, i, hi, d)
      BY <2>1, <2>2, <3>2, <3>3, <3>4, <3>5 DEF Extended
    <3> QED BY <3>6 DEF Turned
  <2>4. CASE ~(i = Len(t.list) \/ t.list[i + 1].lo - 1 > hi)
    <3>1. u = DeleteItem(ResetItem(t, i, t.list[i].lo, t.list[i + 1].hi), i + 1)
      BY <2>1, <2>4 DEF ExtendOnce
    <3>2. i < Len(t.list)
      BY <1>3, <1>4, <2>4
    <3>3. Absorbed(u, s, i, d + 1)
      BY <1>2, <3>1, <3>2, AbsorbStep
    <3>4. IsNew(u, i, s.list[i].lo, s.list[i + d + 1].hi)
      BY <1>2, <3>1, <3>2, AbsorbStep
    <3>5. /\ i + (d + 1) = i + d + 1 /\ d + 1 > 0 /\ d + 1 # 0 /\ d + 1 \in Nat /\ d + 1 = n
          /\ i + d + 1 \in 1 .. Len(s.list) /\ i + 1 \in i + 1 .. Len(s.list) - d
      <4>1. d + 1 = n
        BY <1>8
      <4> HIDE DEF u
      <4>2. i + d + 1 \in 1 .. Len(s.list) /\ i + 1 \in i + 1 .. Len(s.list) - d
        BY <1>3, <3>2
      <4>3. i + (d + 1) = i + d + 1 /\ d + 1 > 0 /\ d + 1 # 0 /\ d + 1 \in Nat
        BY <1>3
      <4> QED BY <4>1, <4>2, <4>3
    <3>6. t.list[i + 1] = s.list[(i + 1) + d] /\ (i + 1) + d = i + d + 1
      <4> HIDE DEF u
      <4>1. t.list[i + 1] = s.list[(i + 1) + d]
        BY <1>2, <3>5 DEF Absorbed
      <4>2. (i + 1) + d = i + d + 1
        BY <1>3
      <4> QED BY <4>1, <4>2
    <3>7. s.list[i + d + 1].lo \in Nat /\ s.list[i + d + 1].hi \in Nat
      BY <3>5, SoundIs
    <3>8. s.list[i + d + 1].lo <= hi + 1
      <4> HIDE DEF u
      <4> DEFINE p == s.list[i + d + 1].lo
      <4>1. ~(p - 1 > hi) /\ p \in Nat
        BY <2>4, <3>6, <3>7
      <4> HIDE DEF p
      <4>2. p <= hi + 1
        BY <4>1
      <4> QED BY <4>2 DEF p
    <3>9. u.list[i].hi = s.list[i + (d + 1)].hi
      <4>1. u.list[i] = NewItem(s.list[i].lo, s.list[i + d + 1].hi)
        BY <3>4 DEF IsNew
      <4>2. NewItem(s.list[i].lo, s.list[i + d + 1].hi).hi = s.list[i + d + 1].hi
        BY <1>5, <3>7, NewItemIs
      <4> QED BY <3>5, <4>1, <4>2
    <3>10. Extending(u, s, i, hi, d + 1)
      BY <2>2, <3>3, <3>4, <3>5, <3>8, <3>9 DEF Extending
    <3> QED BY <3>5, <3>10 DEF Turned
  <2> QED BY <2>3, <2>4
<1> QED BY <1>1, <1>6, <1>7, <1>8
LEMMA SpacedIs ==
  ASSUME NEW l \in Seq(Items), Spaced(l), NEW i \in 1 .. Len(l), NEW j \in 1 .. Len(l), i < j
  PROVE  /\ l[i].lo \in Nat /\ l[i].hi \in Nat /\ l[j].lo \in Nat /\ l[j].hi \in Nat
         /\ l[i].lo <= l[i].hi /\ l[i].hi + 1 < l[j].lo /\ l[i].hi + 2 <= l[j].lo
         /\ l[i].hi < l[j].hi /\ l[i].lo < l[j].lo /\ l[j].lo <= l[j].hi
<1> DEFINE p == l[i].lo
           q == l[i].hi
           r == l[j].lo
           u == l[j].hi
<1>1. p \in Nat /\ q \in Nat /\ r \in Nat /\ u \in Nat /\ DOMAIN l = 1 .. Len(l)
  BY Domains, ItemIs
<1>2. p <= q /\ q + 2 <= r /\ r <= u
  BY <1>1 DEF Spaced
<1> HIDE DEF p, q, r, u
<1>3. q + 1 < r /\ q < u /\ p < r
  BY <1>1, <1>2
<1> QED BY <1>1, <1>2, <1>3 DEF p, q, r, u

LEMMA SpacedUp ==
  ASSUME NEW l \in Seq(Items), Spaced(l), NEW i \in 1 .. Len(l), NEW j \in 1 .. Len(l), i <= j
  PROVE  l[i].lo <= l[j].lo /\ l[i].hi <= l[j].hi /\ l[i].lo <= l[j].hi
<1>1. CASE i < j
  <2> DEFINE p == l[i].lo
             q == l[i].hi
             r == l[j].lo
             u == l[j].hi
  <2>1. p \in Nat /\ q \in Nat /\ r \in Nat /\ u \in Nat /\ q < u /\ p < r /\ r <= u
    BY <1>1, SpacedIs
  <2> HIDE DEF p, q, r, u
  <2>2. p <= r /\ q <= u /\ p <= u
    BY <2>1
  <2> QED BY <2>2 DEF p, q, r, u
<1>2. CASE i = j
  <2>1. l[j].lo \in Nat /\ l[j].hi \in Nat /\ l[j].lo <= l[j].hi
    <3>1. DOMAIN l = 1 .. Len(l) /\ l[j] \in Items
      BY Domains
    <3> QED BY <3>1, ItemIs DEF Spaced
  <2> QED BY <1>2, <2>1
<1> QED BY <1>1, <1>2

(* Items a to a + d of s are replaced by a new one; with d = -1 it is      *)
(* inserted.                                                               *)
Merged(t, s, a, d, lo, hi) ==
  /\ Sound(t) /\ Len(t.list) = Len(s.list) - d
  /\ t.list[a] = NewItem(lo, hi)
  /\ \A j \in 1 .. a - 1 : t.list[j] = s.list[j]
  /\ \A j \in a + 1 .. Len(s.list) - d : t.list[j] = s.list[j + d]

(* The items of l with a new one in place of those from a to a + d.        *)
Exchange(l, a, d, lo, hi) == (ToSet(l) \ {l[j] : j \in a .. a + d}) \cup {NewItem(lo, hi)}

(* The end of what extends item i of l up to hi and takes in d more items. *)
Reaches(l, i, d, hi, end) ==
  /\ end = hi \/ end = l[i + d].hi
  /\ hi <= end /\ l[i + d].hi <= end
  /\ d > 0 => l[i + d].lo <= hi + 1
  /\ i + d < Len(l) => end + 1 < l[i + d + 1].lo

LEMMA AbsorbedIsMerged ==
  ASSUME NEW t, NEW s, NEW i, NEW d, NEW hi, Absorbed(t, s, i, d), IsNew(t, i, s.list[i].lo, hi)
  PROVE  Merged(t, s, i, d, s.list[i].lo, hi)
<1>1. t.list[i] = NewItem(s.list[i].lo, hi)
  BY DEF IsNew
<1> QED BY <1>1 DEF Absorbed, Merged

LEMMA ExtendItemIs ==
  ASSUME NEW s, Sound(s), Spaced(s.list), NEW i \in 1 .. Len(s.list), NEW hi \in Nat
  PROVE  \/ s.list[i].hi >= hi /\ ExtendItem(s, i, hi) = s
         \/ /\ s.list[i].hi < hi
            /\ \E d \in 0 .. Len(s.list) - i, end \in Nat :
                 /\ Merged(ExtendItem(s, i, hi), s, i, d, s.list[i].lo, end)
                 /\ Reaches(s.list, i, d, hi, end)
<1> DEFINE turn == [j \in DOMAIN s.list |-> [t \in Sacks |-> ExtendOnce(t, i, hi)]]
           Q == [n \in 0 .. Len(s.list) |-> {t \in Sacks : Turned(t, s, i, hi, n)}]
           u == ExtendItem(s, i, hi)
<1>1. /\ s \in Sacks /\ Len(s.list) \in Nat /\ DOMAIN s.list = 1 .. Len(s.list)
      /\ \A j \in 1 .. Len(s.list) : s.list[j].lo \in Nat /\ s.list[j].hi \in Nat
  BY SoundIs
<1>2. s \in Q[0]
  <2>1. Absorbed(s, s, i, 0)
    <3>1. \A j \in i + 1 .. Len(s.list) - 0 : s.list[j] = s.list[j + 0]
      BY <1>1
    <3> QED BY <1>1, <3>1 DEF Absorbed
  <2>2. i + 0 = i
    OBVIOUS
  <2>3. Extending(s, s, i, hi, 0)
    BY <2>1, <2>2 DEF Extending
  <2>4. Turned(s, s, i, hi, 0)
    BY <2>3 DEF Turned
  <2> QED BY <1>1, <2>4
<1>3. ASSUME NEW n \in 1 .. Len(s.list), NEW t \in Q[n - 1]
      PROVE  turn[n][t] \in Q[n]
  <2>1. n - 1 \in 0 .. Len(s.list) /\ n \in Nat \ {0} /\ n \in 0 .. Len(s.list) /\ n \in DOMAIN s.list
    BY <1>1
  <2>2. t \in Sacks /\ Turned(t, s, i, hi, n - 1)
    BY <2>1
  <2>3. Turned(ExtendOnce(t, i, hi), s, i, hi, n)
    BY <2>1, <2>2, ExtendTurn
  <2>4. ExtendOnce(t, i, hi) \in Sacks
    BY <2>3, SoundIs DEF Turned, Extending, Extended, Absorbed
  <2>5. turn[n][t] = ExtendOnce(t, i, hi)
    BY <2>1, <2>2
  <2> HIDE DEF turn
  <2> QED BY <2>1, <2>3, <2>4, <2>5
<1>4. u \in Q[Len(s.list)]
  <2>1. Walk(turn, s, Len(s.list)) \in Q[Len(s.list)]
    <3> HIDE DEF turn, Q
    <3> QED BY <1>1, <1>2, <1>3, WalkLeads
  <2> QED BY <2>1 DEF ExtendItem
<1>5. Turned(u, s, i, hi, Len(s.list))
  <2> HIDE DEF u
  <2> QED BY <1>1, <1>4
<1> HIDE DEF u, turn, Q
<1>6. PICK d \in Nat : \/ Extending(u, s, i, hi, d) /\ (d = Len(s.list) \/ s.list[i + d].hi >= hi)
                       \/ Extended(u, s, i, hi, d)
  BY <1>5 DEF Turned
<1>7. Absorbed(u, s, i, d)
  BY <1>6 DEF Extending, Extended
<1>8. d \in 0 .. Len(s.list) - i /\ d # Len(s.list) /\ i + d \in 1 .. Len(s.list)
      /\ i + d + 1 = (i + d) + 1
  <2> DEFINE n == Len(s.list)
  <2>1. n \in Nat /\ i \in 1 .. n /\ d \in 0 .. n - i
    BY <1>1, <1>7 DEF Absorbed
  <2> HIDE DEF n
  <2>2. d # n /\ i + d \in 1 .. n /\ i + d + 1 = (i + d) + 1
    BY <2>1
  <2> QED BY <2>1, <2>2 DEF n
<1>9. s.list[i].hi \in Nat /\ s.list[i + d].hi \in Nat /\ s.list[i + d].lo \in Nat
  BY <1>1, <1>8
<1>10. CASE Extended(u, s, i, hi, d)
  <2>1. Merged(u, s, i, d, s.list[i].lo, hi)
    BY <1>7, <1>10, AbsorbedIsMerged DEF Extended
  <2>2. Reaches(s.list, i, d, hi, hi)
    <3>1. i + d < Len(s.list) => hi + 1 < s.list[i + d + 1].lo
      <4> SUFFICES ASSUME i + d < Len(s.list)
                   PROVE  hi + 1 < s.list[i + d + 1].lo
        OBVIOUS
      <4>1. s.list[i + d + 1].lo > hi + 1
        BY <1>10 DEF Extended
      <4>2. s.list[i + d + 1].lo \in Nat
        BY <1>1, <1>8
      <4> QED BY <4>1, <4>2
    <3>2. hi <= hi /\ s.list[i + d].hi <= hi
      BY <1>9, <1>10 DEF Extended
    <3> QED BY <1>10, <3>1, <3>2 DEF Extended, Reaches
  <2> QED BY <1>8, <1>10, <2>1, <2>2 DEF Extended, u
<1>11. CASE Extending(u, s, i, hi, d) /\ s.list[i + d].hi >= hi /\ d = 0
  <2>1. u = s /\ i + d = i
    BY <1>11 DEF Extending
  <2> QED BY <1>11, <2>1 DEF u
<1>12. CASE Extending(u, s, i, hi, d) /\ s.list[i + d].hi >= hi /\ d # 0
  <2>1. d > 0
    BY <1>12
  <2>2. /\ IsNew(u, i, s.list[i].lo, s.list[i + d].hi)
        /\ s.list[i].hi < hi /\ s.list[i + d].lo <= hi + 1
    BY <1>12, <2>1 DEF Extending
  <2>3. Merged(u, s, i, d, s.list[i].lo, s.list[i + d].hi)
    BY <1>7, <2>2, AbsorbedIsMerged
  <2>4. Reaches(s.list, i, d, hi, s.list[i + d].hi)
    <3>1. i + d < Len(s.list) => s.list[i + d].hi + 1 < s.list[i + d + 1].lo
      <4> SUFFICES ASSUME i + d < Len(s.list)
                   PROVE  s.list[i + d].hi + 1 < s.list[i + d + 1].lo
        OBVIOUS
      <4>1. i + d + 1 \in 1 .. Len(s.list) /\ i + d < i + d + 1
        BY <1>1, <1>8
      <4> QED BY <1>1, <1>8, <4>1, SpacedIs, SoundIs
    <3>2. hi <= s.list[i + d].hi /\ s.list[i + d].hi <= s.list[i + d].hi
      BY <1>9, <1>12
    <3> QED BY <2>2, <3>1, <3>2 DEF Reaches
  <2> QED BY <1>8, <1>9, <2>2, <2>3, <2>4 DEF u
<1> QED BY <1>6, <1>8, <1>10, <1>11, <1>12

(* The items outside a .. a + d leave a gap before lo and after hi.        *)
Clear(l, a, d, lo, hi) ==
  /\ \A j \in 1 .. a - 1 : l[j].hi + 2 <= lo
  /\ \A j \in a + d + 1 .. Len(l) : hi + 2 <= l[j].lo

LEMMA NeighboursClear ==
  ASSUME NEW l \in Seq(Items), Spaced(l), NEW a \in 1 .. Len(l) + 1, NEW d \in -1 .. Len(l) - a,
         NEW lo \in Nat, NEW hi \in Nat,
         a > 1 => l[a - 1].hi + 1 < lo,
         a + d < Len(l) => hi + 1 < l[a + d + 1].lo
  PROVE  Clear(l, a, d, lo, hi)
<1>1. /\ Len(l) \in Nat /\ DOMAIN l = 1 .. Len(l)
      /\ \A j \in 1 .. Len(l) : l[j].lo \in Nat /\ l[j].hi \in Nat /\ l[j].lo <= l[j].hi
  BY Domains, ItemIs DEF Spaced
<1>2. ASSUME NEW j \in 1 .. a - 1
      PROVE  l[j].hi + 2 <= lo
  <2>1. a - 1 \in 1 .. Len(l) /\ j \in 1 .. Len(l) /\ a > 1 /\ j <= a - 1
    BY <1>1
  <2>2. l[a - 1].hi + 1 < lo
    BY <2>1
  <2>3. CASE j = a - 1
    BY <1>1, <2>1, <2>2, <2>3
  <2>4. CASE j < a - 1
    <3>1. l[j].hi + 2 <= l[a - 1].lo
      BY <1>1, <2>1, <2>4 DEF Spaced
    <3> DEFINE p == l[j].hi
               q == l[a - 1].lo
               r == l[a - 1].hi
    <3>2. p \in Nat /\ q \in Nat /\ r \in Nat /\ q <= r /\ r + 1 < lo /\ p + 2 <= q
      BY <1>1, <2>1, <2>2, <3>1
    <3> HIDE DEF p, q, r
    <3>3. p + 2 <= lo
      BY <3>2
    <3> QED BY <3>3 DEF p
  <2> QED BY <2>1, <2>3, <2>4
<1>3. ASSUME NEW j \in a + d + 1 .. Len(l)
      PROVE  hi + 2 <= l[j].lo
  <2>1. a + d + 1 \in 1 .. Len(l) /\ j \in 1 .. Len(l) /\ a + d < Len(l) /\ a + d + 1 <= j
    BY <1>1
  <2>2. hi + 1 < l[a + d + 1].lo
    BY <2>1
  <2>3. CASE j = a + d + 1
    BY <1>1, <2>1, <2>2, <2>3
  <2>4. CASE a + d + 1 < j
    <3>1. l[a + d + 1].hi + 2 <= l[j].lo
      BY <1>1, <2>1, <2>4 DEF Spaced
    <3> DEFINE p == l[j].lo
               q == l[a + d + 1].lo
               r == l[a + d + 1].hi
    <3>2. p \in Nat /\ q \in Nat /\ r \in Nat /\ q <= r /\ hi + 1 < q /\ r + 2 <= p
      BY <1>1, <2>1, <2>2, <3>1
    <3> HIDE DEF p, q, r
    <3>3. hi + 2 <= p
      BY <3>2
    <3> QED BY <3>3 DEF p
  <2> QED BY <2>1, <2>3, <2>4
<1> QED BY <1>2, <1>3 DEF Clear

LEMMA MergedIs ==
  ASSUME NEW s, Sound(s), Spaced(s.list), NEW a \in 1 .. Len(s.list) + 1,
         NEW d \in -1 .. Len(s.list) - a, NEW lo \in Nat, NEW hi \in Nat, lo <= hi,
         Clear(s.list, a, d, lo, hi), NEW t, Merged(t, s, a, d, lo, hi)
  PROVE  /\ Spaced(t.list)
         /\ ToSet(t.list) = Exchange(s.list, a, d, lo, hi)
<1> DEFINE l == s.list
           m == t.list
           x == NewItem(lo, hi)
<1>1. /\ l \in Seq(Items) /\ Len(l) \in Nat /\ DOMAIN l = 1 .. Len(l)
      /\ \A j \in 1 .. Len(l) : l[j].lo \in Nat /\ l[j].hi \in Nat
  BY SoundIs
<1>2. Sound(t) /\ Len(m) = Len(l) - d
  BY DEF Merged
<1>3. m \in Seq(Items) /\ DOMAIN m = 1 .. Len(l) - d
  BY <1>2, SoundIs
<1>4. /\ m[a] = x
      /\ \A j \in 1 .. a - 1 : m[j] = l[j]
      /\ \A j \in a + 1 .. Len(l) - d : m[j] = l[j + d]
  BY DEF Merged
<1>5. /\ \A j \in 1 .. a - 1 : l[j].hi + 2 <= lo
      /\ \A j \in a + d + 1 .. Len(l) : hi + 2 <= l[j].lo
  BY DEF Clear
<1>6. x.lo = lo /\ x.hi = hi
  BY NewItemIs
<1>7. /\ \A j \in DOMAIN l : l[j].lo <= l[j].hi
      /\ \A i, j \in DOMAIN l : i < j => l[i].hi + 2 <= l[j].lo
  BY DEF Spaced
<1> HIDE DEF x
<1>8. Spaced(m)
  <2>1. ASSUME NEW j \in 1 .. Len(l) - d
        PROVE  m[j].lo <= m[j].hi
    <3>1. CASE j < a
      <4>1. j \in 1 .. a - 1 /\ j \in 1 .. Len(l)
        BY <1>1, <3>1
      <4> QED BY <1>1, <1>4, <1>7, <4>1
    <3>2. CASE j = a
      BY <1>4, <1>6, <3>2
    <3>3. CASE j > a
      <4>1. j \in a + 1 .. Len(l) - d /\ j + d \in 1 .. Len(l)
        BY <1>1, <3>3
      <4> QED BY <1>1, <1>4, <1>7, <4>1
    <3> QED BY <1>1, <3>1, <3>2, <3>3
  <2>2. ASSUME NEW i \in 1 .. Len(l) - d, NEW j \in 1 .. Len(l) - d, i < j
        PROVE  m[i].hi + 2 <= m[j].lo
    <3>1. CASE j < a
      <4>1. i \in 1 .. a - 1 /\ i \in 1 .. Len(l) /\ j \in 1 .. a - 1 /\ j \in 1 .. Len(l)
        BY <1>1, <2>2, <3>1
      <4> QED BY <1>1, <1>4, <1>7, <2>2, <4>1
    <3>2. CASE j = a
      <4>1. i \in 1 .. a - 1
        BY <1>1, <2>2, <3>2
      <4> QED BY <1>4, <1>5, <1>6, <3>2, <4>1
    <3>3. CASE i < a /\ j > a
      <4>1. i \in 1 .. a - 1 /\ i \in 1 .. Len(l) /\ j \in a + 1 .. Len(l) - d
            /\ j + d \in 1 .. Len(l) /\ i < j + d
        <5> DEFINE n == Len(l)
        <5>1. n \in Nat /\ i \in 1 .. n - d /\ j \in 1 .. n - d /\ d \in -1 .. n - a
              /\ a \in 1 .. n + 1
          BY <1>1
        <5> HIDE DEF n, l, m
        <5>2. i \in 1 .. a - 1 /\ i \in 1 .. n
          BY <3>3, <5>1
        <5>3. j \in a + 1 .. n - d /\ j + d \in 1 .. n
          BY <3>3, <5>1
        <5>4. i < j + d
          BY <3>3, <5>1
        <5> QED BY <5>2, <5>3, <5>4 DEF n
      <4>2. m[i] = l[i] /\ m[j] = l[j + d]
        BY <1>4, <4>1
      <4>3. l[i].hi + 2 <= l[j + d].lo
        BY <1>1, <1>7, <4>1
      <4> QED BY <4>2, <4>3
    <3>4. CASE i = a
      <4>1. j \in a + 1 .. Len(l) - d /\ j + d \in a + d + 1 .. Len(l)
        BY <1>1, <2>2, <3>4
      <4> QED BY <1>4, <1>5, <1>6, <3>4, <4>1
    <3>5. CASE i > a
      <4>1. /\ i \in a + 1 .. Len(l) - d /\ j \in a + 1 .. Len(l) - d
            /\ i + d \in 1 .. Len(l) /\ j + d \in 1 .. Len(l) /\ i + d < j + d
        <5> DEFINE n == Len(l)
        <5>1. n \in Nat /\ i \in 1 .. n - d /\ j \in 1 .. n - d /\ d \in -1 .. n - a
              /\ a \in 1 .. n + 1
          BY <1>1
        <5> HIDE DEF n, l, m
        <5>2. i \in a + 1 .. n - d /\ i + d \in 1 .. n
          BY <2>2, <3>5, <5>1
        <5>3. j \in a + 1 .. n - d /\ j + d \in 1 .. n
          BY <2>2, <3>5, <5>1
        <5>4. i + d < j + d
          BY <2>2, <5>1
        <5> QED BY <5>2, <5>3, <5>4 DEF n
      <4> QED BY <1>1, <1>4, <1>7, <4>1
    <3> QED BY <1>1, <2>2, <3>1, <3>2, <3>3, <3>4, <3>5
  <2> QED BY <1>3, <2>1, <2>2 DEF Spaced
<1>9. ASSUME NEW y
      PROVE  y \in ToSet(m) <=> y \in (ToSet(l) \ {l[j] : j \in a .. a + d}) \cup {x}
  <2>1. ASSUME NEW i \in 1 .. Len(l), i \notin a .. a + d
        PROVE  l[i] \notin {l[j] : j \in a .. a + d}
    <3> SUFFICES ASSUME NEW j \in a .. a + d, l[i] = l[j]
                 PROVE  FALSE
      OBVIOUS
    <3>1. j \in 1 .. Len(l)
      BY <1>1
    <3>2. i = j
      BY <1>1, <3>1, SoundIs, RisingIsOne
    <3> QED BY <2>1, <3>2
  <2>2. ASSUME y \in ToSet(m)
        PROVE  y \in (ToSet(l) \ {l[j] : j \in a .. a + d}) \cup {x}
    <3>1. PICK j \in 1 .. Len(l) - d : y = m[j]
      BY <1>3, <2>2 DEF ToSet
    <3>2. CASE j < a
      <4>1. j \in 1 .. a - 1 /\ j \in 1 .. Len(l) /\ j \notin a .. a + d
        BY <1>1, <3>2
      <4>2. y = l[j] /\ l[j] \in ToSet(l)
        BY <1>1, <1>4, <3>1, <4>1 DEF ToSet
      <4> QED BY <2>1, <4>1, <4>2
    <3>3. CASE j = a
      BY <1>4, <3>1, <3>3
    <3>4. CASE j > a
      <4>1. j \in a + 1 .. Len(l) - d /\ j + d \in 1 .. Len(l) /\ j + d \notin a .. a + d
        <5> DEFINE n == Len(l)
        <5>1. n \in Nat /\ j \in 1 .. n - d /\ d \in -1 .. n - a /\ a \in 1 .. n + 1
          BY <1>1
        <5> HIDE DEF n, l, m
        <5>2. j \in a + 1 .. n - d /\ j + d \in 1 .. n
          BY <3>4, <5>1
        <5>3. j + d \notin a .. a + d
          BY <3>4, <5>1
        <5> QED BY <5>2, <5>3 DEF n
      <4>2. y = l[j + d] /\ l[j + d] \in ToSet(l)
        BY <1>1, <1>4, <3>1, <4>1 DEF ToSet
      <4> QED BY <2>1, <4>1, <4>2
    <3> QED BY <1>1, <3>2, <3>3, <3>4
  <2>3. ASSUME y \in (ToSet(l) \ {l[j] : j \in a .. a + d}) \cup {x}
        PROVE  y \in ToSet(m)
    <3>1. CASE y = x
      <4>1. a \in 1 .. Len(l) - d
        BY <1>1
      <4> QED BY <1>3, <1>4, <3>1, <4>1 DEF ToSet
    <3>2. CASE y # x
      <4>1. PICK j \in 1 .. Len(l) : y = l[j] /\ j \notin a .. a + d
        BY <1>1, <2>3, <3>2 DEF ToSet
      <4>2. CASE j < a
        <5>1. j \in 1 .. a - 1 /\ j \in 1 .. Len(l) - d
          BY <1>1, <4>2
        <5> QED BY <1>3, <1>4, <4>1, <5>1 DEF ToSet
      <4>3. CASE j > a + d
        <5>1. j - d \in a + 1 .. Len(l) - d /\ (j - d) + d = j /\ j - d \in 1 .. Len(l) - d
          BY <1>1, <4>3
        <5>2. m[j - d] = l[j]
          BY <1>4, <5>1
        <5> QED BY <1>3, <4>1, <5>1, <5>2 DEF ToSet
      <4> QED BY <1>1, <4>1, <4>2, <4>3
    <3> QED BY <3>1, <3>2
  <2> QED BY <2>2, <2>3
<1>10. ToSet(m) = (ToSet(l) \ {l[j] : j \in a .. a + d}) \cup {x}
  <2> HIDE DEF l, m
  <2> QED BY <1>9
<1> QED BY <1>8, <1>10 DEF x, l, m, Exchange

LEMMA LowestIs ==
  ASSUME NEW S \in SUBSET Nat, NEW m \in S, \A i \in S : m <= i
  PROVE  Min(S) = m
<1>1. Min(S) \in S /\ \A i \in S : Min(S) <= i
  BY LeastIs
<1> DEFINE n == Min(S)
<1>2. n \in Nat /\ m \in Nat /\ n <= m /\ m <= n
  BY <1>1
<1> HIDE DEF n
<1>3. n = m
  BY <1>2
<1> QED BY <1>3 DEF n

LEMMA HighestIs ==
  ASSUME NEW S \in SUBSET Nat, NEW m \in S, \A i \in S : i <= m
  PROVE  Max(S) = m
<1>1. S \subseteq 0 .. m /\ S # {} /\ m \in Nat
  OBVIOUS
<1>2. Max(S) \in S /\ \A i \in S : i <= Max(S)
  BY <1>1, GreatestIs
<1> DEFINE n == Max(S)
<1>3. n \in Nat /\ m \in Nat /\ n <= m /\ m <= n
  BY <1>2
<1> HIDE DEF n
<1>4. n = m
  BY <1>3
<1> QED BY <1>4 DEF n

(* The items a .. a + d of l are those that start .. end meets, and lo     *)
(* .. hi is what they and start .. end make together.                      *)
Spans(l, a, d, start, end, lo, hi) ==
  /\ a \in 1 .. Len(l) + 1 /\ d \in -1 .. Len(l) - a
  /\ lo \in Nat /\ hi \in Nat /\ lo <= start /\ start <= end /\ end <= hi
  /\ Clear(l, a, d, lo, hi)
  /\ \A j \in a .. a + d : /\ l[j].lo <= end + 1 /\ start <= l[j].hi + 1
                           /\ lo <= l[j].lo /\ l[j].hi <= hi
  /\ lo = start \/ \E j \in a .. a + d : lo = l[j].lo
  /\ hi = end \/ \E j \in a .. a + d : hi = l[j].hi

LEMMA TouchingIs ==
  ASSUME NEW l \in Seq(Items), NEW a, NEW d, NEW start \in Nat, NEW end \in Nat, NEW lo, NEW hi,
         Spans(l, a, d, start, end, lo, hi)
  PROVE  Touching(ToSet(l), start, end) = {l[j] : j \in a .. a + d}
<1>1. /\ Len(l) \in Nat /\ DOMAIN l = 1 .. Len(l)
      /\ \A j \in 1 .. Len(l) : l[j].lo \in Nat /\ l[j].hi \in Nat
  BY Domains, ItemIs
<1>2. /\ a \in 1 .. Len(l) + 1 /\ d \in -1 .. Len(l) - a
      /\ lo \in Nat /\ hi \in Nat /\ lo <= start /\ end <= hi
      /\ \A j \in 1 .. a - 1 : l[j].hi + 2 <= lo
      /\ \A j \in a + d + 1 .. Len(l) : hi + 2 <= l[j].lo
      /\ \A j \in a .. a + d : l[j].lo <= end + 1 /\ start <= l[j].hi + 1
  BY DEF Spans, Clear
<1>3. ASSUME NEW j \in 1 .. Len(l)
      PROVE  (l[j].lo <= end + 1 /\ start <= l[j].hi + 1) <=> j \in a .. a + d
  <2>1. CASE j < a
    <3>1. j \in 1 .. a - 1 /\ j \notin a .. a + d
      BY <1>1, <1>2, <2>1
    <3>2. l[j].hi + 2 <= lo
      BY <1>2, <3>1
    <3>3. ~(start <= l[j].hi + 1)
      <4> DEFINE p == l[j].hi
      <4>1. p \in Nat /\ p + 2 <= lo /\ lo \in Nat /\ lo <= start
        BY <1>1, <1>2, <3>2
      <4> HIDE DEF p
      <4>2. ~(start <= p + 1)
        BY <4>1
      <4> QED BY <4>2 DEF p
    <3> QED BY <3>1, <3>3
  <2>2. CASE j \in a .. a + d
    BY <1>2, <2>2
  <2>3. CASE j > a + d
    <3>1. j \in a + d + 1 .. Len(l) /\ j \notin a .. a + d
      BY <1>1, <1>2, <2>3
    <3>2. hi + 2 <= l[j].lo
      BY <1>2, <3>1
    <3>3. ~(l[j].lo <= end + 1)
      <4> DEFINE p == l[j].lo
      <4>1. p \in Nat /\ hi + 2 <= p /\ hi \in Nat /\ end <= hi
        BY <1>1, <1>2, <3>2
      <4> HIDE DEF p
      <4>2. ~(p <= end + 1)
        BY <4>1
      <4> QED BY <4>2 DEF p
    <3> QED BY <3>1, <3>3
  <2> QED BY <1>1, <1>2, <2>1, <2>2, <2>3
<1>4. \A j \in a .. a + d : j \in 1 .. Len(l)
  BY <1>1, <1>2
<1> QED BY <1>1, <1>3, <1>4 DEF Touching, ToSet

LEMMA UpdateIs ==
  ASSUME NEW l \in Seq(Items), NEW a, NEW d, NEW start \in Nat, NEW end \in Nat, NEW lo, NEW hi,
         Spans(l, a, d, start, end, lo, hi), ~Includes(ToSet(l), start, end)
  PROVE  Update(ToSet(l), start, end) = Exchange(l, a, d, lo, hi)
<1> DEFINE T == {l[j] : j \in a .. a + d}
           A == {start} \cup {it.lo : it \in T}
           B == {end} \cup {it.hi : it \in T}
<1>1. Touching(ToSet(l), start, end) = T
  BY TouchingIs
<1>2. /\ Len(l) \in Nat /\ DOMAIN l = 1 .. Len(l)
      /\ \A j \in 1 .. Len(l) : l[j].lo \in Nat /\ l[j].hi \in Nat
  BY Domains, ItemIs
<1>3. /\ a \in 1 .. Len(l) + 1 /\ d \in -1 .. Len(l) - a
      /\ lo \in Nat /\ hi \in Nat /\ lo <= start /\ end <= hi
      /\ \A j \in a .. a + d : lo <= l[j].lo /\ l[j].hi <= hi
      /\ lo = start \/ \E j \in a .. a + d : lo = l[j].lo
      /\ hi = end \/ \E j \in a .. a + d : hi = l[j].hi
  BY DEF Spans
<1>4. \A j \in a .. a + d : j \in 1 .. Len(l)
  BY <1>2, <1>3
<1>5. A \in SUBSET Nat /\ lo \in A /\ \A n \in A : lo <= n
  <2>1. lo \in A
    BY <1>3
  <2> QED BY <1>2, <1>3, <1>4, <2>1
<1>6. B \in SUBSET Nat /\ hi \in B /\ \A n \in B : n <= hi
  <2>1. hi \in B
    BY <1>3
  <2> QED BY <1>2, <1>3, <1>4, <2>1
<1>7. Min(A) = lo
  <2> HIDE DEF A
  <2> QED BY <1>5, LowestIs
<1>8. Max(B) = hi
  <2> HIDE DEF B
  <2> QED BY <1>6, HighestIs
<1> HIDE DEF T
<1>9. Update(ToSet(l), start, end) = (ToSet(l) \ T) \cup {NewItem(Min(A), Max(B))}
  BY <1>1 DEF Update
<1> QED BY <1>7, <1>8, <1>9 DEF T, Exchange

(* Merging covers the interval and nothing else.                           *)
LEMMA MergingCovers ==
  ASSUME NEW l \in Seq(Items), NEW a, NEW d, NEW start \in Nat, NEW end \in Nat, NEW lo, NEW hi,
         Spans(l, a, d, start, end, lo, hi)
  PROVE  Covered(Exchange(l, a, d, lo, hi)) = Covered(ToSet(l)) \cup start .. end
<1> DEFINE T == {l[j] : j \in a .. a + d}
           x == NewItem(lo, hi)
           M == (ToSet(l) \ T) \cup {x}
<1>1. /\ Len(l) \in Nat /\ DOMAIN l = 1 .. Len(l)
      /\ \A j \in 1 .. Len(l) : l[j].lo \in Nat /\ l[j].hi \in Nat
  BY Domains, ItemIs
<1>2. /\ a \in 1 .. Len(l) + 1 /\ d \in -1 .. Len(l) - a
      /\ lo \in Nat /\ hi \in Nat /\ lo <= start /\ start <= end /\ end <= hi
      /\ \A j \in a .. a + d : /\ l[j].lo <= end + 1 /\ start <= l[j].hi + 1
                               /\ lo <= l[j].lo /\ l[j].hi <= hi
      /\ lo = start \/ \E j \in a .. a + d : lo = l[j].lo
      /\ hi = end \/ \E j \in a .. a + d : hi = l[j].hi
  BY DEF Spans
<1>3. \A j \in a .. a + d : j \in 1 .. Len(l) /\ l[j] \in ToSet(l)
  BY <1>1, <1>2 DEF ToSet
<1>4. x.lo = lo /\ x.hi = hi
  BY <1>2, NewItemIs
<1> HIDE DEF x
<1>5. ASSUME NEW n \in Covered(M)
      PROVE  n \in Covered(ToSet(l)) \cup start .. end
  <2>1. PICK it \in M : n \in it.lo .. it.hi
    BY DEF Covered
  <2>2. CASE it # x
    BY <2>1, <2>2 DEF Covered
  <2>3. CASE it = x
    <3>1. n \in lo .. hi
      BY <1>4, <2>1, <2>3
    <3>2. CASE n < start
      <4>1. PICK j \in a .. a + d : lo = l[j].lo
        BY <1>2, <3>1, <3>2
      <4>2. n \in l[j].lo .. l[j].hi
        <5> DEFINE p == l[j].lo
                   q == l[j].hi
        <5>1. p \in Nat /\ q \in Nat /\ lo = p /\ start <= q + 1
          BY <1>1, <1>2, <1>3, <4>1
        <5> HIDE DEF p, q
        <5>2. n \in p .. q
          BY <3>1, <3>2, <5>1
        <5> QED BY <5>2 DEF p, q
      <4> QED BY <1>3, <4>2 DEF Covered
    <3>3. CASE n > end
      <4>1. PICK j \in a .. a + d : hi = l[j].hi
        BY <1>2, <3>1, <3>3
      <4>2. n \in l[j].lo .. l[j].hi
        <5> DEFINE p == l[j].lo
                   q == l[j].hi
        <5>1. p \in Nat /\ q \in Nat /\ hi = q /\ p <= end + 1
          BY <1>1, <1>2, <1>3, <4>1
        <5> HIDE DEF p, q
        <5>2. n \in p .. q
          BY <3>1, <3>3, <5>1
        <5> QED BY <5>2 DEF p, q
      <4> QED BY <1>3, <4>2 DEF Covered
    <3> QED BY <1>2, <3>1, <3>2, <3>3
  <2> QED BY <2>2, <2>3
<1>6. ASSUME NEW n \in Covered(ToSet(l)) \cup start .. end
      PROVE  n \in Covered(M)
  <2>1. ASSUME n \in lo .. hi
        PROVE  n \in Covered(M)
    BY <1>4, <2>1 DEF Covered
  <2>2. CASE n \in start .. end
    BY <1>2, <2>1, <2>2
  <2>3. CASE n \in Covered(ToSet(l))
    <3>1. PICK it \in ToSet(l) : n \in it.lo .. it.hi
      BY <2>3 DEF Covered
    <3>2. CASE it \in T
      <4>1. PICK j \in a .. a + d : it = l[j]
        BY <3>2
      <4>2. /\ lo <= l[j].lo /\ l[j].hi <= hi /\ lo \in Nat /\ hi \in Nat
            /\ l[j].lo \in Nat /\ l[j].hi \in Nat /\ n \in l[j].lo .. l[j].hi
        BY <1>1, <1>2, <1>3, <3>1, <4>1
      <4>3. n \in lo .. hi
        <5> DEFINE p == l[j].lo
                   q == l[j].hi
        <5> HIDE DEF p, q
        <5>1. lo <= p /\ q <= hi /\ p \in Nat /\ q \in Nat /\ n \in p .. q
          BY <4>2 DEF p, q
        <5> QED BY <4>2, <5>1
      <4> QED BY <2>1, <4>3
    <3>3. CASE it \notin T
      BY <3>1, <3>3 DEF Covered
    <3> QED BY <3>2, <3>3
  <2> QED BY <2>2, <2>3
<1>7. Covered(M) = Covered(ToSet(l)) \cup start .. end
  <2> HIDE DEF M
  <2> QED BY <1>5, <1>6
<1> QED BY <1>7 DEF M, x, T, Exchange

LEMMA CheckIs ==
  ASSUME NEW l \in Seq(Items), Spaced(l), NEW lo \in Nat, NEW hi \in Nat, lo <= hi
  PROVE  /\ CheckSackList(l, lo, hi) <=> Includes(ToSet(l), lo, hi)
         /\ CheckSackList(l, lo, hi) <=> lo .. hi \subseteq Covered(ToSet(l))
<1> DEFINE b == FindBelow(l, lo)
<1>1. /\ Len(l) \in Nat /\ DOMAIN l = 1 .. Len(l)
      /\ \A j \in 1 .. Len(l) : l[j].lo \in Nat /\ l[j].hi \in Nat
  BY Domains, ItemIs
<1>2. b \in 0 .. Len(l) /\ \A i \in 1 .. Len(l) : i <= b <=> l[i].lo <= lo
  BY SpacedRises, FindBelowIs
<1>3. CheckSackList(l, lo, hi) <=> (b # 0 /\ hi <= l[b].hi)
  BY DEF CheckSackList
<1> HIDE DEF b
<1>4. /\ \A j \in 1 .. Len(l) : l[j].lo <= l[j].hi
      /\ \A i, j \in 1 .. Len(l) : i < j => l[i].hi + 2 <= l[j].lo
  BY <1>1 DEF Spaced
<1>5. ASSUME CheckSackList(l, lo, hi)
      PROVE  Includes(ToSet(l), lo, hi)
  <2>1. b \in 1 .. Len(l) /\ b <= b /\ hi <= l[b].hi
    BY <1>2, <1>3, <1>5
  <2>2. l[b].lo <= lo /\ l[b] \in ToSet(l)
    BY <1>1, <1>2, <2>1 DEF ToSet
  <2> QED BY <2>1, <2>2 DEF Includes
<1>6. ASSUME Includes(ToSet(l), lo, hi)
      PROVE  lo .. hi \subseteq Covered(ToSet(l))
  <2>1. PICK it \in ToSet(l) : it.lo <= lo /\ hi <= it.hi
    BY <1>6 DEF Includes
  <2>2. it.lo \in Nat /\ it.hi \in Nat
    BY <1>1, <2>1 DEF ToSet
  <2>3. lo .. hi \subseteq it.lo .. it.hi
    BY <2>1, <2>2
  <2> QED BY <2>1, <2>3 DEF Covered
<1>7. ASSUME lo .. hi \subseteq Covered(ToSet(l))
      PROVE  CheckSackList(l, lo, hi)
  <2>1. ASSUME NEW n \in lo .. hi
        PROVE  \E j \in 1 .. Len(l) : l[j].lo <= n /\ n <= l[j].hi
    <3>1. n \in Covered(ToSet(l))
      BY <1>7
    <3>2. PICK it \in ToSet(l) : n \in it.lo .. it.hi
      BY <3>1 DEF Covered
    <3>3. PICK j \in 1 .. Len(l) : it = l[j]
      BY <1>1, <3>2 DEF ToSet
    <3> QED BY <1>1, <3>2, <3>3
  <2>2. PICK j \in 1 .. Len(l) : l[j].lo <= lo /\ lo <= l[j].hi
    <3>1. lo \in lo .. hi
      OBVIOUS
    <3> QED BY <2>1, <3>1
  <2>3. j <= b /\ b \in 1 .. Len(l)
    BY <1>2, <2>2
  <2>4. l[b].lo <= lo
    BY <1>2, <2>3
  <2>5. j = b
    <3> SUFFICES ASSUME j < b
                 PROVE  FALSE
      BY <2>3
    <3>1. l[j].hi + 2 <= l[b].lo
      BY <1>4, <2>2, <2>3
    <3> QED BY <1>1, <2>2, <2>3, <2>4, <3>1
  <2>6. hi <= l[b].hi
    <3> SUFFICES ASSUME ~(hi <= l[b].hi)
                 PROVE  FALSE
      OBVIOUS
    <3>1. l[b].hi \in Nat /\ l[b].hi + 1 \in lo .. hi
      BY <1>1, <2>2, <2>3, <2>5
    <3>2. PICK m \in 1 .. Len(l) : l[m].lo <= l[b].hi + 1 /\ l[b].hi + 1 <= l[m].hi
      BY <2>1, <3>1
    <3>3. m # b
      BY <3>1, <3>2
    <3>4. CASE m < b
      <4>1. l[m].hi + 2 <= l[b].lo /\ l[b].lo <= l[b].hi
        BY <1>4, <2>3, <3>4
      <4> QED BY <1>1, <2>3, <3>1, <3>2, <4>1
    <3>5. CASE b < m
      <4>1. l[b].hi + 2 <= l[m].lo
        BY <1>4, <2>3, <3>5
      <4> QED BY <1>1, <3>1, <3>2, <4>1
    <3> QED BY <2>3, <3>3, <3>4, <3>5
  <2> QED BY <1>3, <2>3, <2>6
<1> QED BY <1>5, <1>6, <1>7

(* Item i of l is the first one that start .. end meets, and lo is where   *)
(* they start together.                                                    *)
Starts(l, i, start, end, lo) ==
  /\ lo \in Nat /\ lo <= start /\ lo <= l[i].lo
  /\ lo = start \/ lo = l[i].lo
  /\ l[i].lo <= end + 1 /\ start <= l[i].hi + 1
  /\ i > 1 => l[i - 1].hi + 1 < lo

LEMMA RunSpans ==
  ASSUME NEW l \in Seq(Items), Spaced(l), NEW i \in 1 .. Len(l), NEW d \in 0 .. Len(l) - i,
         NEW start \in Nat, NEW end \in Nat, start <= end, NEW lo, NEW hi \in Nat,
         Reaches(l, i, d, end, hi), Starts(l, i, start, end, lo)
  PROVE  Spans(l, i, d, start, end, lo, hi)
<1>1. /\ lo \in Nat /\ lo <= start /\ lo <= l[i].lo
      /\ lo = start \/ lo = l[i].lo
      /\ l[i].lo <= end + 1 /\ start <= l[i].hi + 1
      /\ i > 1 => l[i - 1].hi + 1 < lo
  BY DEF Starts
<1>2. /\ Len(l) \in Nat /\ DOMAIN l = 1 .. Len(l)
      /\ \A j \in 1 .. Len(l) : l[j].lo \in Nat /\ l[j].hi \in Nat
  BY Domains, ItemIs
<1>3. /\ hi = end \/ hi = l[i + d].hi
      /\ end <= hi /\ l[i + d].hi <= hi
      /\ d > 0 => l[i + d].lo <= end + 1
      /\ i + d < Len(l) => hi + 1 < l[i + d + 1].lo
  BY DEF Reaches
<1>4. /\ \A j \in 1 .. Len(l) : l[j].lo <= l[j].hi
      /\ \A m, j \in 1 .. Len(l) : m < j => l[m].hi + 2 <= l[j].lo
  BY <1>2 DEF Spaced
<1>5. i \in 1 .. Len(l) + 1 /\ d \in -1 .. Len(l) - i /\ i + d \in 1 .. Len(l) /\ i + d \in i .. i + d
      /\ i \in i .. i + d
  BY <1>2
<1>6. Clear(l, i, d, lo, hi)
  BY <1>1, <1>3, <1>5, NeighboursClear
<1>7. ASSUME NEW j \in i .. i + d
      PROVE  /\ l[j].lo <= end + 1 /\ start <= l[j].hi + 1
             /\ lo <= l[j].lo /\ l[j].hi <= hi
  <2>1. j \in 1 .. Len(l) /\ i <= j /\ j <= i + d
    BY <1>2
  <2>2. l[i].lo <= l[j].lo /\ l[i].hi <= l[j].hi
    BY <2>1, SpacedUp
  <2>3. l[j].lo <= l[i + d].lo /\ l[j].hi <= l[i + d].hi
    BY <1>5, <2>1, SpacedUp
  <2>4. l[j].lo <= end + 1
    <3>1. CASE d = 0
      <4>1. j = i
        BY <2>1, <3>1
      <4> QED BY <1>1, <4>1
    <3>2. CASE d # 0
      <4>1. d > 0
        BY <3>2
      <4> QED BY <1>2, <1>3, <1>5, <2>1, <2>3, <4>1
    <3> QED BY <3>1, <3>2
  <2>5. l[j].hi <= hi
    BY <1>2, <1>3, <1>5, <2>1, <2>3
  <2>6. start <= l[j].hi + 1 /\ lo <= l[j].lo
    <3> DEFINE p == l[i].lo
               q == l[i].hi
               r == l[j].lo
               u == l[j].hi
    <3>1. p \in Nat /\ q \in Nat /\ r \in Nat /\ u \in Nat /\ p <= r /\ q <= u
          /\ lo <= p /\ start <= q + 1 /\ lo \in Nat
      BY <1>1, <1>2, <2>1, <2>2
    <3> HIDE DEF p, q, r, u
    <3>2. start <= u + 1 /\ lo <= r
      BY <3>1
    <3> QED BY <3>2 DEF r, u
  <2> QED BY <2>4, <2>5, <2>6
<1>8. lo = start \/ \E j \in i .. i + d : lo = l[j].lo
  BY <1>1, <1>5
<1>9. hi = end \/ \E j \in i .. i + d : hi = l[j].hi
  BY <1>3, <1>5
<1> QED BY <1>1, <1>3, <1>5, <1>6, <1>7, <1>8, <1>9 DEF Spans

(* The three ways in which an interval that is not known enters the list.  *)
LEMMA ExtendMerges ==
  ASSUME NEW s, Sound(s), Spaced(s.list), NEW start \in Nat, NEW end \in Nat, start <= end,
         NEW i \in 1 .. Len(s.list), s.list[i].lo <= start, start <= s.list[i].hi + 1,
         s.list[i].hi < end
  PROVE  \E a, d, lo, hi : /\ Spans(s.list, a, d, start, end, lo, hi)
                           /\ Merged(ExtendItem(s, i, end), s, a, d, lo, hi)
<1> DEFINE l == s.list
<1>1. /\ l \in Seq(Items) /\ Len(l) \in Nat /\ DOMAIN l = 1 .. Len(l)
      /\ \A j \in 1 .. Len(l) : l[j].lo \in Nat /\ l[j].hi \in Nat
  BY SoundIs
<1>2. PICK d \in 0 .. Len(l) - i, hi \in Nat :
        /\ Merged(ExtendItem(s, i, end), s, i, d, l[i].lo, hi)
        /\ Reaches(l, i, d, end, hi)
  <2>1. ~(l[i].hi >= end)
    BY <1>1
  <2> QED BY <2>1, ExtendItemIs
<1>3. i > 1 => l[i - 1].hi + 1 < l[i].lo
  <2> SUFFICES ASSUME i > 1
               PROVE  l[i - 1].hi + 1 < l[i].lo
    OBVIOUS
  <2>1. i - 1 \in 1 .. Len(l) /\ i - 1 < i
    BY <1>1
  <2> QED BY <1>1, <2>1, SpacedIs
<1>4. l[i].lo \in Nat /\ l[i].lo <= end + 1 /\ l[i].lo <= l[i].lo
  BY <1>1
<1>5. Spans(l, i, d, start, end, l[i].lo, hi)
  <2> HIDE DEF l
  <2>1. Spaced(l) /\ start <= l[i].hi + 1 /\ l[i].lo <= start /\ i \in 1 .. Len(l)
    BY DEF l
  <2>2. Starts(l, i, start, end, l[i].lo)
    BY <1>3, <1>4, <2>1 DEF Starts
  <2> QED BY <1>1, <1>2, <2>1, <2>2, RunSpans
<1> QED BY <1>2, <1>5

LEMMA InsertMerges ==
  ASSUME NEW s, Sound(s), Spaced(s.list), NEW start \in Nat, NEW end \in Nat, start <= end,
         NEW i \in 1 .. Len(s.list) + 1, i > 1 => s.list[i - 1].hi + 1 < start,
         i <= Len(s.list) => s.list[i].lo > start /\ s.list[i].lo - 1 > end
  PROVE  \E a, d, lo, hi : /\ Spans(s.list, a, d, start, end, lo, hi)
                           /\ Merged(InsertItem(s, i, start, end), s, a, d, lo, hi)
<1> DEFINE l == s.list
           t == InsertItem(s, i, start, end)
<1>1. /\ l \in Seq(Items) /\ Len(l) \in Nat /\ DOMAIN l = 1 .. Len(l)
      /\ \A j \in 1 .. Len(l) : l[j].lo \in Nat /\ l[j].hi \in Nat
      /\ Rising(l)
  BY SoundIs
<1>2. -1 \in -1 .. Len(l) - i /\ i + (-1) = i - 1 /\ i + (-1) + 1 = i
  BY <1>1
<1>3. Clear(l, i, -1, start, end)
  <2>1. i + (-1) < Len(l) => end + 1 < l[i + (-1) + 1].lo
    <3> SUFFICES ASSUME i + (-1) < Len(l)
                 PROVE  end + 1 < l[i].lo
      BY <1>2
    <3>1. i <= Len(l) /\ i \in 1 .. Len(l)
      BY <1>1
    <3> QED BY <1>1, <3>1
  <2> QED BY <1>1, <1>2, <2>1, NeighboursClear
<1>4. i .. i + (-1) = {}
  BY <1>2
<1>5. Spans(l, i, -1, start, end, start, end)
  BY <1>2, <1>3, <1>4 DEF Spans
<1>6. \A j \in 1 .. Len(l) : IF j < i THEN l[j].lo < start ELSE start < l[j].lo
  <2> SUFFICES ASSUME NEW j \in 1 .. Len(l)
               PROVE  IF j < i THEN l[j].lo < start ELSE start < l[j].lo
    OBVIOUS
  <2>1. CASE j < i
    <3>1. j \in 1 .. i - 1
      BY <1>1, <2>1
    <3>2. l[j].hi + 2 <= start
      BY <1>3, <3>1 DEF Clear
    <3>3. l[j].lo <= l[j].hi
      BY <1>1 DEF Spaced
    <3> QED BY <1>1, <2>1, <3>2, <3>3
  <2>2. CASE ~(j < i)
    <3>1. j \in i + (-1) + 1 .. Len(l)
      BY <1>2, <2>2
    <3>2. end + 2 <= l[j].lo
      BY <1>3, <3>1 DEF Clear
    <3> QED BY <1>1, <2>2, <3>2
  <2> QED BY <2>1, <2>2
<1>7. Sound(t) /\ t.list = InsertAt(l, i, NewItem(start, end))
  <2> HIDE DEF l
  <2> QED BY <1>6, InsertSound DEF l
<1>8. NewItem(start, end) \in Items
  BY NewItemIs
<1>9. /\ Len(t.list) = Len(l) + 1 /\ t.list[i] = NewItem(start, end)
      /\ \A j \in 1 .. Len(l) + 1 : j < i => t.list[j] = l[j]
      /\ \A j \in 1 .. Len(l) + 1 : j > i => t.list[j] = l[j - 1]
  <2>1. l \in Seq(Items) /\ i \in 1 .. Len(l) + 1
    BY <1>1
  <2> DEFINE x == NewItem(start, end)
  <2>2. x \in Items /\ t.list = InsertAt(l, i, x)
    BY <1>7, <1>8
  <2> HIDE DEF l, t, x
  <2>3. Len(InsertAt(l, i, x)) = Len(l) + 1
    BY <2>1, <2>2, InsertIs
  <2>4. InsertAt(l, i, x)[i] = x
    BY <2>1, <2>2, InsertIs
  <2>5. \A j \in 1 .. Len(l) + 1 : j < i => InsertAt(l, i, x)[j] = l[j]
    BY <2>1, <2>2, InsertIs
  <2>6. \A j \in 1 .. Len(l) + 1 : j > i => InsertAt(l, i, x)[j] = l[j - 1]
    BY <2>1, <2>2, InsertIs
  <2> QED BY <2>2, <2>3, <2>4, <2>5, <2>6 DEF x
<1> HIDE DEF t
<1>10. Merged(t, s, i, -1, start, end)
  <2>1. \A j \in 1 .. i - 1 : t.list[j] = l[j]
    BY <1>1, <1>9
  <2>2. \A j \in i + 1 .. Len(l) - (-1) : t.list[j] = l[j + (-1)]
    <3> SUFFICES ASSUME NEW j \in i + 1 .. Len(l) - (-1)
                 PROVE  t.list[j] = l[j + (-1)]
      OBVIOUS
    <3>1. j \in 1 .. Len(l) + 1 /\ j > i /\ j + (-1) = j - 1
      BY <1>1
    <3> QED BY <1>9, <3>1
  <2>3. Len(t.list) = Len(l) - (-1)
    BY <1>1, <1>9
  <2> QED BY <1>7, <1>9, <2>1, <2>2, <2>3 DEF Merged
<1> QED BY <1>5, <1>10 DEF t

LEMMA LowerMerges ==
  ASSUME NEW s, Sound(s), Spaced(s.list), NEW start \in Nat, NEW end \in Nat, start <= end,
         NEW i \in 1 .. Len(s.list), i > 1 => s.list[i - 1].hi + 1 < start,
         start < s.list[i].lo, s.list[i].lo - 1 <= end
  PROVE  LET t == ExtendItem(ResetItem(s, i, start, s.list[i].hi), i, end)
         IN  \E a, d, lo, hi : /\ Spans(s.list, a, d, start, end, lo, hi)
                               /\ Merged(t, s, a, d, lo, hi)
<1> DEFINE l == s.list
           top == l[i].hi
           x == NewItem(start, top)
           u == ResetItem(s, i, start, top)
           t == ExtendItem(u, i, end)
<1>1. /\ l \in Seq(Items) /\ Len(l) \in Nat /\ DOMAIN l = 1 .. Len(l)
      /\ \A j \in 1 .. Len(l) : l[j].lo \in Nat /\ l[j].hi \in Nat
      /\ Rising(l)
  BY SoundIs
<1>2. l[i].lo \in Nat /\ top \in Nat /\ l[i].lo <= top
  BY <1>1 DEF Spaced
<1>3. 0 \in -1 .. Len(l) - i /\ i + 0 = i /\ i + 0 + 1 = i + 1 /\ 0 \in 0 .. Len(l) - i
      /\ i \in 1 .. Len(l) + 1 /\ Len(l) - 0 = Len(l)
  BY <1>1
<1>4. Clear(l, i, 0, start, top)
  <2>1. i + 0 < Len(l) => top + 1 < l[i + 0 + 1].lo
    <3> SUFFICES ASSUME i < Len(l)
                 PROVE  top + 1 < l[i + 1].lo
      BY <1>3
    <3>1. i + 1 \in 1 .. Len(l) /\ i < i + 1
      BY <1>1
    <3> QED BY <1>1, <3>1, SpacedIs
  <2> HIDE DEF top
  <2> QED BY <1>1, <1>2, <1>3, <2>1, NeighboursClear
<1>5. Fits(l, i, start)
  <2> SUFFICES ASSUME NEW j \in 1 .. Len(l)
               PROVE  (j < i => l[j].lo < start) /\ (j > i => start < l[j].lo)
    BY DEF Fits
  <2>1. ASSUME j < i
        PROVE  l[j].lo < start
    <3>1. j \in 1 .. i - 1
      BY <1>1, <2>1
    <3>2. l[j].hi + 2 <= start
      BY <1>4, <3>1 DEF Clear
    <3>3. l[j].lo <= l[j].hi
      BY <1>1 DEF Spaced
    <3> DEFINE p == l[j].lo
               q == l[j].hi
    <3>4. p \in Nat /\ q \in Nat /\ q + 2 <= start /\ p <= q
      BY <1>1, <3>2, <3>3
    <3> HIDE DEF p, q
    <3>5. p < start
      BY <3>4
    <3> QED BY <3>5 DEF p
  <2>2. ASSUME j > i
        PROVE  start < l[j].lo
    <3>1. l[i].lo < l[j].lo
      BY <1>1, <2>2 DEF Rising
    <3> QED BY <1>1, <1>2, <3>1
  <2> QED BY <2>1, <2>2
<1>6. Sound(u) /\ u.list = [l EXCEPT ![i] = x]
  <2> HIDE DEF l, top
  <2> QED BY <1>2, <1>5, ResetSound DEF l
<1> HIDE DEF u
<1>7. Len(u.list) = Len(l) /\ u.list[i] = x /\ \A j \in 1 .. Len(l) : j # i => u.list[j] = l[j]
  <2> HIDE DEF x
  <2> QED BY <1>1, <1>6
<1>8. x.lo = start /\ x.hi = top
  BY <1>2, NewItemIs
<1>9. Merged(u, s, i, 0, start, top)
  <2>1. \A j \in 1 .. i - 1 : u.list[j] = l[j]
    <3> SUFFICES ASSUME NEW j \in 1 .. i - 1
                 PROVE  u.list[j] = l[j]
      OBVIOUS
    <3>1. j \in 1 .. Len(l) /\ j # i
      <4> HIDE DEF l
      <4>1. Len(l) \in Nat /\ i \in 1 .. Len(l)
        BY <1>1 DEF l
      <4> QED BY <4>1
    <3> QED BY <1>7, <3>1
  <2>2. \A j \in i + 1 .. Len(l) - 0 : u.list[j] = l[j + 0]
    BY <1>1, <1>7
  <2> HIDE DEF top
  <2> QED BY <1>3, <1>6, <1>7, <2>1, <2>2 DEF Merged, x
<1>10. Spaced(u.list)
  <2>1. start <= top
    BY <1>2
  <2> HIDE DEF top, l, x
  <2> QED BY <1>2, <1>3, <1>4, <1>9, <2>1, MergedIs DEF l
<1> HIDE DEF x
<1>11. ASSUME NEW d \in 0 .. Len(l) - i, NEW hi \in Nat, Reaches(l, i, d, end, hi)
       PROVE  Spans(l, i, d, start, end, start, hi)
  <2>1. start <= start /\ start <= l[i].lo /\ l[i].lo <= end + 1 /\ start <= l[i].hi + 1
    <3> DEFINE p == l[i].lo
               q == l[i].hi
    <3>1. p \in Nat /\ q \in Nat /\ p <= q /\ start < p /\ p - 1 <= end
      BY <1>2
    <3> HIDE DEF p, q
    <3>2. start <= start /\ start <= p /\ p <= end + 1 /\ start <= q + 1
      BY <3>1
    <3> QED BY <3>2 DEF p, q
  <2>2. Spaced(l) /\ (i > 1 => l[i - 1].hi + 1 < start) /\ i \in 1 .. Len(l)
    OBVIOUS
  <2> HIDE DEF l, top
  <2>3. Starts(l, i, start, end, start)
    BY <2>1, <2>2 DEF Starts
  <2> QED BY <1>1, <1>11, <2>2, <2>3, RunSpans
<1>12. CASE u.list[i].hi >= end
  <2>1. t = u
    <3>1. u.list[i].hi \in Nat /\ i \in 1 .. Len(u.list)
      BY <1>2, <1>7, <1>8
    <3>2. ~(u.list[i].hi < end)
      BY <1>12, <3>1
    <3> HIDE DEF l, top
    <3> QED BY <1>6, <1>10, <3>1, <3>2, ExtendItemIs
  <2>2. Reaches(l, i, 0, end, top)
    <3>1. end <= top /\ top <= top /\ top = l[i + 0].hi /\ ~(0 > 0)
      BY <1>2, <1>3, <1>7, <1>8, <1>12
    <3>2. i + 0 < Len(l) => top + 1 < l[i + 0 + 1].lo
      <4> SUFFICES ASSUME i < Len(l)
                   PROVE  top + 1 < l[i + 1].lo
        BY <1>3
      <4>1. i + 1 \in i + 0 + 1 .. Len(l) /\ i + 1 \in 1 .. Len(l)
        BY <1>1
      <4>2. i < i + 1
        BY <1>1
      <4> QED BY <1>1, <4>1, <4>2, SpacedIs
    <3> HIDE DEF top
    <3> QED BY <3>1, <3>2 DEF Reaches
  <2>3. Spans(l, i, 0, start, end, start, top)
    BY <1>2, <1>3, <1>11, <2>2
  <2> QED BY <1>9, <2>1, <2>3 DEF u
<1>13. CASE ~(u.list[i].hi >= end)
  <2>1. PICK d \in 0 .. Len(u.list) - i, hi \in Nat :
          /\ Merged(t, u, i, d, u.list[i].lo, hi)
          /\ Reaches(u.list, i, d, end, hi)
    BY <1>6, <1>7, <1>10, <1>13, ExtendItemIs
  <2>2. d \in 0 .. Len(l) - i /\ u.list[i].lo = start
    BY <1>7, <1>8, <2>1
  <2>3. Reaches(l, i, d, end, hi)
    <3>1. \A j \in i .. Len(l) : u.list[j].hi = l[j].hi
      <4> SUFFICES ASSUME NEW j \in i .. Len(l)
                   PROVE  u.list[j].hi = l[j].hi
        OBVIOUS
      <4>1. CASE j = i
        BY <1>7, <1>8, <4>1
      <4>2. CASE j # i
        <5>1. j \in 1 .. Len(l)
          BY <1>1
        <5> QED BY <1>7, <4>2, <5>1
      <4> QED BY <4>1, <4>2
    <3>2. \A j \in i + 1 .. Len(l) : u.list[j].lo = l[j].lo
      BY <1>1, <1>7, <1>8
    <3>3. /\ hi = end \/ hi = u.list[i + d].hi
          /\ end <= hi /\ u.list[i + d].hi <= hi
          /\ d > 0 => u.list[i + d].lo <= end + 1
          /\ i + d < Len(l) => hi + 1 < u.list[i + d + 1].lo
      BY <1>7, <2>1 DEF Reaches
    <3>4. /\ i + d \in i .. Len(l) /\ (d > 0 => i + d \in i + 1 .. Len(l))
          /\ (i + d < Len(l) => i + d + 1 \in i + 1 .. Len(l))
      <4> DEFINE n == Len(l)
      <4>1. n \in Nat /\ i \in 1 .. n /\ d \in 0 .. n - i
        BY <1>1, <2>2
      <4> HIDE DEF n
      <4>2. i + d \in i .. n
        BY <4>1
      <4>3. d > 0 => i + d \in i + 1 .. n
        BY <4>1
      <4>4. i + d < n => i + d + 1 \in i + 1 .. n
        BY <4>1
      <4> QED BY <4>2, <4>3, <4>4 DEF n
    <3> QED BY <3>1, <3>2, <3>3, <3>4 DEF Reaches
  <2>4. Spans(l, i, d, start, end, start, hi)
    BY <1>11, <2>2, <2>3
  <2>5. Merged(t, s, i, d, start, hi)
    <3>1. /\ Sound(t) /\ Len(t.list) = Len(l) - d
          /\ t.list[i] = NewItem(start, hi)
          /\ \A j \in 1 .. i - 1 : t.list[j] = u.list[j]
          /\ \A j \in i + 1 .. Len(l) - d : t.list[j] = u.list[j + d]
      BY <1>7, <2>1, <2>2 DEF Merged
    <3>2. \A j \in 1 .. i - 1 : u.list[j] = l[j]
      BY <1>1, <1>7
    <3>3. \A j \in i + 1 .. Len(l) - d : u.list[j + d] = l[j + d]
      BY <1>1, <1>7, <2>2
    <3> HIDE DEF t
    <3> QED BY <3>1, <3>2, <3>3 DEF Merged
  <2> QED BY <2>4, <2>5 DEF u
<1> QED BY <1>12, <1>13

LEMMA UpdateSackListIs ==
  ASSUME NEW s, Sound(s), Spaced(s.list), NEW start \in Nat, NEW end \in Nat, start <= end
  PROVE  \/ CheckSackList(s.list, start, end) /\ UpdateSackList(s, start, end) = s
         \/ /\ ~CheckSackList(s.list, start, end)
            /\ \E a, d, lo, hi : /\ Spans(s.list, a, d, start, end, lo, hi)
                                 /\ Merged(UpdateSackList(s, start, end), s, a, d, lo, hi)
<1> DEFINE l == s.list
           prev == FindBelow(l, start)
           next == prev + 1
           t == UpdateSackList(s, start, end)
<1>1. /\ l \in Seq(Items) /\ Len(l) \in Nat /\ DOMAIN l = 1 .. Len(l)
      /\ \A j \in 1 .. Len(l) : l[j].lo \in Nat /\ l[j].hi \in Nat
      /\ Rising(l)
  BY SoundIs
<1>2. prev \in 0 .. Len(l) /\ \A i \in 1 .. Len(l) : i <= prev <=> l[i].lo <= start
  <2> HIDE DEF l
  <2> QED BY <1>1, FindBelowIs
<1>3. CheckSackList(l, start, end) <=> (prev # 0 /\ end <= l[prev].hi)
  BY DEF CheckSackList
<1>4. t = IF prev # 0 /\ l[prev].hi + 1 >= start THEN ExtendItem(s, prev, end)
          ELSE IF next > Len(l) \/ l[next].lo - 1 > end
          THEN InsertItem(s, next, start, end)
          ELSE ExtendItem(ResetItem(s, next, start, l[next].hi), next, end)
  BY DEF UpdateSackList
<1> HIDE DEF prev
<1>5. CASE prev # 0 /\ l[prev].hi + 1 >= start
  <2>1. prev \in 1 .. Len(l) /\ l[prev].lo <= start /\ start <= l[prev].hi + 1 /\ l[prev].hi \in Nat
    BY <1>1, <1>2, <1>5
  <2>2. t = ExtendItem(s, prev, end)
    BY <1>4, <1>5
  <2>3. CASE l[prev].hi >= end
    <3>1. t = s
      BY <2>1, <2>2, <2>3, ExtendItemIs
    <3>2. CheckSackList(l, start, end)
      BY <1>3, <1>5, <2>1, <2>3
    <3> QED BY <3>1, <3>2
  <2>4. CASE ~(l[prev].hi >= end)
    <3>1. l[prev].hi < end /\ ~CheckSackList(l, start, end)
      BY <1>3, <2>1, <2>4
    <3> HIDE DEF t
    <3>2. \E a, d, lo, hi : Spans(l, a, d, start, end, lo, hi) /\ Merged(t, s, a, d, lo, hi)
      BY <2>1, <2>2, <3>1, ExtendMerges
    <3> QED BY <3>1, <3>2 DEF t
  <2> QED BY <2>3, <2>4
<1>6. CASE ~(prev # 0 /\ l[prev].hi + 1 >= start)
  <2>1. next \in 1 .. Len(l) + 1 /\ next - 1 = prev
    BY <1>1, <1>2
  <2>2. next > 1 => l[next - 1].hi + 1 < start
    <3> SUFFICES ASSUME next > 1
                 PROVE  l[prev].hi + 1 < start
      BY <2>1
    <3>1. prev \in 1 .. Len(l) /\ l[prev].hi \in Nat
      BY <1>1, <1>2
    <3> QED BY <1>6, <3>1
  <2>3. ~CheckSackList(l, start, end)
    <3> SUFFICES ASSUME prev # 0
                 PROVE  ~(end <= l[prev].hi)
      BY <1>3
    <3>1. prev \in 1 .. Len(l) /\ l[prev].hi \in Nat
      BY <1>1, <1>2
    <3> QED BY <1>6, <3>1
  <2>4. next <= Len(l) => l[next].lo > start
    <3> SUFFICES ASSUME next <= Len(l)
                 PROVE  l[next].lo > start
      OBVIOUS
    <3>1. next \in 1 .. Len(l) /\ ~(next <= prev)
      BY <1>1, <1>2
    <3> QED BY <1>1, <1>2, <3>1
  <2>5. CASE next > Len(l) \/ l[next].lo - 1 > end
    <3>1. t = InsertItem(s, next, start, end)
      BY <1>4, <1>6, <2>5
    <3>2. next <= Len(l) => l[next].lo > start /\ l[next].lo - 1 > end
      BY <1>1, <2>1, <2>4, <2>5
    <3> HIDE DEF t, next
    <3>3. \E a, d, lo, hi : Spans(l, a, d, start, end, lo, hi) /\ Merged(t, s, a, d, lo, hi)
      BY <2>1, <2>2, <3>1, <3>2, InsertMerges
    <3> QED BY <2>3, <3>3 DEF t
  <2>6. CASE ~(next > Len(l) \/ l[next].lo - 1 > end)
    <3>1. t = ExtendItem(ResetItem(s, next, start, l[next].hi), next, end)
      BY <1>4, <1>6, <2>6
    <3>2. next \in 1 .. Len(l) /\ start < l[next].lo /\ l[next].lo - 1 <= end
      <4>1. next \in 1 .. Len(l)
        BY <1>1, <2>1, <2>6
      <4>2. l[next].lo \in Nat /\ l[next].lo > start
        BY <1>1, <2>4, <4>1
      <4> HIDE DEF next, t
      <4> QED BY <2>6, <4>1, <4>2
    <3> HIDE DEF t, next
    <3>3. \E a, d, lo, hi : Spans(l, a, d, start, end, lo, hi) /\ Merged(t, s, a, d, lo, hi)
      BY <2>2, <3>1, <3>2, LowerMerges
    <3> QED BY <2>3, <3>3 DEF t
  <2> QED BY <2>5, <2>6
<1> QED BY <1>5, <1>6

(* What an interval does to the list.                                      *)
LEMMA UpdateUnion ==
  ASSUME NEW s, Sound(s), Spaced(s.list), NEW start \in Nat, NEW end \in Nat, start <= end
  PROVE  LET t == UpdateSackList(s, start, end)
         IN  /\ Sound(t) /\ Spaced(t.list)
             /\ ToSet(t.list) = Update(ToSet(s.list), start, end)
             /\ Covered(ToSet(t.list)) = Covered(ToSet(s.list)) \cup start .. end
             /\ (t = s) <=> CheckSackList(s.list, start, end)
<1> DEFINE l == s.list
           t == UpdateSackList(s, start, end)
           L == ToSet(l)
<1>1. l \in Seq(Items)
  BY SoundIs
<1>2. /\ CheckSackList(l, start, end) <=> Includes(L, start, end)
      /\ CheckSackList(l, start, end) <=> start .. end \subseteq Covered(L)
  BY <1>1, CheckIs
<1>3. CASE CheckSackList(l, start, end)
  <2>1. t = s
    BY <1>3, UpdateSackListIs
  <2>2. Update(L, start, end) = L
    BY <1>2, <1>3 DEF Update
  <2>3. Covered(L) = Covered(L) \cup start .. end
    BY <1>2, <1>3
  <2> HIDE DEF t
  <2> QED BY <1>3, <2>1, <2>2, <2>3 DEF t
<1>4. CASE ~CheckSackList(l, start, end)
  <2>1. PICK a, d, lo, hi : Spans(l, a, d, start, end, lo, hi) /\ Merged(t, s, a, d, lo, hi)
    BY <1>4, UpdateSackListIs
  <2> HIDE DEF t, L
  <2>2. /\ a \in 1 .. Len(l) + 1 /\ d \in -1 .. Len(l) - a /\ lo \in Nat /\ hi \in Nat
        /\ lo <= start /\ start <= end /\ end <= hi /\ Clear(l, a, d, lo, hi)
    BY <2>1 DEF Spans
  <2>3. lo <= hi
    BY <2>2
  <2>4. /\ Spaced(t.list)
        /\ ToSet(t.list) = Exchange(l, a, d, lo, hi)
    <3>1. Sound(s) /\ Spaced(l)
      OBVIOUS
    <3>2. Spaced(t.list)
      BY <2>1, <2>2, <2>3, <3>1, MergedIs
    <3>3. ToSet(t.list) = Exchange(l, a, d, lo, hi)
      BY <2>1, <2>2, <2>3, <3>1, MergedIs
    <3> QED BY <3>2, <3>3
  <2>5. Update(L, start, end) = Exchange(l, a, d, lo, hi)
    <3>1. ~Includes(ToSet(l), start, end)
      BY <1>2, <1>4 DEF L
    <3> HIDE DEF l
    <3> QED BY <1>1, <2>1, <3>1, UpdateIs DEF L
  <2>6. Covered(Exchange(l, a, d, lo, hi)) = Covered(L) \cup start .. end
    <3> HIDE DEF l
    <3> QED BY <1>1, <2>1, MergingCovers DEF L
  <2>7. t # s
    <3> SUFFICES ASSUME t = s
                 PROVE  FALSE
      OBVIOUS
    <3>1. Covered(L) = Covered(L) \cup start .. end
      BY <2>4, <2>6 DEF L
    <3>2. start .. end \subseteq Covered(L)
      BY <3>1
    <3> QED BY <1>2, <1>4, <3>2 DEF L
  <2>8. Sound(t)
    BY <2>1 DEF Merged
  <2>9. ToSet(t.list) = Update(L, start, end)
    BY <2>4, <2>5
  <2>10. Covered(ToSet(t.list)) = Covered(L) \cup start .. end
    BY <2>4, <2>6
  <2> QED BY <1>4, <2>4, <2>7, <2>8, <2>9, <2>10 DEF t, L
<1> QED BY <1>3, <1>4

LEMMA SpacedIsWellFormed ==
  ASSUME NEW l \in Seq(Items), Spaced(l)
  PROVE  ToSet(l) \in SUBSET Items /\ WellFormed(ToSet(l))
<1>1. ToSet(l) \subseteq Items /\ \A x \in ToSet(l) : \E i \in 1 .. Len(l) : x = l[i]
  BY AllMembers
<1>2. ASSUME NEW x \in ToSet(l)
      PROVE  x.lo <= x.hi
  <2>1. PICK i \in 1 .. Len(l) : x = l[i]
    BY <1>1
  <2> QED BY <2>1, Domains DEF Spaced
<1>3. ASSUME NEW x \in ToSet(l), NEW y \in ToSet(l), x # y
      PROVE  x.hi + 1 < y.lo \/ y.hi + 1 < x.lo
  <2>1. PICK i \in 1 .. Len(l) : x = l[i]
    BY <1>1
  <2>2. PICK j \in 1 .. Len(l) : y = l[j]
    BY <1>1
  <2>3. i # j
    BY <1>3, <2>1, <2>2
  <2>4. CASE i < j
    BY <2>1, <2>2, <2>4, SpacedIs
  <2>5. CASE j < i
    BY <2>1, <2>2, <2>5, SpacedIs
  <2> QED BY <2>3, <2>4, <2>5, Domains
<1> QED BY <1>1, <1>2, <1>3 DEF WellFormed, Separated

(* For one number, merging is what RecordOne says.                         *)
LEMMA RecordIsUpdate ==
  ASSUME NEW L \in SUBSET Items, WellFormed(L), NEW pn \in Nat, pn \notin Covered(L)
  PROVE  Update(L, pn, pn) = RecordOne(L, pn)
<1> DEFINE below == {it \in L : it.hi + 1 = pn}
           above == {it \in L : it.lo = pn + 1}
           T == below \cup above
           A == {pn} \cup {it.lo : it \in T}
           B == {pn} \cup {it.hi : it \in T}
<1>1. \A it \in L : it.lo \in Nat /\ it.hi \in Nat /\ it.lo <= it.hi
  BY ItemIs DEF WellFormed
<1>2. \A it \in L : ~(it.lo <= pn /\ pn <= it.hi)
  <2> SUFFICES ASSUME NEW it \in L, it.lo <= pn /\ pn <= it.hi
               PROVE  FALSE
    OBVIOUS
  <2>1. pn \in it.lo .. it.hi
    BY <1>1
  <2> QED BY <2>1 DEF Covered
<1>3. ~AlreadyReceived(L, pn) /\ ~Includes(L, pn, pn)
  BY <1>2 DEF AlreadyReceived, Includes
<1>4. Touching(L, pn, pn) = T
  <2>1. \A it \in L : (it.lo <= pn + 1 /\ pn <= it.hi + 1) <=> (it.hi + 1 = pn \/ it.lo = pn + 1)
    <3> SUFFICES ASSUME NEW it \in L
                 PROVE  (it.lo <= pn + 1 /\ pn <= it.hi + 1) <=> (it.hi + 1 = pn \/ it.lo = pn + 1)
      OBVIOUS
    <3> DEFINE p == it.lo
               q == it.hi
    <3>1. p \in Nat /\ q \in Nat /\ p <= q /\ ~(p <= pn /\ pn <= q)
      BY <1>1, <1>2
    <3> HIDE DEF p, q
    <3>2. (p <= pn + 1 /\ pn <= q + 1) <=> (q + 1 = pn \/ p = pn + 1)
      BY <3>1
    <3> QED BY <3>2 DEF p, q
  <2> QED BY <2>1 DEF Touching
<1>5. PICK lo, hi \in Nat :
        /\ RecordOne(L, pn) = (L \ (below \cup above)) \cup {NewItem(lo, hi)}
        /\ \/ below = {} /\ lo = pn
           \/ \E b \in below : below = {b} /\ lo = b.lo
        /\ \/ above = {} /\ hi = pn
           \/ \E a \in above : above = {a} /\ hi = a.hi
  BY <1>3, RecordOneBounds
<1>6. A \in SUBSET Nat /\ lo \in A /\ \A n \in A : lo <= n
  <2>1. \A it \in below : it.lo <= pn /\ lo = it.lo
    BY <1>1, <1>5
  <2>2. \A it \in above : pn <= it.lo
    OBVIOUS
  <2>3. lo = pn \/ \E it \in below : lo = it.lo
    BY <1>5
  <2>4. lo <= pn
    BY <2>1, <2>3
  <2>5. A \in SUBSET Nat
    BY <1>1
  <2>6. lo \in A
    BY <2>3
  <2>7. \A it \in T : lo <= it.lo
    BY <1>1, <2>1, <2>2, <2>4
  <2> HIDE DEF T
  <2> QED BY <2>4, <2>5, <2>6, <2>7
<1>7. B \in SUBSET Nat /\ hi \in B /\ \A n \in B : n <= hi
  <2>1. \A it \in above : pn <= it.hi /\ hi = it.hi
    BY <1>1, <1>5
  <2>2. \A it \in below : it.hi <= pn
    BY <1>1
  <2>3. hi = pn \/ \E it \in above : hi = it.hi
    BY <1>5
  <2>4. pn <= hi
    BY <2>1, <2>3
  <2>5. B \in SUBSET Nat
    BY <1>1
  <2>6. hi \in B
    BY <2>3
  <2>7. \A it \in T : it.hi <= hi
    BY <1>1, <2>1, <2>2, <2>4
  <2> HIDE DEF T
  <2> QED BY <2>4, <2>5, <2>6, <2>7
<1>8. Min(A) = lo
  <2> HIDE DEF A
  <2> QED BY <1>6, LowestIs
<1>9. Max(B) = hi
  <2> HIDE DEF B
  <2> QED BY <1>7, HighestIs
<1>10. Update(L, pn, pn) = (L \ T) \cup {NewItem(Min(A), Max(B))}
  <2> HIDE DEF T
  <2> QED BY <1>3, <1>4 DEF Update
<1> QED BY <1>5, <1>8, <1>9, <1>10

LEMMA ReceivedIs ==
  ASSUME NEW l, NEW pn
  PROVE  IsPnAlreadyReceived(l, pn) <=> CheckSackList(l, pn, pn)
BY DEF IsPnAlreadyReceived, CheckSackList

(* What UpdateIsUnion says of one interval.                                *)
LEMMA UnionOfOne ==
  ASSUME Sound(Sack), Spaced(list), NEW lo \in Nat, NEW hi \in Nat, lo <= hi
  PROVE  LET s == UpdateSackList(Sack, lo, hi)
             M == ToSet(s.list)
             L == ToSet(list)
         IN  /\ Ordered(s.list) /\ CountsExact(s)
             /\ M = Update(L, lo, hi)
             /\ Covered(M) = Covered(L) \cup lo .. hi
             /\ (s = Sack) <=> CheckSackList(list, lo, hi)
             /\ CheckSackList(list, lo, hi) <=> (lo .. hi \subseteq Covered(L))
             /\ lo = hi =>
                  /\ IsPnAlreadyReceived(list, lo) <=> lo \in Covered(L)
                  /\ lo \notin Covered(L) => M = RecordOne(L, lo)
<1> DEFINE s == UpdateSackList(Sack, lo, hi)
           M == ToSet(s.list)
           L == ToSet(list)
<1>1. Sack.list = list
  BY DEF Sack
<1>2. list \in Seq(Items)
  BY <1>1, SoundIs
<1>3. /\ Sound(s) /\ Spaced(s.list)
      /\ M = Update(L, lo, hi)
      /\ Covered(M) = Covered(L) \cup lo .. hi
      /\ (s = Sack) <=> CheckSackList(list, lo, hi)
  <2>1. /\ Sound(s) /\ Spaced(s.list)
        /\ ToSet(s.list) = Update(ToSet(Sack.list), lo, hi)
        /\ Covered(ToSet(s.list)) = Covered(ToSet(Sack.list)) \cup lo .. hi
        /\ (s = Sack) <=> CheckSackList(Sack.list, lo, hi)
    <3>1. Spaced(Sack.list)
      BY <1>1
    <3> QED BY <3>1, UpdateUnion
  <2> HIDE DEF s
  <2> QED BY <1>1, <2>1
<1> HIDE DEF s, M, L
<1>4. Ordered(s.list) /\ CountsExact(s)
  <2>1. s.list \in Seq(Items)
    BY <1>3, SoundIs
  <2> QED BY <1>3, <2>1, OrderedIs DEF Sound
<1>5. CheckSackList(list, lo, hi) <=> (lo .. hi \subseteq Covered(L))
  BY <1>2, CheckIs DEF L
<1>6. ASSUME lo = hi
      PROVE  /\ IsPnAlreadyReceived(list, lo) <=> lo \in Covered(L)
             /\ lo \notin Covered(L) => M = RecordOne(L, lo)
  <2>1. lo .. hi = {lo}
    BY <1>6
  <2>2. IsPnAlreadyReceived(list, lo) <=> lo \in Covered(L)
    BY <1>5, <1>6, <2>1, ReceivedIs
  <2>3. L \in SUBSET Items /\ WellFormed(L)
    BY <1>2, SpacedIsWellFormed DEF L
  <2>4. lo \notin Covered(L) => M = RecordOne(L, lo)
    BY <1>3, <1>6, <2>3, RecordIsUpdate
  <2> QED BY <2>2, <2>4
<1> QED BY <1>3, <1>4, <1>5, <1>6 DEF s, M, L

-----------------------------------------------------------------------------
(* What an acknowledged frame takes from the list.                         *)

(* A frame that was sent: its ranges go down.                              *)
FrameOK(F) ==
  /\ F \in Seq(Ranges)
  /\ \A i \in DOMAIN F : F[i].lo <= F[i].hi
  /\ \A i, j \in DOMAIN F : i < j => F[j].hi < F[i].lo

(* x is the highest item of L, and the only one.                           *)
Tops(L, x) ==
  /\ x \in L /\ x.lo \in Nat /\ x.hi \in Nat /\ x.lo <= x.hi
  /\ \A y \in L : y.lo \in Nat /\ (y # x => y.lo < x.lo)

(* The items besides x that no range of F is equal to.                     *)
Left(L, F, x) == {y \in L : y # x /\ ~\E q \in F : q.lo = y.lo /\ q.hi = y.hi}

(* r is the only range of F with its start.                                *)
Single(F, r) == r \in F /\ \A q \in F : q.lo = r.lo => q = r

LEMMA TopsHighest ==
  ASSUME NEW L, NEW x, Tops(L, x), NEW y \in L
  PROVE  IsHighest(L, y) <=> y = x
<1>1. x \in L /\ x.lo \in Nat /\ \A z \in L : z.lo \in Nat /\ (z # x => z.lo < x.lo)
  BY DEF Tops
<1>2. IsHighest(L, x)
  <2>1. \A z \in L : z.lo <= x.lo
    <3> SUFFICES ASSUME NEW z \in L
                 PROVE  z.lo <= x.lo
      OBVIOUS
    <3>1. CASE z = x
      BY <1>1, <3>1
    <3>2. CASE z # x
      BY <1>1, <3>2
    <3> QED BY <3>1, <3>2
  <2> QED BY <1>1, <2>1 DEF IsHighest
<1>3. ASSUME IsHighest(L, y), y # x
      PROVE  FALSE
  <2>1. x.lo <= y.lo
    BY <1>1, <1>3 DEF IsHighest
  <2>2. y.lo < x.lo /\ y.lo \in Nat
    BY <1>1, <1>3
  <2> QED BY <1>1, <2>1, <2>2
<1> QED BY <1>2, <1>3

LEMMA AckOfAckTop ==
  ASSUME NEW L, NEW F, NEW x, Tops(L, x), NEW r, Single(F, r), r.lo = x.lo
  PROVE  AckOfAck(L, F) = Left(L, F, x) \cup {TrimHighest(x, r.hi)}
<1> DEFINE hit(it) == {q \in F : q.lo = it.lo}
           high == {it \in L : IsHighest(L, it) /\ hit(it) # {}}
           gone == {it \in L : ~IsHighest(L, it) /\ \E q \in hit(it) : q.hi = it.hi}
<1>1. x \in L /\ \A y \in L : IsHighest(L, y) <=> y = x
  BY TopsHighest DEF Tops
<1>2. hit(x) = {r}
  BY DEF Single
<1>3. high = {x}
  BY <1>1, <1>2
<1>4. (CHOOSE q \in hit(x) : TRUE) = r
  BY <1>2
<1>5. \A y \in L : y \in gone <=> (y # x /\ \E q \in F : q.lo = y.lo /\ q.hi = y.hi)
  BY <1>1
<1>6. AckOfAck(L, F) = (L \ (high \cup gone))
                         \cup {TrimHighest(it, (CHOOSE q \in hit(it) : TRUE).hi) : it \in high}
  BY DEF AckOfAck
<1> HIDE DEF high, gone, hit
<1>7. {TrimHighest(it, (CHOOSE q \in hit(it) : TRUE).hi) : it \in high} = {TrimHighest(x, r.hi)}
  BY <1>3, <1>4
<1>8. L \ (high \cup gone) = Left(L, F, x)
  BY <1>3, <1>5 DEF Left
<1> QED BY <1>6, <1>7, <1>8

LEMMA AckOfAckBelow ==
  ASSUME NEW L, NEW F, NEW x, Tops(L, x), ~\E q \in F : q.lo = x.lo
  PROVE  AckOfAck(L, F) = Left(L, F, x) \cup {x}
<1> DEFINE hit(it) == {q \in F : q.lo = it.lo}
           high == {it \in L : IsHighest(L, it) /\ hit(it) # {}}
           gone == {it \in L : ~IsHighest(L, it) /\ \E q \in hit(it) : q.hi = it.hi}
<1>1. x \in L /\ \A y \in L : IsHighest(L, y) <=> y = x
  BY TopsHighest DEF Tops
<1>2. hit(x) = {}
  OBVIOUS
<1>3. high = {}
  BY <1>1, <1>2
<1>4. \A y \in L : y \in gone <=> (y # x /\ \E q \in F : q.lo = y.lo /\ q.hi = y.hi)
  BY <1>1
<1>5. AckOfAck(L, F) = (L \ (high \cup gone))
                         \cup {TrimHighest(it, (CHOOSE q \in hit(it) : TRUE).hi) : it \in high}
  BY DEF AckOfAck
<1> HIDE DEF high, gone, hit
<1>6. {TrimHighest(it, (CHOOSE q \in hit(it) : TRUE).hi) : it \in high} = {}
  BY <1>3
<1>7. L \ (high \cup gone) = Left(L, F, x) \cup {x}
  BY <1>1, <1>3, <1>4 DEF Left
<1> QED BY <1>5, <1>6, <1>7

LEMMA TrimIs ==
  ASSUME NEW it \in Items, NEW end \in Nat
  PROVE  /\ TrimHighest(it, end) \in Items
         /\ TrimHighest(it, end).hi = it.hi /\ TrimHighest(it, end).sent = it.sent
         /\ TrimHighest(it, end).lo = IF end < it.hi THEN end + 1 ELSE it.hi
<1> DEFINE n == IF end < it.hi THEN end + 1 ELSE it.hi
<1>1. it.lo \in Nat /\ it.hi \in Nat /\ it.sent \in SentCounts /\ n \in Nat
  BY ItemIs
<1>2. TrimHighest(it, end) = [it EXCEPT !.lo = n]
  BY DEF TrimHighest
<1> HIDE DEF n
<1>3. [it EXCEPT !.lo = n] = [lo |-> n, hi |-> it.hi, sent |-> it.sent]
  BY DEF Items
<1>4. TrimHighest(it, end) = [lo |-> n, hi |-> it.hi, sent |-> it.sent]
  BY <1>2, <1>3
<1> QED BY <1>1, <1>4 DEF n, Items

(* The ranges of F lie above r.                                            *)
Over(F, r) ==
  /\ r \in Ranges /\ r.lo <= r.hi /\ F \subseteq Ranges
  /\ \A q \in F : q.lo <= q.hi /\ r.hi < q.lo
  /\ \A p, q \in F : p.lo = q.lo => p = q

(* A range below those of F acts after them as with them.                  *)
LEMMA AckOfAckAdd ==
  ASSUME NEW L \in SUBSET Items, NEW x, Tops(L, x), NEW F, NEW r, Over(F, r)
  PROVE  /\ AckOfAck(AckOfAck(L, F), {r}) = AckOfAck(L, F \cup {r})
         /\ \E z : Tops(AckOfAck(L, F), z)
<1>1. \A y \in L : y.lo \in Nat /\ (y # x => y.lo < x.lo) /\ x.lo \in Nat /\ x.hi \in Nat
        /\ x.lo <= x.hi /\ x \in L
  BY DEF Tops
<1>2. /\ r.lo \in Nat /\ r.hi \in Nat /\ r.lo <= r.hi
      /\ \A q \in F : q.lo \in Nat /\ q.hi \in Nat /\ q.lo <= q.hi /\ r.hi < q.lo
  BY DEF Over, Ranges
<1> DEFINE M == AckOfAck(L, F)
           G == F \cup {r}
<1>3. \A q \in F : q.lo # r.lo
  BY <1>2
<1>4. CASE \E q \in F : q.lo = x.lo
  <2>1. PICK q \in F : q.lo = x.lo
    BY <1>4
  <2> DEFINE z == TrimHighest(x, q.hi)
  <2>2. Single(F, q) /\ Single(G, q)
    BY <1>3, <2>1 DEF Single, Over
  <2> HIDE DEF G
  <2>3. M = Left(L, F, x) \cup {z}
    BY <2>1, <2>2, AckOfAckTop
  <2>4. AckOfAck(L, G) = Left(L, G, x) \cup {z}
    BY <2>1, <2>2, AckOfAckTop
  <2>5. /\ z.lo \in Nat /\ z.hi \in Nat /\ z.lo <= z.hi /\ x.lo <= z.lo /\ r.lo < z.lo
        /\ x.lo < z.lo \/ z.lo = x.hi
    <3> DEFINE a == x.lo
               b == x.hi
               c == q.hi
               d == r.lo
               e == z.lo
               f == r.hi
               g == z.hi
    <3> HIDE DEF z, M
    <3>1. x \in L
      BY DEF Tops
    <3>2. x \in Items /\ q.hi \in Nat
      <4>1. x \in Items
        BY <3>1
      <4>2. q.hi \in Nat
        BY <1>2, <2>1
      <4> QED BY <4>1, <4>2
    <3>3. g = b /\ e = IF c < b THEN c + 1 ELSE b
      BY <3>2, TrimIs DEF z
    <3>4. a \in Nat /\ b \in Nat /\ a <= b
      BY <1>1, <3>1
    <3>5. d \in Nat /\ f \in Nat /\ d <= f
      BY <1>2
    <3>6. q.lo = a /\ q.lo <= c /\ c \in Nat /\ f < q.lo
      BY <1>2, <2>1
    <3>7. f < a /\ a <= c /\ c \in Nat
      BY <3>6
    <3> HIDE DEF a, b, c, d, e, f, g
    <3>8. e \in Nat /\ g \in Nat /\ e <= g /\ a <= e /\ d < e /\ (a < e \/ e = b)
      BY <3>3, <3>4, <3>5, <3>7
    <3> QED BY <3>8 DEF a, b, c, d, e, f, g
  <2> HIDE DEF z, M
  <2>6. \A y \in L : y # x => y # z /\ y.lo < z.lo
    <3> SUFFICES ASSUME NEW y \in L, y # x
                 PROVE  y # z /\ y.lo < z.lo
      OBVIOUS
    <3>1. y.lo \in Nat /\ y.lo < x.lo /\ x.lo \in Nat
      BY <1>1
    <3>2. y.lo < z.lo
      BY <2>5, <3>1
    <3> QED BY <2>5, <3>1, <3>2
  <2>7. Tops(M, z)
    <3>1. \A y \in M : y = z \/ (y \in L /\ y # x)
      BY <2>3 DEF Left
    <3>2. z \in M
      BY <2>3
    <3> QED BY <1>1, <2>5, <2>6, <3>1, <3>2 DEF Tops
  <2>8. ~\E p \in {r} : p.lo = z.lo
    BY <1>2, <2>5
  <2>9. AckOfAck(M, {r}) = Left(M, {r}, z) \cup {z}
    BY <2>7, <2>8, AckOfAckBelow
  <2>10. \A y : y \in Left(M, {r}, z) <=> y \in Left(L, G, x)
    BY <2>3, <2>6 DEF G, Left
  <2>11. AckOfAck(M, {r}) = AckOfAck(L, G)
    BY <2>4, <2>9, <2>10
  <2> QED BY <2>7, <2>11 DEF M, G
<1>5. CASE ~\E q \in F : q.lo = x.lo
  <2>1. M = Left(L, F, x) \cup {x}
    BY <1>5, AckOfAckBelow
  <2> HIDE DEF M
  <2>2. Tops(M, x)
    BY <1>1, <2>1 DEF Tops, Left
  <2>3. \A y : y \in Left(M, {r}, x) <=> y \in Left(L, G, x)
    BY <2>1 DEF Left
  <2>4. CASE r.lo = x.lo
    <3>1. Single({r}, r) /\ Single(G, r)
      BY <1>3 DEF Single
    <3> HIDE DEF G
    <3>2. AckOfAck(M, {r}) = Left(M, {r}, x) \cup {TrimHighest(x, r.hi)}
      BY <2>2, <2>4, <3>1, AckOfAckTop
    <3>3. AckOfAck(L, G) = Left(L, G, x) \cup {TrimHighest(x, r.hi)}
      BY <2>4, <3>1, AckOfAckTop
    <3>4. AckOfAck(M, {r}) = AckOfAck(L, G)
      BY <2>3, <3>2, <3>3
    <3> QED BY <2>2, <3>4 DEF M, G
  <2>5. CASE r.lo # x.lo
    <3>1. ~\E p \in G : p.lo = x.lo
      BY <1>5, <2>5
    <3>2. ~\E p \in {r} : p.lo = x.lo
      BY <2>5
    <3> HIDE DEF G
    <3>3. AckOfAck(M, {r}) = Left(M, {r}, x) \cup {x}
      BY <2>2, <3>2, AckOfAckBelow
    <3>4. AckOfAck(L, G) = Left(L, G, x) \cup {x}
      BY <3>1, AckOfAckBelow
    <3>5. AckOfAck(M, {r}) = AckOfAck(L, G)
      BY <2>3, <3>3, <3>4
    <3> QED BY <2>2, <3>5 DEF M, G
  <2> QED BY <2>4, <2>5
<1> QED BY <1>4, <1>5

LEMMA ListTops ==
  ASSUME NEW l \in Seq(Items), Spaced(l), l # <<>>
  PROVE  Tops(ToSet(l), l[Len(l)]) /\ l[Len(l)] \in ToSet(l) /\ Len(l) \in 1 .. Len(l)
<1>1. Len(l) \in 1 .. Len(l) /\ DOMAIN l = 1 .. Len(l) /\ l[Len(l)] \in Items
  BY Domains
<1>2. l[Len(l)].lo \in Nat /\ l[Len(l)].hi \in Nat /\ l[Len(l)].lo <= l[Len(l)].hi
  BY <1>1, ItemIs DEF Spaced
<1>3. l[Len(l)] \in ToSet(l) /\ \A y \in ToSet(l) : \E j \in 1 .. Len(l) : y = l[j]
  BY <1>1, AllMembers
<1>4. ASSUME NEW y \in ToSet(l)
      PROVE  y.lo \in Nat /\ (y # l[Len(l)] => y.lo < l[Len(l)].lo)
  <2>1. PICK j \in 1 .. Len(l) : y = l[j]
    BY <1>3
  <2>2. j # Len(l) => j < Len(l)
    <3>1. Len(l) \in Nat
      BY Domains
    <3> QED BY <3>1
  <2> QED BY <1>1, <2>1, <2>2, SpacedIs, Domains, ItemIs
<1> QED BY <1>1, <1>2, <1>3, <1>4 DEF Tops

LEMMA AckOfAckNone ==
  ASSUME NEW L, NEW F, \A x \in L, q \in F : q.lo # x.lo
  PROVE  AckOfAck(L, F) = L
<1> DEFINE hit(it) == {q \in F : q.lo = it.lo}
           high == {it \in L : IsHighest(L, it) /\ hit(it) # {}}
           gone == {it \in L : ~IsHighest(L, it) /\ \E q \in hit(it) : q.hi = it.hi}
<1>1. high = {} /\ gone = {}
  OBVIOUS
<1>2. AckOfAck(L, F) = (L \ (high \cup gone))
                         \cup {TrimHighest(it, (CHOOSE q \in hit(it) : TRUE).hi) : it \in high}
  BY DEF AckOfAck
<1> HIDE DEF high, gone, hit
<1> QED BY <1>1, <1>2

(* The item with the start of r is item i, if any item has it.             *)
LEMMA OnlyHit ==
  ASSUME NEW l \in Seq(Items), Rising(l), NEW n \in Nat, NEW j \in 1 .. Len(l), l[j].lo = n
  PROVE  FindBelow(l, n) = j
<1>1. FindBelow(l, n) \in 0 .. Len(l) /\ \A i \in 1 .. Len(l) : i <= FindBelow(l, n) <=> l[i].lo <= n
  BY FindBelowIs
<1> DEFINE b == FindBelow(l, n)
<1>2. j <= b /\ b \in 1 .. Len(l) /\ l[b].lo <= n
  <2> HIDE DEF b
  <2>1. j <= b
    BY <1>1 DEF b
  <2>2. b \in 1 .. Len(l)
    BY <1>1, <2>1 DEF b
  <2>3. b <= b
    BY <2>2
  <2> QED BY <1>1, <2>1, <2>2, <2>3 DEF b
<1> HIDE DEF b
<1>3. ASSUME j < b
      PROVE  FALSE
  <2>1. l[j].lo < l[b].lo
    BY <1>2, <1>3, Domains DEF Rising
  <2>2. l[b].lo \in Nat
    BY <1>2, Domains, ItemIs
  <2> QED BY <1>2, <2>1, <2>2
<1> QED BY <1>2, <1>3 DEF b

(* The highest item is trimmed.                                            *)
LEMMA TrimSound ==
  ASSUME NEW s, Sound(s), Spaced(s.list), s.list # <<>>, NEW end \in Nat, s.list[Len(s.list)].lo <= end,
         NEW m, Replaced(m, s.list, Len(s.list), TrimHighest(s.list[Len(s.list)], end))
  PROVE  /\ Sound([list |-> m, rc |-> s.rc]) /\ Spaced(m)
         /\ Exchanged(ToSet(m), ToSet(s.list), s.list[Len(s.list)], TrimHighest(s.list[Len(s.list)], end))
<1> DEFINE l == s.list
           n == Len(l)
           x == l[n]
           z == TrimHighest(x, end)
<1>1. l \in Seq(Items) /\ Rising(l) /\ n \in 1 .. Len(l) /\ n \in Nat /\ DOMAIN l = 1 .. Len(l)
      /\ s.rc \in [Kinds -> Counts] /\ x \in Items
  BY SoundIs, SackIs, ListTops
<1>2. z \in Items /\ z.hi = x.hi /\ z.sent = x.sent /\ z.lo = IF end < x.hi THEN end + 1 ELSE x.hi
  BY <1>1, TrimIs
<1>3. x.lo \in Nat /\ x.hi \in Nat /\ x.lo <= x.hi
  BY <1>1, ItemIs DEF Spaced
<1>4. Spaced(l) /\ x.lo <= end /\ Replaced(m, l, n, z) /\ x = l[n] /\ l = s.list /\ n = Len(l)
  OBVIOUS
<1> HIDE DEF z, x, n, l
<1>5. z.lo \in Nat /\ x.lo <= z.lo /\ z.lo <= z.hi /\ z.hi \in Nat
  <2> DEFINE a == x.lo
             b == x.hi
             c == z.lo
  <2>1. a \in Nat /\ b \in Nat /\ a <= b /\ a <= end /\ c = IF end < b THEN end + 1 ELSE b
    BY <1>4, <1>2, <1>3
  <2> HIDE DEF a, b, c
  <2>2. c \in Nat /\ a <= c /\ c <= b
    BY <2>1
  <2> QED BY <1>2, <1>3, <2>2 DEF a, b, c
<1>6. ASSUME NEW j \in 1 .. Len(l), j < n
      PROVE  l[j].lo < z.lo /\ l[j].hi + 2 <= z.lo
  <2> DEFINE a == l[j].lo
             b == l[j].hi
             c == x.lo
             d == z.lo
  <2>1. a \in Nat /\ b \in Nat /\ c \in Nat /\ a < c /\ b + 2 <= c
    BY <1>4, <1>1, <1>6, SpacedIs
  <2>2. d \in Nat /\ c <= d
    BY <1>5
  <2> HIDE DEF a, b, c, d
  <2>3. a < d /\ b + 2 <= d
    BY <2>1, <2>2
  <2> QED BY <2>3 DEF a, b, c, d
<1>7. Fits(l, n, z.lo)
  <2>1. \A j \in 1 .. Len(l) : ~(j > n)
    BY <1>4, <1>1
  <2> QED BY <1>6, <2>1 DEF Fits
<1>8. Moved(s.rc, s, x, z)
  <2>1. \A k \in Kinds, i \in 0 .. Repeat - 1 :
          One(x, k, i) = One(z, k, i) /\ One(x, k, i) \in {0, 1} /\ s.rc[k][i] \in Int
    BY <1>1, <1>2 DEF One, Counts
  <2>2. \A k \in Kinds, i \in 0 .. Repeat - 1 : s.rc[k][i] = s.rc[k][i] - One(x, k, i) + One(z, k, i)
    BY <2>1
  <2> QED BY <1>1, <2>2 DEF Moved
<1>9. /\ Sound([list |-> m, rc |-> s.rc])
      /\ Exchanged(ToSet(m), ToSet(l), x, z)
  <2>1. n \in 1 .. Len(s.list) /\ Fits(s.list, n, z.lo) /\ Replaced(m, s.list, n, z)
        /\ Moved(s.rc, s, s.list[n], z)
    BY <1>4, <1>1, <1>7, <1>8
  <2>2. Sound([list |-> m, rc |-> s.rc])
    BY <1>2, <2>1, ReplaceSound
  <2>3. Exchanged(ToSet(m), ToSet(s.list), s.list[n], z)
    BY <1>2, <2>1, ReplaceSound
  <2> QED BY <1>4, <2>2, <2>3
<1>10. Spaced(m)
  <2>1. m \in Seq(Items) /\ Len(m) = Len(l) /\ \A j \in 1 .. Len(l) : m[j] = IF j = n THEN z ELSE l[j]
    BY <1>4, <1>1, <1>2, <1>7, ReplaceIs
  <2>2. DOMAIN m = 1 .. Len(l)
    BY <2>1
  <2>3. ASSUME NEW j \in 1 .. Len(l)
        PROVE  m[j].lo <= m[j].hi
    BY <1>4, <1>1, <1>5, <2>1 DEF Spaced
  <2>4. ASSUME NEW i \in 1 .. Len(l), NEW j \in 1 .. Len(l), i < j
        PROVE  m[i].hi + 2 <= m[j].lo
    <3>1. i < n /\ m[i] = l[i]
      BY <1>4, <1>1, <2>1, <2>4
    <3>2. CASE j = n
      BY <1>6, <2>1, <3>1, <3>2
    <3>3. CASE j # n
      BY <1>4, <1>1, <2>1, <2>4, <3>1, <3>3 DEF Spaced
    <3> QED BY <3>2, <3>3
  <2> QED BY <2>2, <2>3, <2>4 DEF Spaced
<1> QED BY <1>9, <1>10 DEF z, x, n, l

LEMMA DeleteSpaced ==
  ASSUME NEW s, Sound(s), Spaced(s.list), NEW i \in 1 .. Len(s.list)
  PROVE  Spaced(DeleteItem(s, i).list)
<1> DEFINE l == s.list
           m == DeleteItem(s, i).list
<1>1. /\ l \in Seq(Items) /\ Len(l) \in Nat /\ DOMAIN l = 1 .. Len(l)
      /\ Len(m) = Len(l) - 1 /\ m \in Seq(Items)
      /\ \A j \in 1 .. Len(l) - 1 : j < i => m[j] = l[j]
      /\ \A j \in 1 .. Len(l) - 1 : j >= i => m[j] = l[j + 1]
  BY SoundIs, DeleteSound
<1>2. DOMAIN m = 1 .. Len(l) - 1
  BY <1>1
<1>3. Spaced(l) /\ i \in 1 .. Len(l)
  OBVIOUS
<1> HIDE DEF l, m
<1>4. ASSUME NEW a \in 1 .. Len(l) - 1
      PROVE  \E b \in 1 .. Len(l) : m[a] = l[b] /\ b = IF a < i THEN a ELSE a + 1
  <2>1. CASE a < i
    BY <1>1, <2>1
  <2>2. CASE ~(a < i)
    BY <1>1, <1>3, <2>2
  <2> QED BY <2>1, <2>2
<1>5. ASSUME NEW a \in 1 .. Len(l) - 1
      PROVE  m[a].lo <= m[a].hi
  BY <1>1, <1>3, <1>4 DEF Spaced
<1>6. ASSUME NEW a \in 1 .. Len(l) - 1, NEW b \in 1 .. Len(l) - 1, a < b
      PROVE  m[a].hi + 2 <= m[b].lo
  <2>1. PICK c \in 1 .. Len(l) : m[a] = l[c] /\ c = IF a < i THEN a ELSE a + 1
    BY <1>4
  <2>2. PICK d \in 1 .. Len(l) : m[b] = l[d] /\ d = IF b < i THEN b ELSE b + 1
    BY <1>4
  <2>3. c < d
    BY <1>1, <1>3, <1>6, <2>1, <2>2
  <2> QED BY <1>1, <1>3, <2>1, <2>2, <2>3 DEF Spaced
<1>7. Spaced(m)
  BY <1>2, <1>5, <1>6 DEF Spaced
<1> QED BY <1>7 DEF m

(* The list s became t, and its items became M.                            *)
Taken(t, M) == Sound(t) /\ Spaced(t.list) /\ ToSet(t.list) = M

LEMMA RangeTaken ==
  ASSUME NEW s, Sound(s), Spaced(s.list), NEW r \in Ranges, r.lo <= r.hi
  PROVE  Taken(AckOfAckRange(s, r), AckOfAck(ToSet(s.list), {r}))
<1> DEFINE l == s.list
           i == FindBelow(l, r.lo)
           t == AckOfAckRange(s, r)
           L == ToSet(l)
<1>1. /\ l \in Seq(Items) /\ Rising(l) /\ Spaced(l) /\ r.lo \in Nat /\ r.hi \in Nat
      /\ s = [list |-> l, rc |-> s.rc]
  BY SoundIs, SackIs DEF Ranges
<1>2. i \in 0 .. Len(l) /\ Len(l) \in Nat /\ DOMAIN l = 1 .. Len(l)
  BY <1>1, FindBelowIs, SoundIs
<1>3. \A y \in L : \E j \in 1 .. Len(l) : y = l[j]
  BY <1>1, AllMembers
<1>4. \A y \in L : y.lo = r.lo => i # 0 /\ y = l[i]
  <2> SUFFICES ASSUME NEW y \in L, y.lo = r.lo
               PROVE  i # 0 /\ y = l[i]
    OBVIOUS
  <2>1. PICK j \in 1 .. Len(l) : y = l[j]
    BY <1>3
  <2>2. l[j].lo = r.lo
    BY <2>1
  <2>3. i = j
    BY <1>1, <2>2, OnlyHit
  <2> QED BY <2>1, <2>3
<1>5. Taken(s, L)
  BY DEF Taken
<1>6. CASE i = 0 \/ l[i].lo # r.lo
  <2>1. t = s
    BY <1>6 DEF AckOfAckRange
  <2>2. \A x \in L, q \in {r} : q.lo # x.lo
    BY <1>4, <1>6
  <2> HIDE DEF t, L
  <2>3. AckOfAck(L, {r}) = L
    BY <2>2, AckOfAckNone
  <2>4. Taken(t, AckOfAck(L, {r}))
    BY <1>5, <2>1, <2>3
  <2> QED BY <2>4 DEF t, L
<1>7. CASE i # 0 /\ l[i].lo = r.lo
  <2>1. l # <<>> /\ i \in 1 .. Len(l)
    BY <1>1, <1>2, <1>7
  <2> DEFINE x == l[Len(l)]
  <2>2. Tops(L, x) /\ x \in L /\ Len(l) \in 1 .. Len(l)
    BY <1>1, <2>1, ListTops
  <2>3. CASE i = Len(l)
    <3> DEFINE z == TrimHighest(x, r.hi)
               m == [l EXCEPT ![Len(l)] = z]
    <3>1. t = [list |-> m, rc |-> s.rc]
      BY <1>1, <1>2, <1>7, <2>3 DEF AckOfAckRange, TrimHighest
    <3>2. Replaced(m, l, Len(l), z)
      BY DEF Replaced
    <3>3. x.lo <= r.hi /\ x.lo = r.lo
      BY <1>7, <2>3
    <3> HIDE DEF m
    <3>4. Sound([list |-> m, rc |-> s.rc]) /\ Spaced(m) /\ Exchanged(ToSet(m), L, x, z)
      BY <1>1, <2>1, <3>2, <3>3, TrimSound
    <3> HIDE DEF x, L, t, z
    <3>5. Single({r}, r)
      BY DEF Single
    <3>6. AckOfAck(L, {r}) = Left(L, {r}, x) \cup {z}
      BY <2>2, <3>3, <3>5, AckOfAckTop DEF z
    <3>7. \A y \in L : y # x => y.lo # r.lo
      BY <1>4, <2>3 DEF x
    <3>8. \A y : y \in Left(L, {r}, x) <=> y \in L \ {x}
      BY <3>7 DEF Left
    <3>9. AckOfAck(L, {r}) = (L \ {x}) \cup {z}
      BY <3>6, <3>8
    <3>10. ToSet(m) = AckOfAck(L, {r})
      BY <3>4, <3>9 DEF Exchanged
    <3>11. t.list = m
      BY <3>1
    <3>12. Taken(t, AckOfAck(L, {r}))
      BY <3>1, <3>4, <3>10, <3>11 DEF Taken
    <3> QED BY <3>12 DEF t, L
  <2>4. CASE i # Len(l)
    <3>1. l[i] # x /\ l[i] \in L /\ x.lo # r.lo
      <4>1. i < Len(l)
        BY <1>2, <2>4
      <4>2. l[i].lo # x.lo
        BY <1>1, <2>1, <2>2, <4>1, RisingIsOne
      <4>3. l[i] \in L
        BY <1>1, <2>1, AllMembers
      <4> QED BY <1>7, <4>2, <4>3
    <3> HIDE DEF x, L
    <3>2. ~\E q \in {r} : q.lo = x.lo
      BY <3>1
    <3>3. AckOfAck(L, {r}) = Left(L, {r}, x) \cup {x}
      BY <2>2, <3>2, AckOfAckBelow
    <3>4. CASE l[i].hi = r.hi
      <4>1. t = DeleteItem(s, i)
        BY <1>7, <2>4, <3>4 DEF AckOfAckRange
      <4>2. Sound(DeleteItem(s, i)) /\ ToSet(DeleteItem(s, i).list) = L \ {l[i]}
        BY <2>1, DeleteSound DEF L
      <4>3. Spaced(DeleteItem(s, i).list)
        BY <2>1, DeleteSpaced
      <4>4. \A y \in L : (r.lo = y.lo /\ r.hi = y.hi) <=> y = l[i]
        BY <1>4, <1>7, <3>4
      <4>5. \A y : y \in Left(L, {r}, x) \cup {x} <=> y \in L \ {l[i]}
        BY <2>2, <3>1, <4>4 DEF Left
      <4>6. AckOfAck(L, {r}) = L \ {l[i]}
        BY <3>3, <4>5
      <4> HIDE DEF t
      <4>7. Taken(t, AckOfAck(L, {r}))
        BY <4>1, <4>2, <4>3, <4>6 DEF Taken
      <4> QED BY <4>7 DEF t, L
    <3>5. CASE l[i].hi # r.hi
      <4>1. t = s
        BY <1>7, <2>4, <3>5 DEF AckOfAckRange
      <4>2. \A y \in L : ~(r.lo = y.lo /\ r.hi = y.hi)
        BY <1>4, <1>7, <3>5
      <4>3. \A y : y \in Left(L, {r}, x) \cup {x} <=> y \in L
        BY <2>2, <4>2 DEF Left
      <4>4. AckOfAck(L, {r}) = L
        BY <3>3, <4>3
      <4> HIDE DEF t
      <4>5. Taken(t, AckOfAck(L, {r}))
        BY <1>5, <4>1, <4>4
      <4> QED BY <4>5 DEF t, L
    <3> QED BY <3>4, <3>5
  <2> QED BY <2>3, <2>4
<1> QED BY <1>6, <1>7

(* What the acknowledgement of a frame does to the list.                   *)
Upto(F, n) == {F[j] : j \in 1 .. n}

LEMMA OverUpto ==
  ASSUME NEW F, FrameOK(F), NEW n \in 1 .. Len(F)
  PROVE  /\ Over(Upto(F, n - 1), F[n]) /\ Upto(F, n) = Upto(F, n - 1) \cup {F[n]}
         /\ F[n] \in Ranges /\ F[n].lo <= F[n].hi
<1>1. F \in Seq(Ranges) /\ Len(F) \in Nat /\ DOMAIN F = 1 .. Len(F)
      /\ \A i \in 1 .. Len(F) : F[i] \in Ranges /\ F[i].lo <= F[i].hi /\ F[i].lo \in Nat /\ F[i].hi \in Nat
  <2>1. F \in Seq(Ranges)
    BY DEF FrameOK
  <2>2. Len(F) \in Nat /\ DOMAIN F = 1 .. Len(F) /\ \A i \in 1 .. Len(F) : F[i] \in Ranges
    BY <2>1
  <2> QED BY <2>1, <2>2 DEF FrameOK, Ranges
<1>2. \A i, j \in 1 .. Len(F) : i < j => F[j].hi < F[i].lo
  BY <1>1 DEF FrameOK
<1>3. \A j \in 1 .. n - 1 : j \in 1 .. Len(F) /\ j < n
  BY <1>1
<1>4. \A j \in 1 .. n : j \in 1 .. n - 1 \/ j = n
  OBVIOUS
<1>5. \A j \in 1 .. n - 1 : j \in 1 .. n
  OBVIOUS
<1>6. Upto(F, n) = Upto(F, n - 1) \cup {F[n]}
  BY <1>4, <1>5 DEF Upto
<1>7. \A q \in Upto(F, n - 1) : \E j \in 1 .. n - 1 : q = F[j]
  BY DEF Upto
<1>8. ASSUME NEW q \in Upto(F, n - 1)
      PROVE  q \in Ranges /\ q.lo <= q.hi /\ F[n].hi < q.lo
  <2>1. PICK j \in 1 .. n - 1 : q = F[j]
    BY <1>7
  <2> QED BY <1>1, <1>2, <1>3, <2>1
<1>9. ASSUME NEW p \in Upto(F, n - 1), NEW q \in Upto(F, n - 1), p.lo = q.lo
      PROVE  p = q
  <2>1. PICK i \in 1 .. n - 1 : p = F[i]
    BY <1>7
  <2>2. PICK j \in 1 .. n - 1 : q = F[j]
    BY <1>7
  <2>3. i \in 1 .. Len(F) /\ j \in 1 .. Len(F)
    BY <1>3
  <2>4. CASE i < j
    <3>1. q.hi < p.lo /\ q.lo <= q.hi /\ q.lo \in Nat /\ q.hi \in Nat
      BY <1>1, <1>2, <2>1, <2>2, <2>3, <2>4
    <3> QED BY <1>9, <3>1
  <2>5. CASE j < i
    <3>1. p.hi < q.lo /\ p.lo <= p.hi /\ p.lo \in Nat /\ p.hi \in Nat
      BY <1>1, <1>2, <2>1, <2>2, <2>3, <2>5
    <3> QED BY <1>9, <3>1
  <2>6. CASE i = j
    BY <2>1, <2>2, <2>6
  <2> QED BY <2>3, <2>4, <2>5, <2>6
<1>10. Over(Upto(F, n - 1), F[n])
  BY <1>1, <1>8, <1>9 DEF Over
<1> QED BY <1>1, <1>6, <1>10

LEMMA FrameTaken ==
  ASSUME NEW s, Sound(s), Spaced(s.list), NEW F, FrameOK(F)
  PROVE  Taken(AckOfAckFrame(s, F), AckOfAck(ToSet(s.list), ToSet(F)))
<1> DEFINE visit == [j \in DOMAIN F |-> [t \in Sacks |-> AckOfAckRange(t, F[j])]]
           L == ToSet(s.list)
           Q == [n \in 0 .. Len(F) |-> {t \in Sacks : Taken(t, AckOfAck(L, Upto(F, n)))}]
<1>1. Len(F) \in Nat /\ DOMAIN F = 1 .. Len(F) /\ s \in Sacks /\ s.list \in Seq(Items)
  <2>1. F \in Seq(Ranges)
    BY DEF FrameOK
  <2> QED BY <2>1, SoundIs
<1>2. s \in Q[0]
  <2>1. Upto(F, 0) = {}
    BY DEF Upto
  <2>2. AckOfAck(L, Upto(F, 0)) = L
    <3> HIDE DEF L
    <3> QED BY <2>1, AckOfAckNone
  <2>3. Taken(s, AckOfAck(L, Upto(F, 0)))
    BY <2>2 DEF Taken
  <2> QED BY <1>1, <2>3
<1>3. ASSUME NEW n \in 1 .. Len(F), NEW t \in Q[n - 1]
      PROVE  visit[n][t] \in Q[n]
  <2> DEFINE M == AckOfAck(L, Upto(F, n - 1))
  <2>1. t \in Sacks /\ Taken(t, M)
    <3>1. n - 1 \in 0 .. Len(F)
      BY <1>1
    <3> QED BY <3>1
  <2>2. visit[n][t] = AckOfAckRange(t, F[n])
    BY <1>1, <2>1
  <2> HIDE DEF visit, L
  <2>3. /\ Over(Upto(F, n - 1), F[n]) /\ Upto(F, n) = Upto(F, n - 1) \cup {F[n]}
        /\ F[n] \in Ranges /\ F[n].lo <= F[n].hi
    BY OverUpto
  <2> HIDE DEF M
  <2>4. Sound(t) /\ Spaced(t.list) /\ ToSet(t.list) = M
    BY <2>1 DEF Taken
  <2>5. Taken(AckOfAckRange(t, F[n]), AckOfAck(M, {F[n]}))
    BY <2>3, <2>4, RangeTaken
  <2>6. AckOfAck(M, {F[n]}) = AckOfAck(L, Upto(F, n))
    <3>1. CASE s.list = <<>>
      <4>1. L = {}
        BY <3>1 DEF L, ToSet
      <4>2. M = {}
        BY <4>1, AckOfAckNone DEF M
      <4>3. AckOfAck({}, {F[n]}) = {} /\ AckOfAck({}, Upto(F, n)) = {}
        BY AckOfAckNone
      <4> QED BY <4>1, <4>2, <4>3
    <3>2. CASE s.list # <<>>
      <4>1. Tops(L, s.list[Len(s.list)])
        BY <1>1, <3>2, ListTops DEF L
      <4>2. L \in SUBSET Items
        BY <1>1, AllMembers DEF L
      <4> QED BY <2>3, <4>1, <4>2, AckOfAckAdd DEF M
    <3> QED BY <3>1, <3>2
  <2>7. AckOfAckRange(t, F[n]) \in Sacks /\ n \in 0 .. Len(F)
    BY <1>1, <2>5, SoundIs DEF Taken
  <2> QED BY <2>2, <2>5, <2>6, <2>7
<1>4. AckOfAckFrame(s, F) \in Q[Len(F)]
  <2>1. Walk(visit, s, Len(F)) \in Q[Len(F)]
    <3> HIDE DEF visit, Q
    <3> QED BY <1>1, <1>2, <1>3, WalkLeads
  <2> QED BY <2>1 DEF AckOfAckFrame
<1>5. ToSet(F) = Upto(F, Len(F))
  BY <1>1 DEF ToSet, Upto
<1>6. Taken(AckOfAckFrame(s, F), AckOfAck(L, Upto(F, Len(F))))
  <2>1. Len(F) \in 0 .. Len(F)
    BY <1>1
  <2> QED BY <1>4, <2>1
<1> QED BY <1>5, <1>6

-----------------------------------------------------------------------------
(* The selection of the ranges of a frame.                                 *)

(* The n items next below the top one, the first n the encoder visits, and *)
(* how many of them S has.                                                 *)
Near(l, n) == {l[j] : j \in Len(l) - n .. Len(l) - 1}
Met(S, l, n) == Cardinality(S \cap Near(l, n))

LEMMA NearIs ==
  ASSUME NEW l \in Seq(Items), Rising(l), NEW n \in 1 .. Len(l) - 1
  PROVE  /\ l[Len(l) - n] \in Near(l, n)
         /\ l[Len(l) - n] \notin Near(l, n - 1)
         /\ Near(l, n) = Near(l, n - 1) \cup {l[Len(l) - n]}
         /\ Near(l, n - 1) = {o \in Near(l, Len(l) - 1) : o.lo > l[Len(l) - n].lo}
<1> DEFINE N == Len(l)
           i == N - n
<1>1. /\ N \in Nat /\ DOMAIN l = 1 .. N /\ i \in 1 .. N - 1
      /\ \A j \in 1 .. N : l[j].lo \in Nat
  <2>1. Len(l) \in Nat /\ DOMAIN l = 1 .. Len(l) /\ \A j \in 1 .. Len(l) : l[j] \in Items
    BY Domains
  <2>2. i \in 1 .. N - 1
    BY <2>1
  <2> HIDE DEF i
  <2> QED BY <2>1, <2>2, ItemIs
<1>2. /\ N - n = i /\ N - (n - 1) = i + 1 /\ N - (N - 1) = 1
      /\ \A j \in i .. N - 1 : j = i \/ j \in i + 1 .. N - 1
      /\ \A j \in i + 1 .. N - 1 : j \in i .. N - 1 /\ j \in 1 .. N - 1 /\ j > i /\ j \in 1 .. N
      /\ i \in i .. N - 1 /\ i \in 1 .. N
      /\ \A j \in 1 .. N - 1 : j \in 1 .. N /\ (j > i => j \in i + 1 .. N - 1)
  <2>1. i = N - n /\ n \in Nat
    BY <1>1
  <2>2. N \in Nat /\ i \in Nat /\ 1 <= i /\ i <= N - 1
    BY <1>1
  <2> HIDE DEF N, i
  <2>3. N - n = i /\ N - (n - 1) = i + 1 /\ N - (N - 1) = 1
    BY <2>1, <2>2
  <2>4. \A j \in i .. N - 1 : j = i \/ j \in i + 1 .. N - 1
    BY <2>2
  <2>5. \A j \in i + 1 .. N - 1 : j \in i .. N - 1 /\ j \in 1 .. N - 1 /\ j > i /\ j \in 1 .. N
    BY <2>2
  <2>6. i \in i .. N - 1 /\ i \in 1 .. N
    BY <2>2
  <2>7. \A j \in 1 .. N - 1 : j \in 1 .. N /\ (j > i => j \in i + 1 .. N - 1)
    BY <2>2
  <2> QED BY <2>3, <2>4, <2>5, <2>6, <2>7
<1>3. /\ Near(l, n) = {l[j] : j \in i .. N - 1}
      /\ Near(l, n - 1) = {l[j] : j \in i + 1 .. N - 1}
      /\ Near(l, N - 1) = {l[j] : j \in 1 .. N - 1}
  BY <1>2 DEF Near
<1> HIDE DEF i, N
<1>4. \A j \in 1 .. N : j > i <=> l[j].lo > l[i].lo
  <2> SUFFICES ASSUME NEW j \in 1 .. N
               PROVE  j > i <=> l[j].lo > l[i].lo
    OBVIOUS
  <2>1. j > i => l[i].lo < l[j].lo
    BY <1>1, <1>2 DEF Rising
  <2>2. j < i => l[j].lo < l[i].lo
    BY <1>1, <1>2 DEF Rising
  <2>3. l[i].lo \in Nat /\ l[j].lo \in Nat
    BY <1>1, <1>2
  <2>4. j = i \/ j > i \/ j < i
    BY <1>1
  <2> QED BY <2>1, <2>2, <2>3, <2>4, <1>1
<1>5. l[i] \in Near(l, n)
  BY <1>2, <1>3
<1>6. l[i] \notin Near(l, n - 1)
  <2> SUFFICES ASSUME NEW j \in i + 1 .. N - 1, l[j] = l[i]
               PROVE  FALSE
    BY <1>3
  <2>1. l[j].lo > l[i].lo
    BY <1>2, <1>4
  <2> QED BY <1>1, <1>2, <2>1
<1>7. Near(l, n) = Near(l, n - 1) \cup {l[i]}
  BY <1>2, <1>3
<1>8. Near(l, n - 1) = {o \in Near(l, N - 1) : o.lo > l[i].lo}
  <2>1. \A o \in Near(l, n - 1) : o \in Near(l, N - 1) /\ o.lo > l[i].lo
    BY <1>2, <1>3, <1>4
  <2>2. ASSUME NEW o \in Near(l, N - 1), o.lo > l[i].lo
        PROVE  o \in Near(l, n - 1)
    <3>1. PICK j \in 1 .. N - 1 : o = l[j]
      BY <1>3
    <3>2. j \in i + 1 .. N - 1
      BY <1>2, <1>4, <2>2, <3>1
    <3> QED BY <1>3, <3>1, <3>2
  <2> QED BY <2>1, <2>2
<1> QED BY <1>5, <1>6, <1>7, <1>8 DEF i, N

LEMMA NearFinite ==
  ASSUME NEW l \in Seq(Items), NEW n \in Int
  PROVE  IsFiniteSet(Near(l, n))
<1>1. Len(l) \in Nat
  BY Domains
<1>2. IsFiniteSet(Len(l) - n .. Len(l) - 1)
  BY <1>1, FS_Interval
<1> DEFINE I == Len(l) - n .. Len(l) - 1
<1> HIDE DEF I
<1>3. Near(l, n) = {l[j] : j \in I}
  BY DEF Near, I
<1>4. IsFiniteSet({l[j] : j \in I})
  <2> DEFINE f == [j \in I |-> l[j]]
  <2>1. f \in Surjection(I, {l[j] : j \in I})
    BY DEF Surjection
  <2> QED BY <1>2, <2>1, FS_Surjection DEF I
<1> QED BY <1>3, <1>4

(* The items of S among the n next below the top, one item at a time.      *)
LEMMA MetIs ==
  ASSUME NEW l \in Seq(Items), Rising(l), NEW S, S \subseteq Near(l, Len(l) - 1)
  PROVE  /\ \A n \in 0 .. Len(l) - 1 : Met(S, l, n) \in Nat
         /\ Met(S, l, 0) = 0
         /\ \A n \in 1 .. Len(l) - 1 :
              Met(S, l, n) = Met(S, l, n - 1) + IF l[Len(l) - n] \in S THEN 1 ELSE 0
         /\ Met(S, l, Len(l) - 1) = Cardinality(S)
         /\ IsFiniteSet(S)
<1>1. Len(l) \in Nat
  BY Domains
<1>2. \A n \in 0 .. Len(l) - 1 : IsFiniteSet(S \cap Near(l, n))
  <2> SUFFICES ASSUME NEW n \in 0 .. Len(l) - 1
               PROVE  IsFiniteSet(S \cap Near(l, n))
    OBVIOUS
  <2>1. IsFiniteSet(Near(l, n))
    BY NearFinite
  <2>2. S \cap Near(l, n) \in SUBSET Near(l, n)
    OBVIOUS
  <2> QED BY <2>1, <2>2, FS_Subset
<1>3. IsFiniteSet(S)
  <2>1. IsFiniteSet(Near(l, Len(l) - 1))
    BY <1>1, NearFinite
  <2> QED BY <2>1, FS_Subset
<1>4. Near(l, 0) = {}
  <2>1. Len(l) - 0 .. Len(l) - 1 = {}
    BY <1>1
  <2> QED BY <2>1 DEF Near
<1>5. Met(S, l, 0) = 0
  BY <1>4, FS_EmptySet DEF Met
<1>6. ASSUME NEW n \in 1 .. Len(l) - 1
      PROVE  Met(S, l, n) = Met(S, l, n - 1) + IF l[Len(l) - n] \in S THEN 1 ELSE 0
  <2> DEFINE it == l[Len(l) - n]
             P == S \cap Near(l, n - 1)
  <2>1. it \notin Near(l, n - 1) /\ Near(l, n) = Near(l, n - 1) \cup {it}
    BY NearIs
  <2>2. n - 1 \in 0 .. Len(l) - 1
    BY <1>1
  <2>3. IsFiniteSet(P)
    BY <1>2, <2>2
  <2> HIDE DEF it
  <2>4. it \notin P /\ S \cap Near(l, n) = IF it \in S THEN P \cup {it} ELSE P
    BY <2>1
  <2> HIDE DEF P
  <2>5. Cardinality(P) \in Nat /\ Cardinality(P \cup {it}) = Cardinality(P) + 1
    BY <2>3, <2>4, FS_CardinalityType, FS_AddElement
  <2>6. Met(S, l, n - 1) = Cardinality(P)
    BY DEF Met, P
  <2>7. Met(S, l, n) = Cardinality(IF it \in S THEN P \cup {it} ELSE P)
    BY <2>4 DEF Met
  <2>8. Met(S, l, n) = Met(S, l, n - 1) + IF it \in S THEN 1 ELSE 0
    BY <2>5, <2>6, <2>7
  <2> QED BY <2>8 DEF it
<1>7. \A n \in 0 .. Len(l) - 1 : Met(S, l, n) \in Nat
  BY <1>2, FS_CardinalityType DEF Met
<1>8. S \cap Near(l, Len(l) - 1) = S
  OBVIOUS
<1> QED BY <1>3, <1>5, <1>6, <1>7, <1>8 DEF Met

CountsUp(S, l) ==
  \A n \in 1 .. Len(l) - 1 :
    Met(S, l, n) = Met(S, l, n - 1) + IF l[Len(l) - n] \in S THEN 1 ELSE 0

LEMMA MetCountsUp ==
  ASSUME NEW l \in Seq(Items), Rising(l), NEW S, S \subseteq Near(l, Len(l) - 1)
  PROVE  CountsUp(S, l)
BY MetIs DEF CountsUp

(* An item is among the m first ones of S when fewer than m precede it.    *)
LEMMA TopMember ==
  ASSUME NEW l \in Seq(Items), Rising(l), NEW S, S \subseteq Near(l, Len(l) - 1), NEW m,
         NEW n \in 1 .. Len(l) - 1
  PROVE  l[Len(l) - n] \in TopN(S, m) <=> l[Len(l) - n] \in S /\ Met(S, l, n - 1) < m
<1> DEFINE it == l[Len(l) - n]
<1>1. Near(l, n - 1) = {o \in Near(l, Len(l) - 1) : o.lo > it.lo}
  BY NearIs
<1> HIDE DEF it
<1>2. {o \in S : o.lo > it.lo} = S \cap Near(l, n - 1)
  BY <1>1
<1>3. it \in TopN(S, m) <=> it \in S /\ Cardinality({o \in S : o.lo > it.lo}) < m
  BY DEF TopN
<1>4. it \in TopN(S, m) <=> it \in S /\ Met(S, l, n - 1) < m
  BY <1>2, <1>3 DEF Met
<1> QED BY <1>4 DEF it

(* The m first ones of S are m, or all of S.                               *)
LEMMA TopCount ==
  ASSUME NEW l \in Seq(Items), Rising(l), l # <<>>, NEW S, S \subseteq Near(l, Len(l) - 1), NEW m \in Nat
  PROVE  /\ TopN(S, m) \subseteq Near(l, Len(l) - 1)
         /\ \A n \in 0 .. Len(l) - 1 :
              Met(TopN(S, m), l, n) = IF Met(S, l, n) < m THEN Met(S, l, n) ELSE m
<1> DEFINE T == TopN(S, m)
<1>1. T \subseteq Near(l, Len(l) - 1) /\ Len(l) - 1 \in Nat
  BY Domains DEF TopN
<1> DEFINE Q == {n \in 0 .. Len(l) - 1 : Met(T, l, n) = IF Met(S, l, n) < m THEN Met(S, l, n) ELSE m}
<1>2. /\ \A n \in 0 .. Len(l) - 1 : Met(S, l, n) \in Nat
      /\ Met(S, l, 0) = 0
      /\ \A n \in 1 .. Len(l) - 1 :
           Met(S, l, n) = Met(S, l, n - 1) + IF l[Len(l) - n] \in S THEN 1 ELSE 0
  BY MetIs
<1>3. /\ Met(T, l, 0) = 0
      /\ \A n \in 1 .. Len(l) - 1 :
           Met(T, l, n) = Met(T, l, n - 1) + IF l[Len(l) - n] \in T THEN 1 ELSE 0
  BY <1>1, MetIs
<1>4. \A n \in 1 .. Len(l) - 1 : l[Len(l) - n] \in T <=> l[Len(l) - n] \in S /\ Met(S, l, n - 1) < m
  BY TopMember
<1> HIDE DEF T
<1>5. 0 \in Q
  BY <1>1, <1>2, <1>3
<1>6. ASSUME NEW n \in 1 .. Len(l) - 1, n - 1 \in Q
      PROVE  n \in Q
  <2>1. n \in 0 .. Len(l) - 1 /\ n - 1 \in 0 .. Len(l) - 1
    BY <1>1
  <2> DEFINE a == Met(S, l, n - 1)
             b == Met(T, l, n - 1)
             c == Met(S, l, n)
             d == Met(T, l, n)
  <2>2. b = (IF a < m THEN a ELSE m) /\ a \in Nat
    BY <1>2, <1>6, <2>1
  <2>3. /\ c = a + IF l[Len(l) - n] \in S THEN 1 ELSE 0
        /\ d = b + IF l[Len(l) - n] \in T THEN 1 ELSE 0
        /\ l[Len(l) - n] \in T <=> l[Len(l) - n] \in S /\ a < m
    BY <1>2, <1>3, <1>4
  <2> HIDE DEF a, b, c, d
  <2>4. d = IF c < m THEN c ELSE m
    BY <2>2, <2>3
  <2> QED BY <2>1, <2>4 DEF c, d
<1>7. \A n \in 0 .. Len(l) - 1 : n \in Q
  <2> HIDE DEF Q
  <2> QED BY <1>1, <1>5, <1>6, UpTo
<1> QED BY <1>1, <1>7 DEF T

LEMMA TopSize ==
  ASSUME NEW l \in Seq(Items), Rising(l), l # <<>>, NEW S, S \subseteq Near(l, Len(l) - 1), NEW m \in Nat
  PROVE  Cardinality(TopN(S, m)) = IF Cardinality(S) < m THEN Cardinality(S) ELSE m
<1>1. Len(l) - 1 \in 0 .. Len(l) - 1
  BY Domains
<1>2. /\ TopN(S, m) \subseteq Near(l, Len(l) - 1)
      /\ Met(TopN(S, m), l, Len(l) - 1) = IF Met(S, l, Len(l) - 1) < m THEN Met(S, l, Len(l) - 1) ELSE m
  BY <1>1, TopCount
<1>3. Met(TopN(S, m), l, Len(l) - 1) = Cardinality(TopN(S, m))
  BY <1>2, MetIs
<1>4. Met(S, l, Len(l) - 1) = Cardinality(S)
  BY MetIs
<1> QED BY <1>2, <1>3, <1>4

CountsFirst(S, l, m) ==
  \A n \in 0 .. Len(l) - 1 :
    Met(TopN(S, m), l, n) = IF Met(S, l, n) < m THEN Met(S, l, n) ELSE m

LEMMA TopCountsFirst ==
  ASSUME NEW l \in Seq(Items), Rising(l), l # <<>>, NEW S, S \subseteq Near(l, Len(l) - 1), NEW m \in Nat
  PROVE  CountsFirst(S, l, m)
BY TopCount DEF CountsFirst

(* The items of B that were sent at most n times.                          *)
AtMost(B, k, n) == {it \in B : it.sent[k] <= n}

LEMMA SentTimes ==
  ASSUME NEW it \in Items, NEW k \in Kinds
  PROVE  it.sent[k] \in 0 .. Repeat + 1 /\ it.sent[k] \in Nat
<1>1. it.sent \in [Kinds -> 0 .. Repeat + 1]
  BY ItemIs DEF SentCounts
<1>2. it.sent[k] \in 0 .. Repeat + 1
  BY <1>1
<1> QED BY <1>2, SackListAssumption

(* What was sent at most n times, one count at a time.                     *)
LEMMA AtMostIs ==
  ASSUME NEW B, IsFiniteSet(B), B \subseteq Items, NEW k \in Kinds
  PROVE  /\ \A n \in Nat : Cardinality(AtMost(B, k, n)) \in Nat
         /\ Cardinality(AtMost(B, k, 0)) = Times(B, k, 0)
         /\ \A n \in Nat \ {0} :
              Cardinality(AtMost(B, k, n)) = Cardinality(AtMost(B, k, n - 1)) + Times(B, k, n)
         /\ \A n \in Nat : Times(B, k, n) \in Nat
<1>1. \A it \in B : it.sent[k] \in Nat
  BY SentTimes
<1>2. ASSUME NEW n \in Nat
      PROVE  /\ IsFiniteSet(AtMost(B, k, n)) /\ IsFiniteSet({it \in B : it.sent[k] = n})
             /\ Cardinality(AtMost(B, k, n)) \in Nat /\ Times(B, k, n) \in Nat
  <2>1. AtMost(B, k, n) \in SUBSET B /\ {it \in B : it.sent[k] = n} \in SUBSET B
    BY DEF AtMost
  <2>2. IsFiniteSet(AtMost(B, k, n)) /\ IsFiniteSet({it \in B : it.sent[k] = n})
    BY <2>1, FS_Subset
  <2> QED BY <2>2, FS_CardinalityType DEF Times
<1>3. AtMost(B, k, 0) = {it \in B : it.sent[k] = 0}
  BY <1>1 DEF AtMost
<1>4. ASSUME NEW n \in Nat \ {0}
      PROVE  Cardinality(AtMost(B, k, n)) = Cardinality(AtMost(B, k, n - 1)) + Times(B, k, n)
  <2> DEFINE E == {it \in B : it.sent[k] = n}
             A == AtMost(B, k, n - 1)
  <2>1. n - 1 \in Nat
    OBVIOUS
  <2>2. \A it \in B : /\ it.sent[k] <= n <=> (it.sent[k] <= n - 1 \/ it.sent[k] = n)
                      /\ ~(it.sent[k] <= n - 1 /\ it.sent[k] = n)
    BY <1>1
  <2>3. AtMost(B, k, n) = A \cup E /\ A \cap E = {}
    BY <2>2 DEF AtMost
  <2>4. IsFiniteSet(A) /\ IsFiniteSet(E) /\ Cardinality(A) \in Nat /\ Cardinality(E) \in Nat
    BY <1>2, <2>1, FS_CardinalityType
  <2>5. Cardinality(E) = Times(B, k, n)
    BY DEF Times
  <2> HIDE DEF A, E
  <2>6. Cardinality(A \cup E) = Cardinality(A) + Cardinality(E) - Cardinality(A \cap E)
    BY <2>4, FS_Union
  <2>7. Cardinality(A \cap E) = 0
    BY <2>3, FS_EmptySet
  <2> QED BY <2>3, <2>4, <2>5, <2>6, <2>7 DEF A
<1> QED BY <1>2, <1>3, <1>4 DEF Times

(* What the encoder may choose from.                                       *)
Enough(B, k) == {i \in 0 .. Repeat - 1 : Cardinality(AtMost(B, k, i)) >= ListBlocks}

LEMMA SelectMaxIs ==
  ASSUME NEW L, NEW k, NEW x
  PROVE  SelectMax(L, k, x, ListBlocks) =
           IF Enough(L \ {x}, k) = {} THEN [max |-> Repeat, skip |-> 0]
           ELSE [max |-> Min(Enough(L \ {x}, k)),
                 skip |-> Cardinality(AtMost(L \ {x}, k, Min(Enough(L \ {x}, k)))) - ListBlocks]
  BY DEF SelectMax, Enough, AtMost

(* The counters give the selection that counting afresh gives.             *)
Summed(f, c, first) ==
  f = [i \in 0 .. Repeat - 1 |-> (c[i] - IF i = first THEN 1 ELSE 0) + IF i = 0 THEN 0 ELSE f[i - 1]]

LEMMA SelectIs ==
  ASSUME NEW s, Sound(s), s.list # <<>>, NEW k \in Kinds
  PROVE  SelectAckRanges(s.rc[k], s.list[Len(s.list)].sent[k])
           = SelectMax(ToSet(s.list), k, s.list[Len(s.list)], ListBlocks)
<1> DEFINE L == ToSet(s.list)
           x == s.list[Len(s.list)]
           B == L \ {x}
           c == s.rc[k]
           first == x.sent[k]
           g == [i \in 0 .. Repeat - 1 |-> Cardinality(AtMost(B, k, i))]
           f == CHOOSE h : Summed(h, c, first)
<1>1. s.list \in Seq(Items) /\ s \in Sacks /\ CountsExact(s)
  BY SoundIs DEF Sound
<1>2. x \in L /\ IsFiniteSet(L) /\ L \subseteq Items
  <2>1. Len(s.list) \in 1 .. Len(s.list)
    BY <1>1, Domains
  <2> QED BY <1>1, <2>1, AllMembers, ItemsFinite
<1>3. IsFiniteSet(B) /\ B \subseteq Items
  BY <1>2, FS_RemoveElement
<1>4. B = L \ {x} /\ first = x.sent[k] /\ Repeat \in Nat /\ Repeat >= 1
  BY SackListAssumption
<1>5. \A i \in 0 .. Repeat - 1 : c[i] = Times(L, k, i)
  BY <1>1, ExactIs
<1> HIDE DEF x, L, c, first, B
<1>6. \A i \in 0 .. Repeat - 1 : (c[i] - IF i = first THEN 1 ELSE 0) = Times(B, k, i)
  <2> SUFFICES ASSUME NEW i \in 0 .. Repeat - 1
               PROVE  (c[i] - IF i = first THEN 1 ELSE 0) = Times(B, k, i)
    OBVIOUS
  <2>1. Times(L \ {x}, k, i) = Times(L, k, i) - One(x, k, i)
    BY <1>2, TimesRemove
  <2>2. One(x, k, i) = IF i = first THEN 1 ELSE 0
    BY <1>4 DEF One
  <2> QED BY <1>4, <1>5, <2>1, <2>2
<1>7. /\ \A n \in Nat : Cardinality(AtMost(B, k, n)) \in Nat
      /\ Cardinality(AtMost(B, k, 0)) = Times(B, k, 0)
      /\ \A n \in Nat \ {0} :
           Cardinality(AtMost(B, k, n)) = Cardinality(AtMost(B, k, n - 1)) + Times(B, k, n)
      /\ \A n \in Nat : Times(B, k, n) \in Nat
  BY <1>3, AtMostIs
<1>8. Summed(g, c, first)
  <2>1. ASSUME NEW i \in 0 .. Repeat - 1
        PROVE  g[i] = (c[i] - IF i = first THEN 1 ELSE 0) + IF i = 0 THEN 0 ELSE g[i - 1]
    <3>1. g[i] = Cardinality(AtMost(B, k, i)) /\ i \in Nat
      OBVIOUS
    <3>2. CASE i = 0
      <4>1. Times(B, k, 0) \in Nat
        BY <1>7
      <4> QED BY <1>6, <1>7, <3>1, <3>2, <4>1
    <3>3. CASE i # 0
      <4>1. i \in Nat \ {0} /\ i - 1 \in 0 .. Repeat - 1 /\ i - 1 \in Nat
        BY <1>4, <3>1, <3>3
      <4>2. g[i - 1] = Cardinality(AtMost(B, k, i - 1))
        BY <4>1
      <4> HIDE DEF g
      <4>3. /\ Cardinality(AtMost(B, k, i)) = Cardinality(AtMost(B, k, i - 1)) + Times(B, k, i)
            /\ Cardinality(AtMost(B, k, i - 1)) \in Nat /\ Times(B, k, i) \in Nat
        BY <1>7, <3>1, <4>1
      <4>4. (c[i] - IF i = first THEN 1 ELSE 0) = Times(B, k, i)
        BY <1>6
      <4> QED BY <3>1, <3>3, <4>2, <4>3, <4>4
    <3> QED BY <3>2, <3>3
  <2>2. g = [i \in 0 .. Repeat - 1 |-> g[i]]
    OBVIOUS
  <2> HIDE DEF g
  <2> QED BY <2>1, <2>2, Zenon DEF Summed
<1> HIDE DEF g
<1>9. Summed(f, c, first)
  BY <1>8, Zenon
<1>10. SelectAckRanges(c, first) = Selection(f)
  BY Zenon DEF SelectAckRanges, Summed
<1> HIDE DEF f
<1>11. \A i \in 0 .. Repeat - 1 : f[i] = g[i]
  <2> DEFINE S == {i \in 0 .. Repeat - 1 : f[i] = g[i]}
  <2>1. \A i \in 0 .. Repeat - 1 :
          /\ f[i] = (c[i] - IF i = first THEN 1 ELSE 0) + IF i = 0 THEN 0 ELSE f[i - 1]
          /\ g[i] = (c[i] - IF i = first THEN 1 ELSE 0) + IF i = 0 THEN 0 ELSE g[i - 1]
    BY <1>8, <1>9, Zenon DEF Summed
  <2>2. 0 \in S
    <3>1. 0 \in 0 .. Repeat - 1
      BY <1>4
    <3> QED BY <2>1, <3>1
  <2>3. ASSUME NEW n \in 1 .. Repeat - 1, n - 1 \in S
        PROVE  n \in S
    <3>1. n \in 0 .. Repeat - 1 /\ n # 0
      BY <1>4
    <3>2. f[n] = (c[n] - IF n = first THEN 1 ELSE 0) + f[n - 1]
      BY <2>1, <3>1
    <3>3. g[n] = (c[n] - IF n = first THEN 1 ELSE 0) + g[n - 1]
      BY <2>1, <3>1
    <3> QED BY <2>3, <3>1, <3>2, <3>3
  <2>4. Repeat - 1 \in Nat
    BY <1>4
  <2> HIDE DEF S
  <2>5. \A i \in 0 .. Repeat - 1 : i \in S
    BY <2>2, <2>3, <2>4, UpTo
  <2> QED BY <2>5 DEF S
<1>12. \A i \in 0 .. Repeat - 1 : f[i] = Cardinality(AtMost(B, k, i))
  BY <1>11 DEF g
<1>13. {i \in 0 .. Repeat - 1 : f[i] >= ListBlocks} = Enough(B, k)
  BY <1>12 DEF Enough
<1>14. Selection(f) = IF Enough(B, k) = {} THEN [max |-> Repeat, skip |-> 0]
                      ELSE [max |-> Min(Enough(B, k)), skip |-> f[Min(Enough(B, k))] - ListBlocks]
  BY <1>13, Zenon DEF Selection
<1>15. CASE Enough(B, k) = {}
  <2>1. Selection(f) = SelectMax(L, k, x, ListBlocks)
    BY <1>4, <1>14, <1>15, SelectMaxIs
  <2> QED BY <1>10, <2>1 DEF L, x, c, first
<1>16. CASE Enough(B, k) # {}
  <2>1. Enough(B, k) \subseteq Nat
    BY DEF Enough
  <2>2. Min(Enough(B, k)) \in Enough(B, k)
    BY <1>16, <2>1, LeastIs
  <2>3. Min(Enough(B, k)) \in 0 .. Repeat - 1
    BY <2>2 DEF Enough
  <2>4. f[Min(Enough(B, k))] = Cardinality(AtMost(B, k, Min(Enough(B, k))))
    BY <1>12, <2>3
  <2>5. Selection(f) = SelectMax(L, k, x, ListBlocks)
    BY <1>4, <1>14, <1>16, <2>4, SelectMaxIs
  <2> QED BY <1>10, <2>5 DEF L, x, c, first
<1> QED BY <1>15, <1>16

(* Either few ranges were sent fewer than Repeat times, or the selection   *)
(* ends at the count where there are enough and skips the excess.          *)
Fitted(sel, B, k) ==
  /\ sel.max \in 0 .. Repeat /\ sel.skip \in Nat
  /\ \/ /\ sel.max = Repeat /\ sel.skip = 0
        /\ Cardinality(AtMost(B, k, Repeat - 1)) < ListBlocks
     \/ /\ Cardinality(AtMost(B, k, sel.max)) = ListBlocks + sel.skip
        /\ sel.skip <= Times(B, k, sel.max)

LEMMA SelectMaxBounds ==
  ASSUME NEW L \in SUBSET Items, IsFiniteSet(L), NEW k \in Kinds, NEW x,
         NEW sel, sel = SelectMax(L, k, x, ListBlocks)
  PROVE  Fitted(sel, L \ {x}, k)
<1> DEFINE B == L \ {x}
           E == Enough(B, k)
           m == Min(E)
<1>1. Repeat \in Nat /\ Repeat >= 1 /\ ListBlocks \in Nat /\ ListBlocks >= 1
  BY SackListAssumption
<1>2. IsFiniteSet(B) /\ B \subseteq Items
  BY FS_RemoveElement
<1>3. sel = IF E = {} THEN [max |-> Repeat, skip |-> 0]
            ELSE [max |-> m, skip |-> Cardinality(AtMost(B, k, m)) - ListBlocks]
  BY SelectMaxIs
<1> HIDE DEF B
<1>4. /\ \A n \in Nat : Cardinality(AtMost(B, k, n)) \in Nat
      /\ Cardinality(AtMost(B, k, 0)) = Times(B, k, 0)
      /\ \A n \in Nat \ {0} :
           Cardinality(AtMost(B, k, n)) = Cardinality(AtMost(B, k, n - 1)) + Times(B, k, n)
      /\ \A n \in Nat : Times(B, k, n) \in Nat
  BY <1>2, AtMostIs
<1>5. CASE E = {}
  <2>1. sel.max = Repeat /\ sel.skip = 0
    BY <1>3, <1>5
  <2>2. Repeat - 1 \in 0 .. Repeat - 1 /\ Repeat - 1 \in Nat
    BY <1>1
  <2>3. ~(Cardinality(AtMost(B, k, Repeat - 1)) >= ListBlocks)
    BY <1>5, <2>2 DEF Enough
  <2>4. Cardinality(AtMost(B, k, Repeat - 1)) < ListBlocks
    BY <1>1, <1>4, <2>2, <2>3
  <2> QED BY <1>1, <2>1, <2>4 DEF B, Fitted
<1>6. CASE E # {}
  <2>1. E \subseteq Nat
    BY DEF Enough
  <2>2. m \in E /\ \A i \in E : m <= i
    <3> HIDE DEF E
    <3> QED BY <1>6, <2>1, LeastIs
  <2>3. sel.max = m /\ sel.skip = Cardinality(AtMost(B, k, m)) - ListBlocks
    BY <1>3, <1>6
  <2> HIDE DEF m
  <2>4. m \in 0 .. Repeat - 1 /\ m \in Nat /\ Cardinality(AtMost(B, k, m)) >= ListBlocks
    BY <2>2 DEF Enough
  <2>5. Cardinality(AtMost(B, k, m)) \in Nat /\ Times(B, k, m) \in Nat
    BY <1>4, <2>4
  <2>6. Cardinality(AtMost(B, k, m)) - ListBlocks <= Times(B, k, m)
    <3>1. CASE m = 0
      BY <1>1, <1>4, <2>5, <3>1
    <3>2. CASE m # 0
      <4>1. m \in Nat \ {0} /\ m - 1 \in 0 .. Repeat - 1 /\ m - 1 \in Nat /\ ~(m <= m - 1)
        BY <1>1, <2>4, <3>2
      <4>2. ~(Cardinality(AtMost(B, k, m - 1)) >= ListBlocks)
        BY <2>2, <4>1 DEF Enough
      <4>3. /\ Cardinality(AtMost(B, k, m - 1)) \in Nat
            /\ Cardinality(AtMost(B, k, m)) = Cardinality(AtMost(B, k, m - 1)) + Times(B, k, m)
        BY <1>4, <4>1
      <4> QED BY <1>1, <2>5, <4>2, <4>3
    <3> QED BY <3>1, <3>2
  <2>7. /\ sel.max \in 0 .. Repeat /\ sel.skip \in Nat
        /\ Cardinality(AtMost(B, k, sel.max)) = ListBlocks + sel.skip
        /\ sel.skip <= Times(B, k, sel.max)
    BY <1>1, <2>3, <2>4, <2>5, <2>6
  <2> QED BY <2>7 DEF B, Fitted
<1> QED BY <1>5, <1>6

(* The items below the top one that the encoder chooses, as SelectedBelow  *)
(* says.                                                                   *)
Eligible(B, k, sel) == {it \in B : it.sent[k] <= sel.max}
MostSent(B, k, sel) == {it \in Eligible(B, k, sel) : it.sent[k] = sel.max}
Candidates(B, k, sel) == Eligible(B, k, sel) \ TopN(MostSent(B, k, sel), sel.skip)
Chosen(B, k, sel, room) == TopN(Candidates(B, k, sel), room)

LEMMA SelectedBelowIs ==
  ASSUME NEW L, NEW k, NEW x, NEW room \in 0 .. ListBlocks
  PROVE  SelectedBelow(L, k, x, ListBlocks, room)
           = Chosen(L \ {x}, k, SelectMax(L, k, x, ListBlocks), room)
<1>1. (IF room < ListBlocks THEN room ELSE ListBlocks) = room
  BY SackListAssumption
<1> QED BY <1>1 DEF SelectedBelow, Chosen, Candidates, MostSent, Eligible

LEMMA BelowTop ==
  ASSUME NEW l \in Seq(Items), Rising(l), l # <<>>
  PROVE  /\ Near(l, Len(l) - 1) = ToSet(l) \ {l[Len(l)]}
         /\ Near(l, Len(l) - 1) = {l[j] : j \in 1 .. Len(l) - 1}
         /\ Len(l) \in 1 .. Len(l) /\ Len(l) - 1 \in Nat
         /\ l[Len(l)] \in ToSet(l) /\ ToSet(l) \in SUBSET Items
<1>1. /\ Len(l) \in 1 .. Len(l) /\ Len(l) - 1 \in Nat /\ Len(l) - (Len(l) - 1) = 1
      /\ DOMAIN l = 1 .. Len(l) /\ Len(l) \in Nat
  BY Domains
<1>2. Near(l, Len(l) - 1) = {l[j] : j \in 1 .. Len(l) - 1}
  BY <1>1 DEF Near
<1>3. \A j \in 1 .. Len(l) : j \in 1 .. Len(l) - 1 \/ j = Len(l)
  <2> DEFINE N == Len(l)
  <2>1. N \in Nat
    BY <1>1
  <2> HIDE DEF N
  <2>2. \A j \in 1 .. N : j \in 1 .. N - 1 \/ j = N
    BY <2>1
  <2> QED BY <2>2 DEF N
<1>4. \A j \in 1 .. Len(l) - 1 : j \in 1 .. Len(l) /\ l[j] # l[Len(l)]
  <2> SUFFICES ASSUME NEW j \in 1 .. Len(l) - 1
               PROVE  j \in 1 .. Len(l) /\ l[j] # l[Len(l)]
    OBVIOUS
  <2> DEFINE N == Len(l)
  <2>1. j \in 1 .. Len(l) /\ j # Len(l)
    <3>1. N \in Nat /\ j \in 1 .. N - 1
      BY <1>1
    <3> HIDE DEF N
    <3>2. j \in 1 .. N /\ j # N
      BY <3>1
    <3> QED BY <3>2 DEF N
  <2> QED BY <1>1, <2>1, RisingIsOne
<1>5. ToSet(l) = {l[j] : j \in 1 .. Len(l)}
  BY <1>1 DEF ToSet
<1>6. Near(l, Len(l) - 1) = ToSet(l) \ {l[Len(l)]}
  BY <1>2, <1>3, <1>4, <1>5
<1> QED BY <1>1, <1>2, <1>6, AllMembers

(* The encoder after n turns on the list l.  Its list has the ranges of l; *)
(* the items it has not visited are unchanged.                             *)
Recorded(s, l, n) ==
  /\ Sound(s) /\ Len(s.list) = Len(l)
  /\ \A j \in 1 .. Len(l) : s.list[j].lo = l[j].lo /\ s.list[j].hi = l[j].hi
  /\ \A j \in 1 .. Len(l) - 1 - n : s.list[j] = l[j]

(* The frame goes down to an item it has visited.                          *)
Framed(F, l, n) ==
  /\ FrameOK(F) /\ Len(F) >= 1
  /\ \A i \in DOMAIN F : l[Len(l) - n].lo <= F[i].lo

(* The frame has the ranges of the chosen items T it has visited.          *)
Picked(F, l, T, n) ==
  /\ ToSet(F) = {Bare(it) : it \in (T \cap Near(l, n)) \cup {l[Len(l)]}}
  /\ Len(F) - 1 = Met(T, l, n)

(* It has skipped the first of the items M.                                *)
Skips(a, l, M, skip, n) ==
  Len(a.frame) - 1 < ListBlocks =>
    a.skip = IF Met(M, l, n) < skip THEN skip - Met(M, l, n) ELSE 0

(* A turn leaves the frame alone, or puts item i into it.                  *)
Leaves(b, a) == b.sack = a.sack /\ b.frame = a.frame
Puts(b, a, i, k) ==
  b.sack = RecordSent(a.sack, i, k) /\ b.frame = Append(a.frame, Bare(a.sack.list[i]))

LEMMA TurnIs ==
  ASSUME NEW l \in Seq(Items), Rising(l), l # <<>>, NEW k \in Kinds,
         NEW sel, sel.max \in Nat, sel.skip \in Nat, NEW room \in 0 .. ListBlocks,
         NEW n \in 1 .. Len(l) - 1,
         NEW a \in Encodings, a.sack.list[Len(l) - n] = l[Len(l) - n],
         Len(a.frame) - 1 = Met(Chosen(Near(l, Len(l) - 1), k, sel, room), l, n - 1),
         Skips(a, l, MostSent(Near(l, Len(l) - 1), k, sel), sel.skip, n - 1),
         NEW b, b = EncodeItem(a, Len(l) - n, k, sel.max, room)
  PROVE  /\ IF l[Len(l) - n] \in Chosen(Near(l, Len(l) - 1), k, sel, room)
            THEN Puts(b, a, Len(l) - n, k) ELSE Leaves(b, a)
         /\ Skips(b, l, MostSent(Near(l, Len(l) - 1), k, sel), sel.skip, n)
         /\ b.skip \in Int
         /\ b = [sack |-> b.sack, frame |-> b.frame, skip |-> b.skip]
<1> DEFINE B == Near(l, Len(l) - 1)
           M == MostSent(B, k, sel)
           C == Candidates(B, k, sel)
           T == Chosen(B, k, sel, room)
           i == Len(l) - n
           it == l[i]
           c == Met(C, l, n - 1)
           m == Met(M, l, n - 1)
           p == Met(M, l, n)
           z == Len(a.frame) - 1
           v == it.sent[k]
           top == sel.max
           skip == sel.skip
<1>1. M \subseteq B /\ C \subseteq B
  BY DEF MostSent, Candidates, Eligible
<1>2. /\ n - 1 \in 0 .. Len(l) - 1 /\ n \in 0 .. Len(l) - 1 /\ i \in 1 .. Len(l)
      /\ room \in Nat /\ ListBlocks \in Nat /\ room <= ListBlocks
  BY Domains, SackListAssumption
<1>3. m \in Nat /\ p = m + IF it \in M THEN 1 ELSE 0
  <2> HIDE DEF M
  <2>1. Met(M, l, n - 1) \in Nat
    BY <1>1, <1>2, MetIs
  <2>2. Met(M, l, n) = Met(M, l, n - 1) + IF l[Len(l) - n] \in M THEN 1 ELSE 0
    <3>1. CountsUp(M, l)
      BY <1>1, MetCountsUp
    <3> QED BY <3>1 DEF CountsUp
  <2> QED BY <2>1, <2>2
<1>4. c \in Nat
  <2> HIDE DEF C
  <2> QED BY <1>1, <1>2, MetIs
<1>5. z = IF c < room THEN c ELSE room
  <2>1. Met(TopN(C, room), l, n - 1) = IF c < room THEN c ELSE room
    <3> HIDE DEF C
    <3>1. CountsFirst(C, l, room)
      BY <1>1, <1>2, TopCountsFirst
    <3> QED BY <1>2, <3>1 DEF CountsFirst
  <2> QED BY <2>1 DEF Chosen
<1>6. it \in T <=> it \in C /\ c < room
  <2>1. it \in TopN(C, room) <=> it \in C /\ c < room
    BY <1>1, TopMember
  <2> QED BY <2>1 DEF Chosen
<1>7. it \in B
  <2>1. i \in 1 .. Len(l) - 1
    BY <1>2, Domains
  <2> QED BY <2>1, BelowTop
<1>8. it \in M <=> v = top
  <2>1. v \in Nat
    BY <1>2, Domains, SentTimes
  <2> QED BY <1>7, <2>1 DEF MostSent, Eligible
<1>9. it \in C <=> v <= top /\ ~(v = top /\ m < skip)
  <2>1. it \in TopN(M, skip) <=> it \in M /\ m < skip
    BY <1>1, TopMember
  <2> QED BY <1>7, <1>8, <2>1 DEF Candidates, Eligible
<1>10. z < ListBlocks => a.skip = IF m < skip THEN skip - m ELSE 0
  BY DEF Skips
<1>11. /\ a.skip \in Int /\ a.frame \in Seq(Ranges)
       /\ a = [sack |-> a.sack, frame |-> a.frame, skip |-> a.skip]
  BY DEF Encodings
<1>12. v \in Nat
  BY <1>2, Domains, SentTimes
<1>13. b = IF z = ListBlocks \/ v > top THEN a
           ELSE IF v = top /\ a.skip > 0 THEN [a EXCEPT !.skip = @ - 1]
           ELSE IF z = room THEN a
           ELSE [a EXCEPT !.sack = RecordSent(@, i, k), !.frame = Append(@, Bare(a.sack.list[i]))]
  BY DEF EncodeItem, Blocks
<1>14. top \in Nat /\ skip \in Nat
  OBVIOUS
<1>15. (Len(b.frame) - 1 < ListBlocks => b.skip = IF p < skip THEN skip - p ELSE 0)
         => Skips(b, l, M, skip, n)
  BY DEF Skips
<1>16. a.sack.list[i] = it /\ z = Len(a.frame) - 1
  OBVIOUS
<1> DEFINE same == [a EXCEPT !.skip = @ - 1]
           put == [a EXCEPT !.sack = RecordSent(@, i, k), !.frame = Append(@, Bare(a.sack.list[i]))]
<1>17. same.sack = a.sack /\ same.frame = a.frame /\ same.skip = a.skip - 1
      /\ same = [sack |-> same.sack, frame |-> same.frame, skip |-> same.skip]
  <2> DEFINE w == a.skip - 1
  <2>1. same = [a EXCEPT !.skip = w]
    OBVIOUS
  <2> HIDE DEF w, same
  <2>2. same = [sack |-> a.sack, frame |-> a.frame, skip |-> w]
    BY <2>1 DEF Encodings
  <2> QED BY <2>2 DEF w
<1>18. Puts(put, a, i, k) /\ put.skip = a.skip
      /\ put = [sack |-> put.sack, frame |-> put.frame, skip |-> put.skip]
      /\ Len(put.frame) - 1 = z + 1
  <2> DEFINE r == RecordSent(a.sack, i, k)
             f == Append(a.frame, Bare(a.sack.list[i]))
  <2>1. put = [a EXCEPT !.sack = r, !.frame = f]
    OBVIOUS
  <2>2. Len(f) = Len(a.frame) + 1 /\ Len(a.frame) \in Nat
    BY <1>11
  <2>3. Puts(put, a, i, k) <=> put.sack = r /\ put.frame = f
    BY DEF Puts
  <2> HIDE DEF r, f, put
  <2>4. put = [sack |-> r, frame |-> f, skip |-> a.skip]
    BY <2>1 DEF Encodings
  <2>5. put.sack = r /\ put.frame = f /\ put.skip = a.skip
    BY <2>4
  <2>6. Len(put.frame) - 1 = z + 1
    BY <2>2, <2>5
  <2> QED BY <2>3, <2>4, <2>5, <2>6
<1>19. (it \in T => Puts(b, a, i, k)) /\ (it \notin T => Leaves(b, a))
       /\ (Len(b.frame) - 1 < ListBlocks => b.skip = IF p < skip THEN skip - p ELSE 0)
       /\ b.skip \in Int /\ b = [sack |-> b.sack, frame |-> b.frame, skip |-> b.skip]
  <2> HIDE DEF B, M, C, T, it, c, m, p, z, v, top, skip, same, put, i
  <2>1. CASE z = ListBlocks \/ v > top
    <3>1. b = a
      BY <1>13, <2>1
    <3>2. it \notin T
      BY <1>2, <1>4, <1>5, <1>6, <1>9, <1>12, <1>14, <2>1
    <3>3. z < ListBlocks => p = m
      <4> SUFFICES ASSUME z < ListBlocks
                   PROVE  p = m
        OBVIOUS
      <4>1. v > top
        BY <1>2, <1>4, <1>5, <2>1
      <4>2. it \notin M
        BY <1>8, <1>12, <1>14, <4>1
      <4> QED BY <1>3, <4>2
    <3> QED BY <1>10, <1>11, <1>16, <3>1, <3>2, <3>3 DEF Leaves
  <2>2. CASE ~(z = ListBlocks \/ v > top) /\ v = top /\ a.skip > 0
    <3>1. b = same
      BY <1>13, <2>2 DEF same
    <3>2. z < ListBlocks /\ m < skip
      BY <1>2, <1>3, <1>4, <1>5, <1>10, <1>14, <2>2
    <3>3. it \notin T
      BY <1>6, <1>9, <2>2, <3>2
    <3>4. p = m + 1
      BY <1>3, <1>8, <2>2
    <3>5. a.skip - 1 = IF p < skip THEN skip - p ELSE 0
      BY <1>3, <1>10, <1>14, <3>2, <3>4
    <3> QED BY <1>11, <1>17, <3>1, <3>3, <3>5 DEF Leaves
  <2>3. CASE ~(z = ListBlocks \/ v > top) /\ ~(v = top /\ a.skip > 0)
    <3>1. z < ListBlocks /\ v <= top
      BY <1>2, <1>4, <1>5, <1>12, <1>14, <2>3
    <3>2. ~(v = top /\ m < skip)
      <4> SUFFICES ASSUME v = top, m < skip
                   PROVE  FALSE
        OBVIOUS
      <4>1. a.skip = skip - m
        BY <1>10, <3>1
      <4> QED BY <1>3, <1>14, <2>3, <4>1
    <3>3. it \in C
      BY <1>9, <3>1, <3>2
    <3>4. (IF m < skip THEN skip - m ELSE 0) = IF p < skip THEN skip - p ELSE 0
      BY <1>3, <1>8, <1>14, <3>2
    <3>5. a.skip = IF p < skip THEN skip - p ELSE 0
      BY <1>10, <3>1, <3>4
    <3>6. CASE z = room
      <4>1. b = a
        BY <1>13, <2>3, <3>6
      <4>2. it \notin T
        BY <1>2, <1>4, <1>5, <1>6, <3>6
      <4> QED BY <1>11, <3>5, <4>1, <4>2 DEF Leaves
    <3>7. CASE z # room
      <4>1. b = put
        BY <1>13, <2>3, <3>7 DEF put
      <4>2. it \in T
        BY <1>2, <1>4, <1>5, <1>6, <3>3, <3>7
      <4> QED BY <1>11, <1>18, <3>5, <4>1, <4>2
    <3> QED BY <3>6, <3>7
  <2> QED BY <2>1, <2>2, <2>3
<1>20. Skips(b, l, M, skip, n)
  BY <1>15, <1>19
<1> QED BY <1>19, <1>20 DEF T, M, B, it, i, skip

LEMMA AppendFrame ==
  ASSUME NEW F, FrameOK(F), NEW r \in Ranges, r.lo <= r.hi,
         \A i \in DOMAIN F : r.hi < F[i].lo
  PROVE  /\ FrameOK(Append(F, r)) /\ Len(Append(F, r)) = Len(F) + 1 /\ Len(F) \in Nat
         /\ ToSet(Append(F, r)) = ToSet(F) \cup {r}
         /\ \A i \in DOMAIN Append(F, r) : r.lo <= Append(F, r)[i].lo
<1> DEFINE G == Append(F, r)
           N == Len(F)
<1>1. F \in Seq(Ranges)
  BY DEF FrameOK
<1>2. N \in Nat /\ DOMAIN F = 1 .. N /\ \A i \in 1 .. N : F[i] \in Ranges
  BY <1>1
<1>3. /\ G \in Seq(Ranges) /\ Len(G) = N + 1 /\ DOMAIN G = 1 .. N + 1
      /\ G[N + 1] = r /\ \A i \in 1 .. N : G[i] = F[i]
  BY <1>1
<1>4. \A i \in 1 .. N : F[i].lo \in Nat /\ F[i].hi \in Nat /\ F[i].lo <= F[i].hi /\ r.hi < F[i].lo
  BY <1>2 DEF FrameOK, Ranges
<1>5. \A i, j \in 1 .. N : i < j => F[j].hi < F[i].lo
  BY <1>2 DEF FrameOK
<1>6. r.lo \in Nat /\ r.hi \in Nat
  BY DEF Ranges
<1>7. r.lo <= r.hi
  OBVIOUS
<1> HIDE DEF G, N
<1>8. \A i \in 1 .. N + 1 : i \in 1 .. N \/ i = N + 1
  BY <1>2
<1>9. \A i \in 1 .. N : i \in 1 .. N + 1
  BY <1>2
<1>10. ASSUME NEW i \in 1 .. N + 1
      PROVE  G[i].lo <= G[i].hi /\ r.lo <= G[i].lo
  <2>1. CASE i \in 1 .. N
    <3>1. G[i] = F[i] /\ F[i].lo <= F[i].hi /\ r.hi < F[i].lo /\ F[i].lo \in Nat
      BY <1>3, <1>4, <2>1
    <3>2. r.lo <= F[i].lo
      BY <1>7, <1>6, <3>1
    <3> QED BY <3>1, <3>2
  <2>2. CASE i = N + 1
    BY <1>7, <1>3, <1>6, <2>2
  <2> QED BY <1>8, <2>1, <2>2
<1>11. ASSUME NEW i \in 1 .. N + 1, NEW j \in 1 .. N + 1, i < j
       PROVE  G[j].hi < G[i].lo
  <2>1. i \in 1 .. N
    BY <1>2, <1>11
  <2>2. CASE j \in 1 .. N
    BY <1>3, <1>5, <1>11, <2>1, <2>2
  <2>3. CASE j = N + 1
    BY <1>3, <1>4, <2>1, <2>3
  <2> QED BY <1>8, <2>2, <2>3
<1>12. FrameOK(G)
  BY <1>3, <1>10, <1>11 DEF FrameOK
<1>13. ToSet(G) = {G[i] : i \in 1 .. N + 1} /\ ToSet(F) = {F[i] : i \in 1 .. N}
  BY <1>2, <1>3 DEF ToSet
<1>14. N + 1 \in 1 .. N + 1
  BY <1>2
<1>15. \A y \in ToSet(G) : y \in ToSet(F) \cup {r}
  BY <1>3, <1>8, <1>13
<1>16. \A y \in ToSet(F) \cup {r} : y \in ToSet(G)
  BY <1>3, <1>9, <1>13, <1>14
<1>17. ToSet(G) = ToSet(F) \cup {r}
  BY <1>15, <1>16
<1> QED BY <1>2, <1>3, <1>10, <1>12, <1>17 DEF G, N

(* The place of the item visited at turn n.                                *)
LEMMA VisitedIs ==
  ASSUME NEW l \in Seq(Items), Spaced(l), NEW n \in 1 .. Len(l) - 1
  PROVE  /\ Len(l) - n \in 1 .. Len(l) /\ Len(l) - (n - 1) \in 1 .. Len(l)
         /\ Len(l) - n \in 1 .. Len(l) - 1 - (n - 1)
         /\ \A j \in 1 .. Len(l) - 1 - n : j \in 1 .. Len(l) - 1 - (n - 1) /\ j # Len(l) - n
         /\ l[Len(l) - n] \in Items /\ l[Len(l) - n].lo \in Nat /\ l[Len(l) - n].hi \in Nat
         /\ l[Len(l) - n].lo <= l[Len(l) - n].hi
         /\ l[Len(l) - (n - 1)].lo \in Nat
         /\ l[Len(l) - n].hi < l[Len(l) - (n - 1)].lo
         /\ l[Len(l) - n].lo <= l[Len(l) - (n - 1)].lo
<1> DEFINE N == Len(l)
           i == N - n
           h == N - (n - 1)
<1>1. N \in Nat
  BY Domains
<1>2. n \in 1 .. N - 1 /\ N = Len(l)
  OBVIOUS
<1> HIDE DEF N
<1>3. i \in 1 .. N /\ h \in 1 .. N /\ i < h /\ i \in 1 .. N - 1 - (n - 1)
  BY <1>1, <1>2
<1>4. \A j \in 1 .. N - 1 - n : j \in 1 .. N - 1 - (n - 1) /\ j # i
  BY <1>1, <1>2
<1> HIDE DEF i, h
<1>5. l[i].lo \in Nat /\ l[i].hi \in Nat /\ l[h].lo \in Nat /\ l[i].lo <= l[i].hi
      /\ l[i].hi + 1 < l[h].lo /\ l[i].lo < l[h].lo
  BY <1>2, <1>3, SpacedIs
<1>6. l[i].hi < l[h].lo /\ l[i].lo <= l[h].lo
  BY <1>5
<1>7. l[i] \in Items
  BY <1>2, <1>3, Domains
<1> QED BY <1>2, <1>3, <1>4, <1>5, <1>6, <1>7 DEF i, h, N

(* What the frame holds after a turn.                                      *)
LEMMA FramedMore ==
  ASSUME NEW l \in Seq(Items), Spaced(l), NEW n \in 1 .. Len(l) - 1, NEW F, Framed(F, l, n - 1)
  PROVE  /\ Framed(F, l, n)
         /\ Framed(Append(F, Bare(l[Len(l) - n])), l, n)
         /\ ToSet(Append(F, Bare(l[Len(l) - n]))) = ToSet(F) \cup {Bare(l[Len(l) - n])}
         /\ Len(Append(F, Bare(l[Len(l) - n]))) = Len(F) + 1 /\ Len(F) \in Nat
<1> DEFINE x == l[Len(l) - n]
           y == l[Len(l) - (n - 1)]
           r == Bare(x)
           G == Append(F, r)
<1>1. /\ x.lo \in Nat /\ x.hi \in Nat /\ x.lo <= x.hi /\ y.lo \in Nat /\ x.hi < y.lo /\ x.lo <= y.lo
  BY VisitedIs
<1>2. FrameOK(F) /\ Len(F) >= 1 /\ \A i \in DOMAIN F : y.lo <= F[i].lo
  BY DEF Framed
<1>3. F \in Seq(Ranges) /\ \A i \in DOMAIN F : F[i].lo \in Nat
  <2>1. F \in Seq(Ranges)
    BY <1>2 DEF FrameOK
  <2>2. \A i \in DOMAIN F : F[i] \in Ranges
    BY <2>1
  <2> QED BY <2>1, <2>2 DEF Ranges
<1>4. Framed(F, l, n) <=> FrameOK(F) /\ Len(F) >= 1 /\ \A i \in DOMAIN F : x.lo <= F[i].lo
  BY DEF Framed
<1>5. Framed(G, l, n) <=> FrameOK(G) /\ Len(G) >= 1 /\ \A i \in DOMAIN G : x.lo <= G[i].lo
  BY DEF Framed
<1>6. r \in Ranges /\ r.lo = x.lo /\ r.hi = x.hi
  BY <1>1 DEF Bare, Ranges
<1> HIDE DEF x, y, r, G
<1>7. \A i \in DOMAIN F : r.hi < F[i].lo /\ x.lo <= F[i].lo
  BY <1>1, <1>2, <1>3, <1>6
<1>8. /\ FrameOK(G) /\ Len(G) = Len(F) + 1 /\ Len(F) \in Nat
      /\ ToSet(G) = ToSet(F) \cup {r}
      /\ \A i \in DOMAIN G : r.lo <= G[i].lo
  BY <1>1, <1>2, <1>6, <1>7, AppendFrame DEF G
<1>9. Framed(F, l, n) /\ Framed(G, l, n)
  BY <1>2, <1>6, <1>7, <1>8, <1>4, <1>5
<1> QED BY <1>8, <1>9 DEF G, r, x

(* What is picked after a turn.                                            *)
LEMMA PickedMore ==
  ASSUME NEW l \in Seq(Items), Rising(l), NEW T, T \subseteq Near(l, Len(l) - 1),
         NEW n \in 1 .. Len(l) - 1, NEW F, Len(F) \in Nat, Picked(F, l, T, n - 1),
         NEW G, IF l[Len(l) - n] \in T
                THEN Len(G) = Len(F) + 1 /\ ToSet(G) = ToSet(F) \cup {Bare(l[Len(l) - n])}
                ELSE G = F
  PROVE  Picked(G, l, T, n)
<1> DEFINE x == l[Len(l) - n]
           U == (T \cap Near(l, n - 1)) \cup {l[Len(l)]}
           V == (T \cap Near(l, n)) \cup {l[Len(l)]}
<1>1. Near(l, n) = Near(l, n - 1) \cup {x}
  BY NearIs
<1>2. CountsUp(T, l)
  BY MetCountsUp
<1>3. Met(T, l, n) = Met(T, l, n - 1) + IF x \in T THEN 1 ELSE 0
  BY <1>2 DEF CountsUp
<1>4. ToSet(F) = {Bare(it) : it \in U} /\ Len(F) - 1 = Met(T, l, n - 1)
  BY DEF Picked
<1>5. Picked(G, l, T, n) <=> ToSet(G) = {Bare(it) : it \in V} /\ Len(G) - 1 = Met(T, l, n)
  BY DEF Picked
<1>6. V = IF x \in T THEN U \cup {x} ELSE U
  BY <1>1
<1>7. IF x \in T THEN Len(G) = Len(F) + 1 /\ ToSet(G) = ToSet(F) \cup {Bare(x)} ELSE G = F
  OBVIOUS
<1> HIDE DEF x, U, V
<1>8. CASE x \in T
  <2>1. \A it : it \in V <=> it \in U \/ it = x
    BY <1>6, <1>8
  <2>2. ToSet(G) = ToSet(F) \cup {Bare(x)} /\ Len(G) = Len(F) + 1
    BY <1>7, <1>8
  <2>3. {Bare(it) : it \in V} = {Bare(it) : it \in U} \cup {Bare(x)}
    BY <2>1
  <2>4. Len(G) - 1 = Met(T, l, n)
    BY <1>3, <1>4, <1>8, <2>2
  <2> QED BY <1>4, <1>5, <2>2, <2>3, <2>4
<1>9. CASE x \notin T
  <2>1. G = F /\ V = U
    BY <1>6, <1>7, <1>9
  <2>2. Len(G) - 1 = Met(T, l, n)
    BY <1>3, <1>4, <1>9, <2>1
  <2> QED BY <1>4, <1>5, <2>1, <2>2
<1> QED BY <1>8, <1>9

LEMMA RecordedMore ==
  ASSUME NEW l \in Seq(Items), Spaced(l), NEW n \in 1 .. Len(l) - 1, NEW k \in Kinds,
         NEW s, Recorded(s, l, n - 1)
  PROVE  /\ Recorded(s, l, n) /\ Recorded(RecordSent(s, Len(l) - n, k), l, n)
         /\ s.list[Len(l) - n] = l[Len(l) - n] /\ s \in Sacks
<1> DEFINE i == Len(l) - n
           t == RecordSent(s, i, k)
<1>1. /\ i \in 1 .. Len(l) /\ i \in 1 .. Len(l) - 1 - (n - 1)
      /\ \A j \in 1 .. Len(l) - 1 - n : j \in 1 .. Len(l) - 1 - (n - 1) /\ j # i
      /\ l[i] \in Items
  BY VisitedIs
<1>2. /\ Sound(s) /\ Len(s.list) = Len(l)
      /\ \A j \in 1 .. Len(l) : s.list[j].lo = l[j].lo /\ s.list[j].hi = l[j].hi
      /\ \A j \in 1 .. Len(l) - 1 - (n - 1) : s.list[j] = l[j]
  BY DEF Recorded
<1> HIDE DEF i
<1>3. s.list[i] = l[i]
  BY <1>1, <1>2
<1>4. Recorded(s, l, n)
  BY <1>1, <1>2 DEF Recorded
<1>5. /\ Sound(t) /\ t.list = [s.list EXCEPT ![i] = SentOnceMore(s.list[i], k)]
      /\ Len(t.list) = Len(l)
  BY <1>1, <1>2, RecordSound
<1>6. DOMAIN s.list = 1 .. Len(l)
  BY <1>2, SoundIs
<1> HIDE DEF t
<1>7. \A j \in 1 .. Len(l) : t.list[j] = IF j = i THEN SentOnceMore(l[i], k) ELSE s.list[j]
  BY <1>3, <1>5, <1>6
<1>8. SentOnceMore(l[i], k).lo = l[i].lo /\ SentOnceMore(l[i], k).hi = l[i].hi
  BY <1>1, OnceMoreIs
<1>9. \A j \in 1 .. Len(l) : t.list[j].lo = l[j].lo /\ t.list[j].hi = l[j].hi
  BY <1>2, <1>7, <1>8
<1>10. \A j \in 1 .. Len(l) - 1 - n : j \in 1 .. Len(l)
  BY Domains
<1>11. \A j \in 1 .. Len(l) - 1 - n : t.list[j] = l[j]
  BY <1>1, <1>2, <1>7, <1>10
<1>12. Recorded(t, l, n)
  BY <1>5, <1>9, <1>11 DEF Recorded
<1> QED BY <1>2, <1>3, <1>4, <1>12, SoundIs DEF t, i

(* The encoder after n turns, when it picks T and skips the first of M.    *)
Encoded(a, l, T, M, skip, n) ==
  /\ Recorded(a.sack, l, n) /\ Framed(a.frame, l, n) /\ Picked(a.frame, l, T, n)
  /\ Skips(a, l, M, skip, n)

LEMMA EncodeTurn ==
  ASSUME NEW l \in Seq(Items), Spaced(l), l # <<>>, NEW k \in Kinds,
         NEW sel, sel.max \in Nat, sel.skip \in Nat, NEW room \in 0 .. ListBlocks,
         NEW T, T = Chosen(Near(l, Len(l) - 1), k, sel, room),
         NEW M, M = MostSent(Near(l, Len(l) - 1), k, sel),
         NEW n \in 1 .. Len(l) - 1,
         NEW a \in Encodings, Encoded(a, l, T, M, sel.skip, n - 1),
         NEW b, b = EncodeItem(a, Len(l) - n, k, sel.max, room)
  PROVE  b \in Encodings /\ Encoded(b, l, T, M, sel.skip, n)
<1> DEFINE i == Len(l) - n
           G == Append(a.frame, Bare(l[i]))
<1>1. Recorded(a.sack, l, n - 1) /\ Framed(a.frame, l, n - 1) /\ Picked(a.frame, l, T, n - 1)
      /\ Skips(a, l, M, sel.skip, n - 1)
  BY DEF Encoded
<1>2. Rising(l)
  BY SpacedRises
<1>3. /\ Recorded(a.sack, l, n) /\ Recorded(RecordSent(a.sack, i, k), l, n)
      /\ a.sack.list[i] = l[i] /\ a.sack \in Sacks
  BY <1>1, RecordedMore
<1>4. /\ Framed(a.frame, l, n) /\ Framed(G, l, n)
      /\ ToSet(G) = ToSet(a.frame) \cup {Bare(l[i])}
      /\ Len(G) = Len(a.frame) + 1 /\ Len(a.frame) \in Nat
  BY <1>1, FramedMore
<1>5. Len(a.frame) - 1 = Met(T, l, n - 1)
  BY <1>1 DEF Picked
<1>6. /\ IF l[i] \in T THEN Puts(b, a, i, k) ELSE Leaves(b, a)
      /\ Skips(b, l, M, sel.skip, n)
      /\ b.skip \in Int
      /\ b = [sack |-> b.sack, frame |-> b.frame, skip |-> b.skip]
  BY <1>1, <1>2, <1>3, <1>5, TurnIs
<1>7. T \subseteq Near(l, Len(l) - 1)
  BY DEF Chosen, Candidates, Eligible, TopN
<1>8. /\ IF l[i] \in T THEN Len(b.frame) = Len(a.frame) + 1 /\ ToSet(b.frame) = ToSet(a.frame) \cup {Bare(l[i])}
         ELSE b.frame = a.frame
      /\ Recorded(b.sack, l, n) /\ Framed(b.frame, l, n)
  <2>1. CASE l[i] \in T
    <3>1. b.sack = RecordSent(a.sack, i, k) /\ b.frame = G
      BY <1>3, <1>6, <2>1 DEF Puts
    <3> HIDE DEF G, i
    <3> QED BY <1>3, <1>4, <2>1, <3>1
  <2>2. CASE l[i] \notin T
    <3>1. b.sack = a.sack /\ b.frame = a.frame
      BY <1>6, <2>2 DEF Leaves
    <3> HIDE DEF G, i
    <3> QED BY <1>3, <1>4, <2>2, <3>1
  <2> QED BY <2>1, <2>2
<1>9. Picked(b.frame, l, T, n)
  BY <1>1, <1>2, <1>4, <1>7, <1>8, PickedMore
<1>10. Encoded(b, l, T, M, sel.skip, n)
  BY <1>6, <1>8, <1>9 DEF Encoded
<1>11. b \in Encodings
  <2>1. b.sack \in Sacks
    BY <1>8, SoundIs DEF Recorded
  <2>2. b.frame \in Seq(Ranges)
    BY <1>8 DEF Framed, FrameOK
  <2> QED BY <1>6, <2>1, <2>2 DEF Encodings
<1> QED BY <1>10, <1>11

(* A list with the ranges of another one is spaced like it.                *)
LEMMA SameSpaced ==
  ASSUME NEW l \in Seq(Items), Spaced(l), NEW m \in Seq(Items), Len(m) = Len(l),
         \A j \in 1 .. Len(l) : m[j].lo = l[j].lo /\ m[j].hi = l[j].hi
  PROVE  Spaced(m)
<1>1. DOMAIN m = 1 .. Len(l) /\ DOMAIN l = 1 .. Len(l)
  OBVIOUS
<1>2. \A i \in 1 .. Len(l) : l[i].lo <= l[i].hi
  BY <1>1 DEF Spaced
<1>3. \A i, j \in 1 .. Len(l) : i < j => l[i].hi + 2 <= l[j].lo
  BY <1>1 DEF Spaced
<1>4. \A i \in 1 .. Len(l) : m[i].lo <= m[i].hi
  BY <1>2
<1>5. \A i, j \in 1 .. Len(l) : i < j => m[i].hi + 2 <= m[j].lo
  BY <1>3
<1> QED BY <1>1, <1>4, <1>5 DEF Spaced

(* The list in which the top item was sent once more.                      *)
LEMMA TopSent ==
  ASSUME NEW s, Sound(s), Spaced(s.list), s.list # <<>>, NEW k \in Kinds,
         NEW t, t = RecordSent(s, Len(s.list), k)
  PROVE  /\ Sound(t) /\ Spaced(t.list) /\ t.list # <<>> /\ Len(t.list) = Len(s.list)
         /\ \A j \in 1 .. Len(s.list) - 1 : t.list[j] = s.list[j]
<1> DEFINE n == Len(s.list)
<1>1. s.list \in Seq(Items) /\ DOMAIN s.list = 1 .. n /\ n \in 1 .. n /\ n \in Nat /\ s.list[n] \in Items
  BY SoundIs, ListTops, Domains
<1>2. /\ Sound(t) /\ t.list = [s.list EXCEPT ![n] = SentOnceMore(s.list[n], k)]
      /\ Len(t.list) = n
  BY <1>1, RecordSound
<1>3. t.list \in Seq(Items)
  BY <1>2, SoundIs
<1>4. \A j \in 1 .. n : t.list[j] = IF j = n THEN SentOnceMore(s.list[n], k) ELSE s.list[j]
  BY <1>1, <1>2
<1>5. SentOnceMore(s.list[n], k).lo = s.list[n].lo /\ SentOnceMore(s.list[n], k).hi = s.list[n].hi
  BY <1>1, OnceMoreIs
<1>6. \A j \in 1 .. n : t.list[j].lo = s.list[j].lo /\ t.list[j].hi = s.list[j].hi
  BY <1>4, <1>5
<1> HIDE DEF n
<1>7. Spaced(t.list)
  BY <1>1, <1>2, <1>3, <1>6, SameSpaced DEF n
<1>8. \A j \in 1 .. n - 1 : j \in 1 .. n /\ j # n
  BY <1>1
<1>9. \A j \in 1 .. n - 1 : t.list[j] = s.list[j]
  BY <1>4, <1>8
<1>10. t.list # <<>>
  BY <1>1, <1>2, <1>3, Domains
<1> QED BY <1>2, <1>7, <1>9, <1>10 DEF n

(* What the composer of frames makes of a list.                            *)
Composed(f, l, k, room) ==
  /\ Sound(f.sack) /\ Spaced(f.sack.list)
  /\ FrameOK(f.frame)
  /\ ToSet(f.frame) =
       {Bare(it) : it \in SelectedBelow(ToSet(l), k, l[Len(l)], ListBlocks, room) \cup {l[Len(l)]}}

LEMMA FormatIs ==
  ASSUME NEW s, Sound(s), Spaced(s.list), s.list # <<>>, NEW k \in Kinds, NEW room \in 0 .. ListBlocks
  PROVE  Composed(FormatFrame(s, k, room), RecordSent(s, Len(s.list), k).list, k, room)
<1> DEFINE top == Len(s.list)
           s1 == RecordSent(s, top, k)
           l == s1.list
           x == l[top]
           sel == SelectAckRanges(s1.rc[k], x.sent[k])
           visit == [j \in 1 .. top - 1 |-> [a \in Encodings |-> EncodeItem(a, top - j, k, sel.max, room)]]
           start == [sack |-> s1, frame |-> <<Bare(x)>>, skip |-> sel.skip]
           B == Near(l, top - 1)
           T == Chosen(B, k, sel, room)
           M == MostSent(B, k, sel)
           Q == [n \in 0 .. top - 1 |-> {a \in Encodings : Encoded(a, l, T, M, sel.skip, n)}]
<1>1. FormatFrame(s, k, room) = Walk(visit, start, top - 1)
  BY DEF FormatFrame
<1>2. Sound(s1) /\ Spaced(l) /\ l # <<>> /\ Len(l) = top
  BY TopSent
<1>3. RecordSent(s, Len(s.list), k).list = l
  OBVIOUS
<1> HIDE DEF top, s1
<1>4. l \in Seq(Items) /\ Rising(l) /\ DOMAIN l = 1 .. Len(l) /\ s1 \in Sacks
  BY <1>2, SoundIs
<1>5. sel = SelectMax(ToSet(l), k, x, ListBlocks)
  BY <1>2, SelectIs
<1> HIDE DEF sel
<1>6. /\ B = ToSet(l) \ {x} /\ top \in 1 .. top /\ top - 1 \in Nat
      /\ x \in ToSet(l) /\ ToSet(l) \in SUBSET Items /\ IsFiniteSet(ToSet(l))
  BY <1>2, <1>4, BelowTop, ItemsFinite
<1>7. sel.max \in Nat /\ sel.skip \in Nat
  <2>1. sel.max \in 0 .. Repeat /\ sel.skip \in Nat
    BY <1>5, <1>6, SelectMaxBounds DEF Fitted
  <2> QED BY <2>1, SackListAssumption
<1>8. start \in Q[0]
  <2>1. x \in Items /\ x.lo \in Nat /\ x.hi \in Nat /\ x.lo <= x.hi
    <3>1. x \in Items
      BY <1>6
    <3>2. Tops(ToSet(l), x)
      BY <1>2, <1>4, ListTops
    <3> QED BY <3>1, <3>2 DEF Tops
  <2>2. Recorded(s1, l, 0)
    BY <1>2 DEF Recorded
  <2>3. Framed(<<Bare(x)>>, l, 0)
    <3>1. Bare(x) \in Ranges /\ Bare(x).lo = x.lo /\ Bare(x).hi = x.hi
      BY <2>1 DEF Bare, Ranges
    <3> DEFINE r == Bare(x)
               F == <<r>>
    <3> HIDE DEF r
    <3>2. F \in Seq(Ranges) /\ DOMAIN F = {1} /\ F[1] = r /\ Len(F) = 1
      BY <3>1 DEF r
    <3>3. r.lo <= r.hi /\ r.lo = x.lo /\ x.lo <= r.lo
      BY <2>1, <3>1 DEF r
    <3> HIDE DEF F
    <3>4. FrameOK(F)
      BY <3>2, <3>3 DEF FrameOK
    <3>5. Len(l) - 0 = top
      BY <1>2, <1>6
    <3>6. Framed(F, l, 0)
      BY <3>2, <3>3, <3>4, <3>5 DEF Framed
    <3> QED BY <3>6 DEF F, r
  <2>4. T \subseteq Near(l, Len(l) - 1)
    BY <1>2 DEF Chosen, Candidates, Eligible, TopN
  <2>5. M \subseteq Near(l, Len(l) - 1)
    BY <1>2 DEF MostSent, Eligible
  <2> HIDE DEF T, M, B
  <2>6. Met(T, l, 0) = 0 /\ Met(M, l, 0) = 0
    BY <1>4, <2>4, <2>5, MetIs, Zenon
  <2>7. Picked(<<Bare(x)>>, l, T, 0)
    <3>1. Near(l, 0) = {}
      <4>1. Len(l) - 0 .. Len(l) - 1 = {}
        BY <1>2, <1>6
      <4> QED BY <4>1 DEF Near
    <3>2. ToSet(<<Bare(x)>>) = {Bare(x)} /\ Len(<<Bare(x)>>) - 1 = 0
      BY DEF ToSet
    <3>3. (T \cap Near(l, 0)) \cup {l[Len(l)]} = {x}
      BY <1>2, <3>1
    <3>4. {Bare(it) : it \in {x}} = {Bare(x)}
      OBVIOUS
    <3> QED BY <2>6, <3>2, <3>3, <3>4 DEF Picked
  <2>8. Skips(start, l, M, sel.skip, 0)
    <3>1. sel.skip = IF 0 < sel.skip THEN sel.skip - 0 ELSE 0
      BY <1>7
    <3>2. start.skip = sel.skip
      OBVIOUS
    <3> HIDE DEF start
    <3> QED BY <2>6, <3>1, <3>2 DEF Skips
  <2>9. start.sack = s1 /\ start.frame = <<Bare(x)>>
    OBVIOUS
  <2>10. start \in Encodings
    <3>1. <<Bare(x)>> \in Seq(Ranges)
      BY <2>3 DEF Framed, FrameOK
    <3> QED BY <1>4, <1>7, <3>1 DEF Encodings
  <2> HIDE DEF start
  <2>11. Encoded(start, l, T, M, sel.skip, 0)
    BY <2>2, <2>3, <2>7, <2>8, <2>9 DEF Encoded
  <2> QED BY <1>6, <2>10, <2>11
<1> HIDE DEF start, T, M, B
<1>9. ASSUME NEW n \in 1 .. top - 1, NEW a \in Q[n - 1]
      PROVE  visit[n][a] \in Q[n]
  <2>1. n - 1 \in 0 .. top - 1 /\ n \in 0 .. top - 1
    BY <1>6
  <2>2. a \in Encodings /\ Encoded(a, l, T, M, sel.skip, n - 1)
    BY <2>1
  <2> DEFINE b == EncodeItem(a, top - n, k, sel.max, room)
  <2>3. visit[n][a] = b
    BY <2>2
  <2>4. b \in Encodings /\ Encoded(b, l, T, M, sel.skip, n)
    <3>1. /\ T = Chosen(Near(l, Len(l) - 1), k, sel, room)
          /\ M = MostSent(Near(l, Len(l) - 1), k, sel)
          /\ n \in 1 .. Len(l) - 1 /\ b = EncodeItem(a, Len(l) - n, k, sel.max, room)
      BY <1>2 DEF T, M, B
    <3> HIDE DEF b, visit, Q, l
    <3> QED BY <1>2, <1>4, <1>7, <2>2, <3>1, EncodeTurn
  <2> HIDE DEF b, visit
  <2> QED BY <2>1, <2>3, <2>4
<1> DEFINE f == FormatFrame(s, k, room)
<1>10. f \in Q[top - 1]
  <2>1. Walk(visit, start, top - 1) \in Q[top - 1]
    <3> HIDE DEF visit, Q
    <3> QED BY <1>6, <1>8, <1>9, WalkLeads
  <2> QED BY <1>1, <2>1
<1> HIDE DEF f, visit
<1>11. f \in Encodings /\ Encoded(f, l, T, M, sel.skip, top - 1)
  <2>1. top - 1 \in 0 .. top - 1
    BY <1>6
  <2> QED BY <1>10, <2>1
<1>12. /\ Recorded(f.sack, l, top - 1) /\ Framed(f.frame, l, top - 1) /\ Picked(f.frame, l, T, top - 1)
  BY <1>11 DEF Encoded
<1>13. Sound(f.sack) /\ Spaced(f.sack.list)
  <2>1. /\ Sound(f.sack) /\ Len(f.sack.list) = Len(l)
        /\ \A j \in 1 .. Len(l) : f.sack.list[j].lo = l[j].lo /\ f.sack.list[j].hi = l[j].hi
    BY <1>12 DEF Recorded
  <2> HIDE DEF l
  <2> QED BY <1>2, <1>4, <2>1, SoundIs, SameSpaced
<1>14. FrameOK(f.frame)
  BY <1>12 DEF Framed
<1>15. T = SelectedBelow(ToSet(l), k, x, ListBlocks, room)
  BY <1>5, <1>6, SelectedBelowIs DEF T
<1>16. T \cap Near(l, top - 1) = T
  BY DEF T, B, Chosen, Candidates, Eligible, TopN
<1>17. ToSet(f.frame) = {Bare(it) : it \in T \cup {x}}
  BY <1>2, <1>12, <1>16 DEF Picked
<1>18. Composed(f, l, k, room)
  <2> HIDE DEF l
  <2>1. x = l[Len(l)]
    BY <1>2
  <2> HIDE DEF x
  <2> QED BY <1>13, <1>14, <1>15, <1>17, <2>1 DEF Composed
<1> QED BY <1>3, <1>18 DEF f

(* With room for ListBlocks ranges, a range p is left out while one sent   *)
(* more often is included only if a worn one is included.                  *)
LEMMA NoneWaits ==
  ASSUME NEW l \in Seq(Items), Rising(l), l # <<>>, NEW k \in Kinds,
         NEW sel, sel = SelectMax(ToSet(l), k, l[Len(l)], ListBlocks),
         NEW T, T = Chosen(Near(l, Len(l) - 1), k, sel, ListBlocks),
         NEW p \in Near(l, Len(l) - 1), p \notin T, NEW q \in T, p.sent[k] < q.sent[k]
  PROVE  \E z \in T : z.sent[k] = Repeat
<1> DEFINE B == Near(l, Len(l) - 1)
           E == Eligible(B, k, sel)
           M == MostSent(B, k, sel)
           S == TopN(M, sel.skip)
           C == Candidates(B, k, sel)
           A == {o \in C : o.lo > p.lo}
<1>1. /\ B = ToSet(l) \ {l[Len(l)]} /\ ToSet(l) \in SUBSET Items /\ IsFiniteSet(ToSet(l))
      /\ B \in SUBSET Items
  BY BelowTop, ItemsFinite
<1>2. ListBlocks \in Nat /\ ListBlocks >= 1 /\ Repeat \in Nat /\ Repeat >= 1
  BY SackListAssumption
<1>3. IsFiniteSet(B)
  BY <1>1, FS_RemoveElement
<1>4. \A it \in B : it.sent[k] \in Nat
  BY <1>1, SentTimes
<1>5. /\ sel.max \in 0 .. Repeat /\ sel.skip \in Nat
      /\ \/ /\ sel.max = Repeat /\ sel.skip = 0
            /\ Cardinality(AtMost(B, k, Repeat - 1)) < ListBlocks
         \/ /\ Cardinality(AtMost(B, k, sel.max)) = ListBlocks + sel.skip
            /\ sel.skip <= Times(B, k, sel.max)
  <2>1. Fitted(sel, ToSet(l) \ {l[Len(l)]}, k)
    BY <1>1, SelectMaxBounds
  <2>2. Fitted(sel, B, k)
    <3>1. ToSet(l) \ {l[Len(l)]} = B
      BY <1>1
    <3> HIDE DEF B
    <3> QED BY <2>1, <3>1
  <2> HIDE DEF B
  <2> QED BY <2>2 DEF Fitted
<1>6. M \subseteq E /\ S \subseteq M /\ C = E \ S /\ E \subseteq B /\ C \subseteq B /\ T = TopN(C, ListBlocks)
      /\ T \subseteq C
  BY DEF MostSent, Candidates, Eligible, TopN, Chosen
<1>7. IsFiniteSet(E) /\ IsFiniteSet(C) /\ IsFiniteSet(S) /\ IsFiniteSet(T) /\ IsFiniteSet(M)
  <2> HIDE DEF E, C, S, M, B
  <2> QED BY <1>3, <1>6, FS_Subset
<1>8. p \in C
  <2>1. q \in B /\ q.sent[k] <= sel.max
    BY <1>6 DEF Candidates, Eligible
  <2>2. p.sent[k] < sel.max /\ p.sent[k] <= sel.max
    BY <1>4, <1>5, <2>1
  <2>3. p \in E /\ p \notin M
    BY <1>4, <1>5, <2>2 DEF Eligible, MostSent
  <2> HIDE DEF E, C, S, M, B
  <2> QED BY <1>6, <2>3
<1>9. ~(Cardinality(A) < ListBlocks)
  <2>1. p \in TopN(C, ListBlocks) <=> p \in C /\ Cardinality(A) < ListBlocks
    BY DEF TopN
  <2> HIDE DEF A, C
  <2> QED BY <1>6, <1>8, <2>1
<1>10. A \subseteq C \ {p}
  <2>1. p.lo \in Nat
    BY <1>1, ItemIs
  <2> QED BY <2>1
<1>11. /\ Cardinality(A) \in Nat /\ Cardinality(C) \in Nat
       /\ Cardinality(A) <= Cardinality(C) - 1
  <2> HIDE DEF A, C
  <2>1. IsFiniteSet(C \ {p}) /\ Cardinality(C \ {p}) = Cardinality(C) - 1
    BY <1>7, <1>8, FS_RemoveElement
  <2>2. IsFiniteSet(A) /\ Cardinality(A) <= Cardinality(C \ {p})
    BY <1>10, <2>1, FS_Subset
  <2> QED BY <1>7, <2>1, <2>2, FS_CardinalityType
<1>12. CASE /\ Cardinality(AtMost(B, k, sel.max)) = ListBlocks + sel.skip
            /\ sel.skip <= Times(B, k, sel.max)
  <2>1. Cardinality(E) = ListBlocks + sel.skip
    BY <1>12 DEF Eligible, AtMost
  <2>2. M = {it \in B : it.sent[k] = sel.max}
    BY <1>4, <1>5 DEF MostSent, Eligible
  <2>3. Cardinality(M) = Times(B, k, sel.max)
    BY <2>2 DEF Times
  <2>4. Cardinality(S) = IF Cardinality(M) < sel.skip THEN Cardinality(M) ELSE sel.skip
    <3>1. M \subseteq Near(l, Len(l) - 1)
      BY <1>6
    <3> HIDE DEF M
    <3> QED BY <1>5, <3>1, TopSize
  <2> HIDE DEF A, E, M, S, C, B
  <2>5. Cardinality(M) \in Nat
    BY <1>7, FS_CardinalityType
  <2>6. Cardinality(S) = sel.skip
    BY <1>5, <1>12, <2>3, <2>4, <2>5
  <2>7. Cardinality(C) = Cardinality(E) - Cardinality(E \cap S)
    BY <1>6, <1>7, FS_Difference
  <2>8. E \cap S = S
    BY <1>6
  <2>9. Cardinality(C) = ListBlocks
    <3>1. Cardinality(E \cap S) = sel.skip
      BY <2>6, <2>8
    <3>2. sel.skip \in Nat
      BY <1>5
    <3> QED BY <1>2, <2>1, <2>7, <3>1, <3>2
  <2> QED BY <1>2, <1>9, <1>11, <2>9
<1>13. CASE /\ sel.max = Repeat /\ sel.skip = 0
            /\ Cardinality(AtMost(B, k, Repeat - 1)) < ListBlocks
  <2>1. Cardinality(T) = ListBlocks
    <3>1. Cardinality(TopN(C, ListBlocks)) = IF Cardinality(C) < ListBlocks THEN Cardinality(C) ELSE ListBlocks
      <4>1. C \subseteq Near(l, Len(l) - 1)
        BY <1>6
      <4> HIDE DEF C
      <4> QED BY <1>2, <4>1, TopSize
    <3> HIDE DEF A, C
    <3> QED BY <1>2, <1>6, <1>9, <1>11, <3>1
  <2> SUFFICES ASSUME \A z \in T : z.sent[k] # Repeat
               PROVE  FALSE
    OBVIOUS
  <2>2. \A z \in T : z \in B /\ z.sent[k] <= sel.max
    BY <1>6 DEF Candidates, Eligible
  <2>3. \A z \in T : z.sent[k] <= Repeat - 1
    <3> SUFFICES ASSUME NEW z \in T
                 PROVE  z.sent[k] <= Repeat - 1
      OBVIOUS
    <3>1. z \in B /\ z.sent[k] <= Repeat /\ z.sent[k] # Repeat
      BY <1>13, <2>2
    <3>2. z.sent[k] \in Nat
      BY <1>4, <3>1
    <3> QED BY <1>2, <3>1, <3>2
  <2>4. T \in SUBSET AtMost(B, k, Repeat - 1)
    BY <2>2, <2>3 DEF AtMost
  <2>5. IsFiniteSet(AtMost(B, k, Repeat - 1))
    <3>1. AtMost(B, k, Repeat - 1) \in SUBSET B
      BY DEF AtMost
    <3> QED BY <1>3, <3>1, FS_Subset
  <2> HIDE DEF B
  <2>6. /\ Cardinality(T) <= Cardinality(AtMost(B, k, Repeat - 1))
        /\ Cardinality(AtMost(B, k, Repeat - 1)) \in Nat
    BY <2>4, <2>5, FS_Subset, FS_CardinalityType
  <2> QED BY <1>2, <1>13, <2>1, <2>6
<1> QED BY <1>5, <1>12, <1>13

LEMMA BareIsOne ==
  ASSUME NEW l \in Seq(Items), Rising(l), NEW x \in ToSet(l), NEW y \in ToSet(l), Bare(x) = Bare(y)
  PROVE  x = y
<1>1. PICK i \in 1 .. Len(l) : x = l[i]
  BY AllMembers
<1>2. PICK j \in 1 .. Len(l) : y = l[j]
  BY AllMembers
<1>3. x.lo = y.lo
  BY DEF Bare
<1>4. i = j
  BY <1>1, <1>2, <1>3, RisingIsOne
<1> QED BY <1>1, <1>2, <1>4

(* What SelectionIsExact says of one frame.                                *)
LEMMA SelectionOfOne ==
  ASSUME Sound(Sack), Spaced(list), list # <<>>, NEW k \in Kinds, NEW room \in 0 .. ListBlocks
  PROVE  LET s1 == RecordSent(Sack, Len(list), k)
             top == s1.list[Len(list)]
             F == ToSet(FormatFrame(Sack, k, room).frame)
             below == {list[i] : i \in 1 .. Len(list) - 1}
         IN  /\ F = {Bare(it) : it \in SelectedBelow(ToSet(s1.list), k, top, ListBlocks, room) \cup {top}}
             /\ room = ListBlocks =>
                  \A x, y \in below :
                    Bare(x) \notin F /\ Bare(y) \in F =>
                      \/ y.sent[k] <= x.sent[k]
                      \/ \E z \in below : Bare(z) \in F /\ z.sent[k] = Repeat
<1> DEFINE s1 == RecordSent(Sack, Len(list), k)
           l == s1.list
           top == l[Len(list)]
           F == ToSet(FormatFrame(Sack, k, room).frame)
           below == {list[i] : i \in 1 .. Len(list) - 1}
           sel == SelectMax(ToSet(l), k, top, ListBlocks)
           T == Chosen(Near(l, Len(l) - 1), k, sel, room)
<1>1. Sack.list = list
  BY DEF Sack
<1>2. /\ Sound(s1) /\ Spaced(l) /\ l # <<>> /\ Len(l) = Len(list)
      /\ \A j \in 1 .. Len(list) - 1 : l[j] = list[j]
  BY <1>1, TopSent
<1>3. Composed(FormatFrame(Sack, k, room), l, k, room)
  BY <1>1, FormatIs
<1>4. F = {Bare(it) : it \in SelectedBelow(ToSet(l), k, top, ListBlocks, room) \cup {top}}
  <2> HIDE DEF l
  <2> QED BY <1>2, <1>3 DEF Composed
<1> HIDE DEF s1, F
<1>5. l \in Seq(Items) /\ Rising(l)
  BY <1>2, SoundIs
<1>6. /\ Near(l, Len(l) - 1) = ToSet(l) \ {top}
      /\ Near(l, Len(l) - 1) = {l[j] : j \in 1 .. Len(l) - 1}
      /\ top \in ToSet(l)
  <2> HIDE DEF l
  <2> QED BY <1>2, <1>5, BelowTop
<1>7. below = Near(l, Len(l) - 1)
  <2>1. below = {l[j] : j \in 1 .. Len(list) - 1}
    <3> HIDE DEF l
    <3> QED BY <1>2
  <2> QED BY <1>2, <1>6, <2>1
<1>8. SelectedBelow(ToSet(l), k, top, ListBlocks, room) = T
  <2> HIDE DEF l
  <2> QED BY <1>6, SelectedBelowIs
<1> HIDE DEF l, sel, top, below
<1>9. T \subseteq below
  BY <1>7 DEF Chosen, Candidates, Eligible, TopN
<1> HIDE DEF T
<1>10. F = {Bare(it) : it \in T \cup {top}}
  BY <1>4, <1>8
<1>11. \A x \in below : x \in ToSet(l) /\ x # top
  BY <1>6, <1>7
<1>12. \A x \in below : Bare(x) \in F <=> x \in T
  <2> SUFFICES ASSUME NEW x \in below
               PROVE  Bare(x) \in F <=> x \in T
    OBVIOUS
  <2>1. x \in T => Bare(x) \in F
    BY <1>10
  <2>2. ASSUME Bare(x) \in F
        PROVE  x \in T
    <3>1. PICK it \in T \cup {top} : Bare(x) = Bare(it)
      BY <1>10, <2>2
    <3>2. it \in ToSet(l)
      BY <1>6, <1>9, <1>11, <3>1
    <3>3. x = it
      BY <1>5, <1>11, <3>1, <3>2, BareIsOne
    <3> QED BY <1>11, <3>3
  <2> QED BY <2>1, <2>2
<1>13. ASSUME room = ListBlocks, NEW x \in below, NEW y \in below, Bare(x) \notin F, Bare(y) \in F
       PROVE  y.sent[k] <= x.sent[k] \/ \E z \in below : Bare(z) \in F /\ z.sent[k] = Repeat
  <2>1. x \notin T /\ y \in T
    BY <1>12, <1>13
  <2>2. x \in Items /\ y \in Items
    BY <1>5, <1>11, AllMembers
  <2>3. x.sent[k] \in Nat /\ y.sent[k] \in Nat
    BY <2>2, SentTimes
  <2>4. CASE x.sent[k] < y.sent[k]
    <3>1. sel = SelectMax(ToSet(l), k, l[Len(l)], ListBlocks)
          /\ T = Chosen(Near(l, Len(l) - 1), k, sel, ListBlocks)
      BY <1>2, <1>13 DEF sel, top, T
    <3>2. x \in Near(l, Len(l) - 1)
      BY <1>7
    <3>3. PICK z \in T : z.sent[k] = Repeat
      BY <1>2, <1>5, <2>1, <2>4, <3>1, <3>2, NoneWaits
    <3>4. z \in below /\ Bare(z) \in F
      BY <1>9, <1>12, <3>3
    <3> QED BY <3>3, <3>4
  <2>5. CASE ~(x.sent[k] < y.sent[k])
    BY <2>3, <2>5
  <2> QED BY <2>4, <2>5
<1> QED BY <1>4, <1>13 DEF F, s1, l, top, below

-----------------------------------------------------------------------------
(* The inductive invariant of SackList: the counters count, the list is in *)
(* order with gaps, and the frames in flight go down.                      *)
ListInv ==
  /\ Sound(Sack) /\ Spaced(list)
  /\ \A F \in listFrames : FrameOK(F)

LEMMA SackFields == Sack.list = list /\ Sack.rc = rc
BY DEF Sack

LEMMA BecomesSound ==
  ASSUME NEW s, Sound(s), Spaced(s.list), Become(s)
  PROVE  Sound(Sack)' /\ Spaced(list)'
<1>1. s = [list |-> s.list, rc |-> s.rc]
  BY SackIs DEF Sound
<1>2. list' = s.list /\ rc' = s.rc
  BY DEF Become
<1>3. Sack' = s
  BY <1>1, <1>2 DEF Sack
<1>4. Sound(Sack') /\ Spaced(list')
  BY <1>2, <1>3
<1> QED BY <1>4

LEMMA ListInitInv == ListInit => ListInv
<1> SUFFICES ASSUME ListInit
             PROVE  ListInv
  OBVIOUS
<1>1. list = <<>> /\ rc = [k \in Kinds |-> [i \in 0 .. Repeat - 1 |-> 0]] /\ listFrames = {}
  BY DEF ListInit
<1>2. Sack \in Sacks
  <2>1. list \in Seq(Items) /\ rc \in [Kinds -> Counts]
    BY <1>1 DEF Counts
  <2> QED BY <2>1, MakeSack DEF Sack
<1>3. Rising(list) /\ Spaced(list)
  <2>1. DOMAIN list = {}
    BY <1>1
  <2> QED BY <2>1 DEF Rising, Spaced
<1>4. CountsExact(Sack)
  <2>1. ASSUME NEW k \in Kinds, NEW n \in 0 .. Repeat - 1
        PROVE  Sack.rc[k][n] = Times(ToSet(Sack.list), k, n)
    <3>1. Sack.rc[k][n] = 0
      BY <1>1, SackFields
    <3>2. ToSet(Sack.list) = {}
      BY <1>1, SackFields DEF ToSet
    <3>3. {it \in {} : it.sent[k] = n} = {}
      OBVIOUS
    <3> QED BY <3>1, <3>2, <3>3, FS_EmptySet DEF Times
  <2> QED BY <1>2, <2>1, ExactIs
<1> QED BY <1>1, <1>2, <1>3, <1>4, SackFields DEF ListInv, Sound

LEMMA ListNextInv == ListInv /\ [ListNext]_listVars => ListInv'
<1> SUFFICES ASSUME ListInv, [ListNext]_listVars
             PROVE  ListInv'
  OBVIOUS
<1>1. Sound(Sack) /\ Spaced(Sack.list) /\ Spaced(list) /\ \A F \in listFrames : FrameOK(F)
  BY SackFields DEF ListInv
<1>2. ASSUME NEW lo \in 0 .. ListMaxPn, NEW hi \in 0 .. ListMaxPn, lo <= hi, ListReceive(lo, hi)
      PROVE  ListInv'
  <2>1. Become(UpdateSackList(Sack, lo, hi)) /\ listFrames' = listFrames
    BY <1>2 DEF ListReceive
  <2>2. lo \in Nat /\ hi \in Nat
    BY SackListAssumption
  <2>3. Sound(UpdateSackList(Sack, lo, hi)) /\ Spaced(UpdateSackList(Sack, lo, hi).list)
    BY <1>1, <1>2, <2>2, UpdateUnion
  <2>4. Sound(Sack)' /\ Spaced(list)'
    BY <2>1, <2>3, BecomesSound
  <2> QED BY <1>1, <2>1, <2>4 DEF ListInv
<1>3. ASSUME NEW k \in ListKinds, NEW room \in 0 .. ListBlocks, ListSend(k, room)
      PROVE  ListInv'
  <2> DEFINE f == FormatFrame(Sack, k, room)
  <2>1. Become(f.sack) /\ listFrames' = listFrames \cup {f.frame} /\ list # <<>>
    BY <1>3 DEF ListSend
  <2>2. k \in Kinds
    BY SackListAssumption
  <2>3. Composed(f, RecordSent(Sack, Len(Sack.list), k).list, k, room)
    BY <1>1, <2>1, <2>2, SackFields, FormatIs
  <2> HIDE DEF f
  <2>4. Sound(f.sack) /\ Spaced(f.sack.list) /\ FrameOK(f.frame)
    BY <2>3 DEF Composed
  <2>5. Sound(Sack)' /\ Spaced(list)'
    BY <2>1, <2>4, BecomesSound
  <2>6. \A F \in listFrames' : FrameOK(F)
    BY <1>1, <2>1, <2>4
  <2> QED BY <2>5, <2>6 DEF ListInv
<1>4. ASSUME NEW F \in listFrames, ListAcked(F)
      PROVE  ListInv'
  <2>1. Become(AckOfAckFrame(Sack, F)) /\ listFrames' = listFrames \ {F}
    BY <1>4 DEF ListAcked
  <2>2. Sound(AckOfAckFrame(Sack, F)) /\ Spaced(AckOfAckFrame(Sack, F).list)
    BY <1>1, FrameTaken DEF Taken
  <2>3. Sound(Sack)' /\ Spaced(list)'
    BY <2>1, <2>2, BecomesSound
  <2>4. \A G \in listFrames' : FrameOK(G)
    BY <1>1, <2>1
  <2> QED BY <2>3, <2>4 DEF ListInv
<1>5. ASSUME NEW F \in listFrames, ListFrameLost(F)
      PROVE  ListInv'
  <2>1. list' = list /\ rc' = rc /\ listFrames' = listFrames \ {F}
    BY <1>5 DEF ListFrameLost
  <2>2. Sack' = Sack
    BY <2>1 DEF Sack
  <2>3. \A G \in listFrames' : FrameOK(G)
    BY <1>1, <2>1
  <2> QED BY <1>1, <2>1, <2>2, <2>3 DEF ListInv
<1>6. CASE UNCHANGED listVars
  <2>1. list' = list /\ rc' = rc /\ listFrames' = listFrames
    BY <1>6 DEF listVars
  <2>2. Sack' = Sack
    BY <2>1 DEF Sack
  <2> QED BY <1>1, <2>1, <2>2 DEF ListInv
<1> QED BY <1>2, <1>3, <1>4, <1>5, <1>6 DEF ListNext

(* Ranges in order with a gap between any two, exact counters, and every   *)
(* frame in flight the ranges of a list: what the theorems on the list     *)
(* follow from.                                                            *)
THEOREM ListInvariance == ListSpec => []ListInv
<1>1. ListInit => ListInv
  BY ListInitInv
<1>2. ListInv /\ [ListNext]_listVars => ListInv'
  BY ListNextInv
<1> QED BY <1>1, <1>2, PTL DEF ListSpec

(* The list holds items, one counter for each count of transmissions up to *)
(* the repeat limit, and the frames in flight are sequences of ranges.     *)
THEOREM ListTyped == ListSpec => []ListTypeOK
<1>1. ListInv => ListTypeOK
  <2> SUFFICES ASSUME ListInv
               PROVE  ListTypeOK
    OBVIOUS
  <2>1. Sack \in Sacks
    BY SoundIs DEF ListInv
  <2>2. list \in Seq(Items) /\ rc \in [Kinds -> Counts]
    BY <2>1, SackIs, SackFields
  <2>3. \A F \in listFrames : F \in Seq(Ranges)
    BY DEF ListInv, FrameOK
  <2> QED BY <2>2, <2>3 DEF ListTypeOK
<1> QED BY <1>1, ListInvariance, PTL

(* The loops of picoquic_update_sack_list compute the union of the list    *)
(* and the interval, in order and with exact counters, and tell duplicates *)
(* from news, for every list the program can reach.                        *)
THEOREM ListsAreUnions == ListSpec => []UpdateIsUnion
<1>1. ListInv => UpdateIsUnion
  <2> SUFFICES ASSUME ListInv
               PROVE  UpdateIsUnion
    OBVIOUS
  <2>1. Sound(Sack) /\ Spaced(list)
    BY DEF ListInv
  <2>2. \A lo \in 0 .. ListMaxPn : lo \in Nat
    BY SackListAssumption
  <2> QED BY <2>1, <2>2, UnionOfOne DEF UpdateIsUnion
<1> QED BY <1>1, ListInvariance, PTL

(* The counters select the items that counting afresh selects, each once,  *)
(* and no range below the repeat limit waits while one that was sent more  *)
(* often is repeated, unless worn ranges take part.                        *)
THEOREM SelectionHolds == ListSpec => []SelectionIsExact
<1>1. ListInv => SelectionIsExact
  <2> SUFFICES ASSUME ListInv
               PROVE  SelectionIsExact
    OBVIOUS
  <2>1. Sound(Sack) /\ Spaced(list)
    BY DEF ListInv
  <2> QED BY <2>1, SelectionOfOne DEF SelectionIsExact
<1> QED BY <1>1, ListInvariance, PTL

(* Taking the ranges of an acknowledged frame out one after the other has  *)
(* the simultaneous effect that AckContext assumes.                        *)
THEOREM AckOfAckHolds == ListSpec => []AckOfAckIsSimultaneous
<1>1. ListInv => AckOfAckIsSimultaneous
  <2> SUFFICES ASSUME ListInv, NEW F \in listFrames
               PROVE  ToSet(AckOfAckFrame(Sack, F).list) = AckOfAck(ToSet(list), ToSet(F))
    BY DEF AckOfAckIsSimultaneous
  <2>1. Sound(Sack) /\ Spaced(Sack.list) /\ FrameOK(F)
    BY SackFields DEF ListInv
  <2> QED BY <2>1, FrameTaken, SackFields DEF Taken
<1> QED BY <1>1, ListInvariance, PTL

(* The run's specification is that of the list and of the context, each    *)
(* with steps of the other: what was proved of both holds in it.           *)
THEOREM PartsOfSpace == SpaceSpec => ListSpec /\ Spec
<1>1. SpaceInit => ListInit /\ Init
  BY DEF SpaceInit
<1>2. [SpaceNext]_<<part, vars, listVars>> => [ListNext]_listVars
  BY DEF SpaceNext
<1>3. [SpaceNext]_<<part, vars, listVars>> => [Next]_vars
  BY DEF SpaceNext
<1> QED BY <1>1, <1>2, <1>3, PTL DEF SpaceSpec, ListSpec, Spec

=============================================================================
