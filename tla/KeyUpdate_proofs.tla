-------------------------- MODULE KeyUpdate_proofs --------------------------
(***************************************************************************)
(* Both ends may rotate at any time.  Whatever the network does with the   *)
(* packets, an end decrypts those of the key in use, of the next one, and  *)
(* of the one before while it is kept.                                     *)
(*                                                                         *)
(* The invariant: the keys of an end belong to one rotation, half applied  *)
(* at most; keys grow with packet numbers; and rotation_sequence is the    *)
(* number of some packet that was sent with the key in use.                *)
(***************************************************************************)
EXTENDS KeyUpdate, TLAPS

(* No new keys, a pair of new keys, or the half of a pair that is left     *)
(* after this end has started a rotation.                                  *)
KeysOK(k) ==
  /\ \/ /\ k.new_enc = NoKey /\ k.new_dec = NoKey
        /\ k.enc = k.dec /\ k.generation = k.dec
     \/ /\ k.new_enc = k.dec + 1 /\ k.new_dec = k.dec + 1
        /\ k.enc = k.dec /\ k.generation = k.dec + 1
     \/ /\ k.new_enc = NoKey /\ k.new_dec = k.dec + 1
        /\ k.enc = k.dec + 1 /\ k.generation = k.dec + 1
  /\ k.old # NoKey => k.old + 1 = k.dec

(* k is the state of the end e that has sent the packets.                  *)
Bounds(e, k, S) == \A p \in S : p.from = e => p.pn < k.send_sequence /\ p.key <= k.enc

KeysGrow(S) ==
  \A p, q \in S : p.from = q.from /\ p.key < q.key => p.pn < q.pn

(* k is the state of the peer of e, which has sent the packets.            *)
Seen(e, k, S) ==
  \/ k.dec = 0 /\ k.rotation_sequence = 0
  \/ \E q \in S : q.from = e /\ q.key = k.dec /\ q.pn = k.rotation_sequence

Good(e, k, S) == KeysOK(k) /\ Bounds(e, k, S) /\ Seen(Peer(e), k, S)

IInv == TypeOK /\ KeysGrow(sent) /\ \A e \in End : Good(e, end[e], sent)
-----------------------------------------------------------------------------
(* The parity tells a key from the next one.                               *)
LEMMA PhaseAlternates == \A n \in Nat : Phase(n) # Phase(n + 1)
  BY SMT DEF Phase

(* What the steps of a rotation make of the keys.                          *)
LEMMA ComputedKeys ==
  ASSUME NEW k \in Keys, k.new_enc = NoKey
  PROVE  LET j == ComputeNewRotatedKeys(k)
         IN  /\ j \in Keys
             /\ j.generation = k.generation + 1 /\ j.new_enc = k.generation + 1
             /\ j.new_dec = k.generation + 1
             /\ j.enc = k.enc /\ j.dec = k.dec /\ j.send_sequence = k.send_sequence
             /\ j.rotation_sequence = k.rotation_sequence /\ j.old = k.old
<1> DEFINE g == k.generation + 1
           j == [k EXCEPT !.generation = g, !.new_enc = g, !.new_dec = g]
<1>1. g \in Nat
  BY SMT DEF Keys
<1>2. j \in Keys
  <2> HIDE DEF g
  <2> QED BY <1>1, Zenon DEF Keys
<1>3. /\ j.generation = g /\ j.new_enc = g /\ j.new_dec = g /\ j.enc = k.enc /\ j.dec = k.dec
      /\ j.send_sequence = k.send_sequence /\ j.rotation_sequence = k.rotation_sequence
      /\ j.old = k.old
  BY DEF Keys
<1>4. ComputeNewRotatedKeys(k) = j
  BY DEF ComputeNewRotatedKeys
<1> HIDE DEF j
<1> QED BY <1>2, <1>3, <1>4

LEMMA AppliedEnc ==
  ASSUME NEW k \in Keys, k.new_enc # NoKey
  PROVE  LET j == ApplyEnc(k)
         IN  /\ j \in Keys
             /\ j.enc = k.new_enc /\ j.new_enc = NoKey /\ j.generation = k.generation
             /\ j.new_dec = k.new_dec /\ j.dec = k.dec /\ j.send_sequence = k.send_sequence
             /\ j.rotation_sequence = k.rotation_sequence /\ j.old = k.old
<1>1. k.new_enc \in Nat /\ NoKey \in Nat \cup {NoKey}
  BY DEF Keys
<1>2. ApplyEnc(k) \in Keys
  BY <1>1, Zenon DEF Keys, ApplyEnc
<1>3. LET j == ApplyEnc(k)
      IN  /\ j.enc = k.new_enc /\ j.new_enc = NoKey /\ j.generation = k.generation
          /\ j.new_dec = k.new_dec /\ j.dec = k.dec /\ j.send_sequence = k.send_sequence
          /\ j.rotation_sequence = k.rotation_sequence /\ j.old = k.old
  BY DEF Keys, ApplyEnc
<1> QED BY <1>2, <1>3

LEMMA AppliedDec ==
  ASSUME NEW k \in Keys, k.new_dec # NoKey, NEW n \in Nat
  PROVE  LET j == [ApplyDec(k) EXCEPT !.guarded = TRUE, !.rotation_sequence = n]
         IN  /\ j \in Keys
             /\ j.dec = k.new_dec /\ j.new_dec = NoKey /\ j.generation = k.generation
             /\ j.new_enc = k.new_enc /\ j.enc = k.enc /\ j.send_sequence = k.send_sequence
             /\ j.rotation_sequence = n /\ j.old = k.dec
<1> DEFINE i == ApplyDec(k)
           j == [i EXCEPT !.guarded = TRUE, !.rotation_sequence = n]
<1>1. k.new_dec \in Nat /\ k.dec \in Nat \cup {NoKey} /\ NoKey \in Nat \cup {NoKey}
  BY DEF Keys
<1>2. i \in Keys
  BY <1>1, Zenon DEF Keys, ApplyDec
<1>3. /\ i.dec = k.new_dec /\ i.new_dec = NoKey /\ i.generation = k.generation
      /\ i.new_enc = k.new_enc /\ i.enc = k.enc /\ i.send_sequence = k.send_sequence
      /\ i.old = k.dec
  BY DEF Keys, ApplyDec
<1> HIDE DEF i
<1>4. TRUE \in BOOLEAN
  OBVIOUS
<1>5. j \in Keys
  BY <1>2, <1>4, Zenon DEF Keys
<1>6. /\ j.dec = i.dec /\ j.new_dec = i.new_dec /\ j.generation = i.generation
      /\ j.new_enc = i.new_enc /\ j.enc = i.enc /\ j.send_sequence = i.send_sequence
      /\ j.rotation_sequence = n /\ j.old = i.old
  BY <1>2 DEF Keys
<1> QED BY <1>3, <1>5, <1>6 DEF i

LEMMA RotatedKeys ==
  ASSUME NEW k \in Keys, KeysOK(k), CanStart(k)
  PROVE  /\ Rotated(k) \in Keys /\ KeysOK(Rotated(k))
         /\ Rotated(k).enc = k.enc + 1 /\ Rotated(k).dec = k.dec
         /\ Rotated(k).rotation_sequence = k.rotation_sequence
         /\ Rotated(k).send_sequence = k.send_sequence
<1> DEFINE i == ComputeNewRotatedKeys(k)
           h == ApplyEnc(i)
           j == [h EXCEPT !.old = NoKey, !.epoch_sequence = k.send_sequence]
<1>1. k.dec \in Nat /\ k.enc \in Nat /\ k.generation \in Nat
  BY DEF Keys
<1>2. /\ i \in Keys /\ i.new_enc = k.dec + 1 /\ i.new_dec = k.dec + 1
      /\ i.generation = k.dec + 1 /\ i.dec = k.dec /\ k.enc = k.dec
      /\ i.send_sequence = k.send_sequence /\ i.rotation_sequence = k.rotation_sequence
  <2>1. CASE k.new_enc = NoKey
    <3>1. k.new_dec = NoKey /\ k.enc = k.dec /\ k.generation = k.dec
      BY <1>1, <2>1 DEF CanStart, CanCompute, KeysOK, NoKey
    <3> QED BY <2>1, <3>1, ComputedKeys
  <2>2. CASE k.new_enc # NoKey
    <3>1. i = k
      BY <2>2 DEF ComputeNewRotatedKeys
    <3> QED BY <2>2, <3>1 DEF KeysOK
  <2> QED BY <2>1, <2>2
<1>3. i.new_enc # NoKey
  BY <1>1, <1>2 DEF NoKey
<1> HIDE DEF i
<1>4. /\ h \in Keys /\ h.enc = i.new_enc /\ h.new_enc = NoKey /\ h.generation = i.generation
      /\ h.new_dec = i.new_dec /\ h.dec = i.dec /\ h.send_sequence = i.send_sequence
      /\ h.rotation_sequence = i.rotation_sequence
  BY <1>2, <1>3, AppliedEnc
<1> HIDE DEF h
<1>5. k.send_sequence \in Nat /\ NoKey \in Nat \cup {NoKey}
  BY DEF Keys
<1>6. j \in Keys
  BY <1>4, <1>5, Zenon DEF Keys
<1>7. /\ j.generation = h.generation /\ j.enc = h.enc /\ j.new_enc = h.new_enc
      /\ j.new_dec = h.new_dec /\ j.dec = h.dec /\ j.send_sequence = h.send_sequence
      /\ j.rotation_sequence = h.rotation_sequence /\ j.old = NoKey
  BY <1>4 DEF Keys
<1>8. Rotated(k) = j
  BY DEF Rotated, h, i
<1> HIDE DEF j
<1>9. KeysOK(j)
  BY <1>2, <1>4, <1>7 DEF KeysOK
<1> QED BY <1>2, <1>4, <1>6, <1>7, <1>8, <1>9

(* An end that has no new keys computes them.                              *)
LEMMA NewKeys ==
  ASSUME NEW k \in Keys, KeysOK(k)
  PROVE  LET w == WithNewKeys(k)
         IN  /\ w \in Keys /\ KeysOK(w) /\ w.new_dec = k.dec + 1
             /\ w.enc = k.enc /\ w.dec = k.dec /\ w.send_sequence = k.send_sequence
             /\ w.rotation_sequence = k.rotation_sequence
<1> DEFINE w == WithNewKeys(k)
<1>1. k.dec \in Nat
  BY DEF Keys
<1>2. CASE k.new_enc = NoKey /\ k.new_dec = NoKey
  <2>1. w = ComputeNewRotatedKeys(k)
    BY <1>2 DEF WithNewKeys
  <2>2. k.enc = k.dec /\ k.generation = k.dec
    BY <1>1, <1>2 DEF KeysOK, NoKey
  <2> HIDE DEF w
  <2>3. /\ w \in Keys /\ w.generation = k.dec + 1 /\ w.new_enc = k.dec + 1
        /\ w.new_dec = k.dec + 1 /\ w.enc = k.enc /\ w.dec = k.dec
        /\ w.send_sequence = k.send_sequence
        /\ w.rotation_sequence = k.rotation_sequence /\ w.old = k.old
    BY <1>2, <2>1, <2>2, ComputedKeys
  <2>4. KeysOK(w)
    BY <2>2, <2>3 DEF KeysOK
  <2> QED BY <2>3, <2>4 DEF w
<1>3. CASE ~(k.new_enc = NoKey /\ k.new_dec = NoKey)
  <2>1. w = k
    BY <1>3 DEF WithNewKeys
  <2> QED BY <1>3, <2>1 DEF KeysOK
<1> QED BY <1>2, <1>3

(* An end that follows a rotation encrypts with the new key too, if it had *)
(* not started the rotation itself.                                        *)
LEMMA FollowedKeys ==
  ASSUME NEW k \in Keys, KeysOK(k), k.new_dec # NoKey, NEW p \in Packet, p.key = k.new_dec
  PROVE  LET j == Follow(k, p)
         IN  /\ j \in Keys /\ KeysOK(j)
             /\ j.dec = k.dec + 1 /\ j.enc = k.dec + 1
             /\ j.rotation_sequence = p.pn /\ j.send_sequence = k.send_sequence
<1> DEFINE i == [ApplyDec(k) EXCEPT !.guarded = TRUE, !.rotation_sequence = p.pn]
           j == Follow(k, p)
<1>1. Decrypts(k.new_dec, p) /\ p.pn \in Nat /\ k.dec \in Nat
  BY DEF Decrypts, Packet, Keys
<1>2. j = IF k.new_enc # NoKey THEN ApplyEnc(i) ELSE i
  BY <1>1 DEF Follow
<1>3. /\ i \in Keys /\ i.dec = k.new_dec /\ i.new_dec = NoKey /\ i.generation = k.generation
      /\ i.new_enc = k.new_enc /\ i.enc = k.enc /\ i.send_sequence = k.send_sequence
      /\ i.rotation_sequence = p.pn /\ i.old = k.dec
  BY <1>1, AppliedDec
<1> HIDE DEF i, j
<1>4. k.new_dec = k.dec + 1 /\ k.generation = k.dec + 1
  BY DEF KeysOK
<1>5. /\ j \in Keys /\ j.enc = k.dec + 1 /\ j.dec = k.dec + 1 /\ j.old = k.dec
      /\ j.new_enc = NoKey /\ j.new_dec = NoKey /\ j.generation = k.dec + 1
      /\ j.rotation_sequence = p.pn /\ j.send_sequence = k.send_sequence
  <2>1. CASE k.new_enc # NoKey
    <3>1. k.new_enc = k.dec + 1
      BY <2>1 DEF KeysOK
    <3> QED BY <1>2, <1>3, <1>4, <2>1, <3>1, AppliedEnc
  <2>2. CASE k.new_enc = NoKey
    <3>1. k.enc = k.dec + 1
      BY <1>1, <1>4, <2>2 DEF KeysOK, NoKey
    <3> QED BY <1>2, <1>3, <1>4, <2>2, <3>1
  <2> QED BY <2>1, <2>2
<1>6. KeysOK(j)
  BY <1>1, <1>5 DEF KeysOK
<1> QED BY <1>5, <1>6 DEF j
-----------------------------------------------------------------------------
(* The packet numbers tell older keys from newer ones.                     *)
LEMMA NumbersTell ==
  ASSUME NEW k \in Keys, NEW S \in SUBSET Packet, NEW e \in End, KeysGrow(S), Seen(e, k, S),
         NEW p \in S, p.from = e
  PROVE  /\ p.key < k.dec => IsOldPhase(k, p)
         /\ p.key > k.dec => ~IsOldPhase(k, p)
<1>1. p.key \in Nat /\ p.pn \in Nat /\ k.dec \in Nat
  BY DEF Packet, Keys
<1>2. CASE k.dec = 0 /\ k.rotation_sequence = 0
  BY <1>1, <1>2 DEF IsOldPhase
<1>3. CASE \E q \in S : q.from = e /\ q.key = k.dec /\ q.pn = k.rotation_sequence
  <2>1. PICK q \in S : q.from = e /\ q.key = k.dec /\ q.pn = k.rotation_sequence
    BY <1>3
  <2>2. q.pn \in Nat
    BY DEF Packet
  <2>3. p.key < q.key => p.pn < q.pn
    BY <2>1 DEF KeysGrow
  <2>4. p.key > q.key => q.pn < p.pn
    BY <1>1, <2>1 DEF KeysGrow
  <2> QED BY <1>1, <2>1, <2>2, <2>3, <2>4 DEF IsOldPhase
<1> QED BY <1>2, <1>3 DEF Seen

Unmoved(k, j) ==
  /\ j.generation = k.generation /\ j.enc = k.enc /\ j.dec = k.dec
  /\ j.new_enc = k.new_enc /\ j.new_dec = k.new_dec /\ j.old = k.old
  /\ j.send_sequence = k.send_sequence

(* A packet of the phase in use may only lower rotation_sequence.          *)
LEMMA SamePhaseKeys ==
  ASSUME NEW k \in Keys, NEW p \in Packet
  PROVE  LET j == SamePhase(k, p)
         IN  /\ j \in Keys /\ Unmoved(k, j)
             /\ \/ j.rotation_sequence = k.rotation_sequence
                \/ p.key = k.dec /\ j.rotation_sequence = p.pn
<1> DEFINE j == [k EXCEPT !.rotation_sequence = p.pn]
<1>1. p.pn \in Nat
  BY DEF Packet
<1>2. j \in Keys
  BY <1>1, Zenon DEF Keys
<1>3. Unmoved(k, j) /\ j.rotation_sequence = p.pn
  BY DEF Keys, Unmoved
<1>4. SamePhase(k, p) = IF Decrypts(k.dec, p) /\ p.pn < k.rotation_sequence THEN j ELSE k
  BY DEF SamePhase
<1>5. Unmoved(k, k)
  BY DEF Unmoved
<1> HIDE DEF j
<1> QED BY <1>2, <1>3, <1>4, <1>5 DEF Decrypts

(* What a packet does to the keys: nothing, or new keys are computed, or   *)
(* they are put to use.                                                    *)
LEMMA Outcome ==
  ASSUME NEW k \in Keys, KeysOK(k), NEW S \in SUBSET Packet, NEW e \in End,
         KeysGrow(S), Seen(e, k, S), NEW p \in S, p.from = e
  PROVE  LET j == RemovePacketProtection(k, p)
         IN  /\ j \in Keys /\ KeysOK(j) /\ Seen(e, j, S)
             /\ k.enc <= j.enc /\ j.send_sequence = k.send_sequence
<1> DEFINE j == RemovePacketProtection(k, p)
           w == WithNewKeys(k)
<1>1. /\ p.key \in Nat /\ p.pn \in Nat /\ p \in Packet
      /\ k.dec \in Nat /\ k.enc \in Nat /\ k.enc <= k.dec + 1
  BY DEF Packet, Keys, KeysOK
<1>2. CASE Phase(p.key) = Phase(k.dec)
  <2>1. j = SamePhase(k, p)
    BY <1>2 DEF RemovePacketProtection
  <2>2. /\ j \in Keys /\ Unmoved(k, j)
        /\ \/ j.rotation_sequence = k.rotation_sequence
           \/ p.key = k.dec /\ j.rotation_sequence = p.pn
    BY <1>1, <2>1, SamePhaseKeys
  <2> HIDE DEF j
  <2>3. Seen(e, j, S)
    <3>1. CASE j.rotation_sequence = k.rotation_sequence
      BY <2>2, <3>1 DEF Seen, Unmoved
    <3>2. CASE p.key = k.dec /\ j.rotation_sequence = p.pn
      BY <2>2, <3>2 DEF Seen, Unmoved
    <3> QED BY <2>2, <3>1, <3>2
  <2>4. KeysOK(j) /\ k.enc <= j.enc /\ j.send_sequence = k.send_sequence
    BY <1>1, <2>2 DEF KeysOK, Unmoved
  <2> QED BY <2>2, <2>3, <2>4 DEF j
<1>3. CASE Phase(p.key) # Phase(k.dec) /\ IsOldPhase(k, p)
  BY <1>1, <1>3 DEF RemovePacketProtection
<1>4. CASE Phase(p.key) # Phase(k.dec) /\ ~IsOldPhase(k, p)
  <2>1. j = Follow(w, p)
    BY <1>4 DEF RemovePacketProtection, NextPhase
  <2>2. /\ w \in Keys /\ KeysOK(w) /\ w.new_dec = k.dec + 1 /\ w.new_dec # NoKey
        /\ w.enc = k.enc /\ w.dec = k.dec /\ w.send_sequence = k.send_sequence
        /\ w.rotation_sequence = k.rotation_sequence
    BY <1>1, NewKeys DEF NoKey
  <2> HIDE DEF w, j
  <2>3. CASE p.key = w.new_dec
    <3>1. /\ j \in Keys /\ KeysOK(j) /\ j.dec = w.dec + 1 /\ j.enc = w.dec + 1
          /\ j.rotation_sequence = p.pn /\ j.send_sequence = w.send_sequence
      BY <1>1, <2>1, <2>2, <2>3, FollowedKeys
    <3>2. Seen(e, j, S)
      BY <2>2, <2>3, <3>1 DEF Seen
    <3> QED BY <1>1, <2>2, <3>1, <3>2 DEF j
  <2>4. CASE p.key # w.new_dec
    <3>1. j = w
      BY <2>1, <2>4 DEF Follow, Decrypts
    <3>2. Seen(e, w, S)
      BY <2>2 DEF Seen
    <3> QED BY <1>1, <2>2, <3>1, <3>2 DEF j
  <2> QED BY <2>3, <2>4
<1> QED BY <1>2, <1>3, <1>4

(* What an end can decrypt.                                                *)
LEMMA ReadsNear ==
  ASSUME NEW k \in Keys, KeysOK(k), NEW S \in SUBSET Packet, NEW e \in End,
         KeysGrow(S), Seen(e, k, S), NEW p \in S, p.from = e
  PROVE  /\ p.key \in {k.dec, k.dec + 1} => Reads(k, p)
         /\ p.key + 1 = k.dec /\ k.guarded /\ k.old # NoKey => Reads(k, p)
<1>1. p.key \in Nat /\ k.dec \in Nat /\ k.old \in Nat \cup {NoKey}
  BY DEF Packet, Keys
<1>2. p.key = k.dec => Reads(k, p)
  BY <1>1 DEF Reads, Decrypts, NoKey
<1>3. ASSUME p.key = k.dec + 1 PROVE Reads(k, p)
  <2>1. Phase(p.key) # Phase(k.dec)
    BY <1>1, <1>3, PhaseAlternates
  <2>2. ~IsOldPhase(k, p)
    BY <1>1, <1>3, NumbersTell
  <2>3. WithNewKeys(k).new_dec = p.key
    BY <1>3, NewKeys
  <2> QED BY <1>1, <2>1, <2>2, <2>3 DEF Reads, Decrypts, NoKey
<1>4. ASSUME p.key + 1 = k.dec, k.guarded, k.old # NoKey PROVE Reads(k, p)
  <2>1. Phase(p.key) # Phase(k.dec)
    BY <1>1, <1>4, PhaseAlternates
  <2>2. IsOldPhase(k, p)
    BY <1>1, <1>4, NumbersTell
  <2>3. k.old = p.key
    <3>1. k.old + 1 = k.dec
      BY <1>4 DEF KeysOK
    <3> QED BY <1>1, <1>4, <3>1 DEF NoKey
  <2> QED BY <1>4, <2>1, <2>2, <2>3 DEF Reads, Decrypts
<1> QED BY <1>2, <1>3, <1>4
-----------------------------------------------------------------------------
(* Fields that the invariant does not depend on.                           *)
LEMMA OtherFields ==
  ASSUME NEW k \in Keys, NEW n \in Nat
  PROVE  /\ [k EXCEPT !.last = n] \in Keys /\ Unmoved(k, [k EXCEPT !.last = n])
         /\ [k EXCEPT !.last = n].rotation_sequence = k.rotation_sequence
         /\ [k EXCEPT !.guarded = FALSE] \in Keys /\ Unmoved(k, [k EXCEPT !.guarded = FALSE])
         /\ [k EXCEPT !.guarded = FALSE].rotation_sequence = k.rotation_sequence
<1>1. FALSE \in BOOLEAN
  OBVIOUS
<1>2. [k EXCEPT !.last = n] \in Keys /\ [k EXCEPT !.guarded = FALSE] \in Keys
  BY <1>1, Zenon DEF Keys
<1> QED BY <1>2 DEF Keys, Unmoved

LEMMA SentKeys ==
  ASSUME NEW k \in Keys
  PROVE  LET j == [k EXCEPT !.send_sequence = @ + 1]
         IN  /\ j \in Keys
             /\ j.generation = k.generation /\ j.enc = k.enc /\ j.dec = k.dec
             /\ j.new_enc = k.new_enc /\ j.new_dec = k.new_dec /\ j.old = k.old
             /\ j.rotation_sequence = k.rotation_sequence
             /\ j.send_sequence = k.send_sequence + 1
<1> DEFINE n == k.send_sequence + 1
           j == [k EXCEPT !.send_sequence = n]
<1>1. n \in Nat
  BY DEF Keys
<1>2. j \in Keys
  <2> HIDE DEF n
  <2> QED BY <1>1, Zenon DEF Keys
<1>3. /\ j.generation = k.generation /\ j.enc = k.enc /\ j.dec = k.dec
      /\ j.new_enc = k.new_enc /\ j.new_dec = k.new_dec /\ j.old = k.old
      /\ j.rotation_sequence = k.rotation_sequence /\ j.send_sequence = n
  BY DEF Keys
<1> HIDE DEF j
<1> QED BY <1>2, <1>3 DEF j

(* Good of an end that differs in the other fields only.                   *)
LEMMA GoodAlike ==
  ASSUME NEW e, NEW k, NEW j, NEW S, Good(e, k, S), Unmoved(k, j),
         j.rotation_sequence = k.rotation_sequence
  PROVE  Good(e, j, S)
  BY DEF Good, KeysOK, Bounds, Seen, Unmoved

(* An end may encrypt with a later key than the packets it has sent.       *)
LEMMA BoundsGrow ==
  ASSUME NEW k \in Keys, NEW j \in Keys, NEW S \in SUBSET Packet, NEW e, Bounds(e, k, S),
         k.enc <= j.enc, j.send_sequence = k.send_sequence
  PROVE  Bounds(e, j, S)
<1> SUFFICES ASSUME NEW p \in S, p.from = e
             PROVE  p.pn < j.send_sequence /\ p.key <= j.enc
  BY DEF Bounds
<1>1. p.key \in Nat /\ k.enc \in Nat /\ j.enc \in Nat
  BY DEF Packet, Keys
<1> QED BY <1>1 DEF Bounds

LEMMA RotationGood ==
  ASSUME NEW e, NEW k \in Keys, NEW S \in SUBSET Packet, Good(e, k, S), CanStart(k)
  PROVE  Rotated(k) \in Keys /\ Good(e, Rotated(k), S)
<1> DEFINE j == Rotated(k)
<1>1. /\ j \in Keys /\ KeysOK(j) /\ j.enc = k.enc + 1 /\ j.dec = k.dec
      /\ j.rotation_sequence = k.rotation_sequence /\ j.send_sequence = k.send_sequence
  BY RotatedKeys DEF Good
<1> HIDE DEF j
<1>2. k.enc <= j.enc
  BY <1>1 DEF Keys
<1>3. Bounds(e, j, S)
  BY <1>1, <1>2, BoundsGrow DEF Good
<1>4. Seen(Peer(e), j, S)
  BY <1>1 DEF Good, Seen
<1> QED BY <1>1, <1>3, <1>4 DEF Good, j

(* A packet that is sent is younger than the others of its sender, and its *)
(* key is not older.                                                       *)
LEMMA SendKeeps ==
  ASSUME NEW k \in Keys, NEW S \in SUBSET Packet, NEW e \in End, Bounds(e, k, S), KeysGrow(S),
         NEW p, p = [from |-> e, pn |-> k.send_sequence, key |-> k.enc],
         NEW j, j.send_sequence = k.send_sequence + 1, j.enc = k.enc
  PROVE  /\ p \in Packet /\ Bounds(e, j, S \cup {p}) /\ KeysGrow(S \cup {p})
         /\ \A f \in End, i \in Keys : f # e /\ Bounds(f, i, S) => Bounds(f, i, S \cup {p})
         /\ \A f \in End, i \in Keys : Seen(f, i, S) => Seen(f, i, S \cup {p})
<1>1. k.send_sequence \in Nat /\ k.enc \in Nat
  BY DEF Keys
<1>2. p \in Packet /\ p.from = e /\ p.pn = k.send_sequence /\ p.key = k.enc
  BY <1>1 DEF Packet
<1>3. \A q \in S : /\ q.pn \in Nat /\ q.key \in Nat
                   /\ q.from = e => q.pn < k.send_sequence /\ q.key <= k.enc
  BY DEF Packet, Bounds
<1>4. Bounds(e, j, S \cup {p})
  BY <1>1, <1>2, <1>3 DEF Bounds
<1>5. KeysGrow(S \cup {p})
  <2> SUFFICES ASSUME NEW q \in S \cup {p}, NEW r \in S \cup {p}, q.from = r.from, q.key < r.key
               PROVE  q.pn < r.pn
    BY DEF KeysGrow
  <2>1. CASE q \in S /\ r \in S
    BY <2>1 DEF KeysGrow
  <2>2. CASE q = p
    BY <1>1, <1>2, <1>3, <2>2
  <2>3. CASE q \in S /\ r = p
    BY <1>2, <1>3, <2>3
  <2> QED BY <2>1, <2>2, <2>3
<1> QED BY <1>2, <1>4, <1>5 DEF Bounds, Seen

(* What Received keeps of RemovePacketProtection.                          *)
LEMMA ReceivedKeys ==
  ASSUME NEW k \in Keys, NEW p \in Packet, RemovePacketProtection(k, p) \in Keys
  PROVE  LET j == RemovePacketProtection(k, p)
             r == Received(k, p)
         IN  r \in Keys /\ Unmoved(j, r) /\ r.rotation_sequence = j.rotation_sequence
<1> DEFINE n == IF Reads(k, p) /\ p.pn > k.last THEN p.pn ELSE k.last
<1>1. n \in Nat
  BY DEF Packet, Keys
<1>2. Received(k, p) = [RemovePacketProtection(k, p) EXCEPT !.last = n]
  BY DEF Received
<1> HIDE DEF n
<1> QED BY <1>1, <1>2, OtherFields

(* A packet leaves an end good, whatever its key.                          *)
LEMMA ReceptionGood ==
  ASSUME NEW e \in End, NEW k \in Keys, NEW S \in SUBSET Packet, Good(e, k, S), KeysGrow(S),
         NEW p \in S, p.from = Peer(e)
  PROVE  Received(k, p) \in Keys /\ Good(e, Received(k, p), S)
<1> DEFINE j == RemovePacketProtection(k, p)
<1>1. Peer(e) \in End /\ p \in Packet
  BY DEF End, Peer
<1>2. /\ j \in Keys /\ KeysOK(j) /\ Seen(Peer(e), j, S)
      /\ k.enc <= j.enc /\ j.send_sequence = k.send_sequence
  BY <1>1, Outcome DEF Good
<1>3. /\ Received(k, p) \in Keys /\ Unmoved(j, Received(k, p))
      /\ Received(k, p).rotation_sequence = j.rotation_sequence
  BY <1>1, <1>2, ReceivedKeys
<1> HIDE DEF j
<1>4. Good(e, j, S)
  BY <1>2, BoundsGrow DEF Good
<1> QED BY <1>3, <1>4, GoodAlike
-----------------------------------------------------------------------------
(* The inductive invariant holds before any packet is sent.                *)
THEOREM InitInv == Init => IInv
<1> SUFFICES ASSUME Init PROVE IInv
  OBVIOUS
<1> DEFINE k == [generation |-> 0, enc |-> 0, dec |-> 0, new_enc |-> NoKey, new_dec |-> NoKey,
                 old |-> NoKey, rotation_sequence |-> 0, guarded |-> FALSE,
                 epoch_sequence |-> 0, send_sequence |-> 0, last |-> 0]
<1>1. k \in Keys
  BY DEF Keys
<1>2. end = [e \in End |-> k] /\ sent = {}
  BY DEF Init
<1>3. /\ k.enc = 0 /\ k.dec = 0 /\ k.generation = 0 /\ k.new_enc = NoKey /\ k.new_dec = NoKey
      /\ k.rotation_sequence = 0 /\ k.old = NoKey
  OBVIOUS
<1> HIDE DEF k
<1>4. TypeOK
  BY <1>1, <1>2 DEF TypeOK
<1>5. \A e \in End : Good(e, k, {})
  BY <1>3 DEF Good, KeysOK, Bounds, Seen
<1> QED BY <1>2, <1>4, <1>5 DEF IInv, KeysGrow

LEMMA PeerIsOther == \A e \in End : Peer(e) \in End /\ Peer(e) # e /\ Peer(Peer(e)) = e
  BY DEF End, Peer

(* One end changes: what is to be shown of its new state, and of what it   *)
(* sent.                                                                   *)
LEMMA OneEnd ==
  ASSUME IInv, NEW e \in End, NEW k \in Keys, end' = [end EXCEPT ![e] = k],
         sent' \subseteq Packet, KeysGrow(sent'), Good(e, k, sent'),
         \A f \in End : f # e => Good(f, end[f], sent')
  PROVE  IInv'
<1>1. end' \in [End -> Keys] /\ end'[e] = k /\ \A f \in End : f # e => end'[f] = end[f]
  BY DEF IInv, TypeOK
<1> QED BY <1>1 DEF IInv, TypeOK

(* A step of an end that sends nothing.                                    *)
LEMMA Silent ==
  ASSUME IInv, NEW e \in End, NEW k \in Keys, end' = [end EXCEPT ![e] = k], sent' = sent,
         Good(e, k, sent)
  PROVE  IInv'
  BY OneEnd DEF IInv, TypeOK

(* Every step of either end, a rotation at any time and the reception of   *)
(* an old, repeated or reordered packet included, preserves the inductive  *)
(* invariant.                                                              *)
THEOREM NextInv == IInv /\ [Next]_vars => IInv'
<1> SUFFICES ASSUME IInv, [Next]_vars PROVE IInv'
  OBVIOUS
<1>1. /\ sent \in SUBSET Packet /\ KeysGrow(sent)
      /\ \A e \in End : end[e] \in Keys /\ Good(e, end[e], sent)
  BY DEF IInv, TypeOK
<1>2. ASSUME NEW e \in End, StartKeyRotation(e) PROVE IInv'
  <2>1. end' = [end EXCEPT ![e] = Rotated(end[e])] /\ sent' = sent /\ CanStart(end[e])
    BY <1>2 DEF StartKeyRotation
  <2>2. Rotated(end[e]) \in Keys /\ Good(e, Rotated(end[e]), sent)
    BY <1>1, <2>1, RotationGood
  <2> QED BY <2>1, <2>2, Silent
<1>3. ASSUME NEW e \in End, Send(e) PROVE IInv'
  <2> DEFINE k == BeforeSending(e)
             p == [from |-> e, pn |-> k.send_sequence, key |-> k.enc]
             j == [k EXCEPT !.send_sequence = @ + 1]
  <2>1. sent' = sent \cup {p} /\ end' = [end EXCEPT ![e] = j]
    BY <1>3 DEF Send
  <2>2. k \in Keys /\ Good(e, k, sent)
    BY <1>1, RotationGood DEF BeforeSending
  <2> HIDE DEF k
  <2>3. /\ j \in Keys /\ j.generation = k.generation /\ j.enc = k.enc /\ j.dec = k.dec
        /\ j.new_enc = k.new_enc /\ j.new_dec = k.new_dec /\ j.old = k.old
        /\ j.rotation_sequence = k.rotation_sequence
        /\ j.send_sequence = k.send_sequence + 1
    BY <2>2, SentKeys
  <2> HIDE DEF j
  <2> DEFINE q == p
  <2> HIDE DEF q
  <2>4. q = [from |-> e, pn |-> k.send_sequence, key |-> k.enc]
    BY DEF q
  <2>5. /\ q \in Packet /\ Bounds(e, j, sent \cup {q}) /\ KeysGrow(sent \cup {q})
        /\ \A f \in End, i \in Keys : f # e /\ Bounds(f, i, sent) => Bounds(f, i, sent \cup {q})
        /\ \A f \in End, i \in Keys : Seen(f, i, sent) => Seen(f, i, sent \cup {q})
    <3>1. Bounds(e, k, sent)
      BY <2>2 DEF Good
    <3>2. k \in Keys /\ sent \in SUBSET Packet /\ KeysGrow(sent)
      BY <1>1, <2>2
    <3>3. j.send_sequence = k.send_sequence + 1 /\ j.enc = k.enc
      BY <2>3
    <3> HIDE DEF p
    <3> QED BY <2>4, <3>1, <3>2, <3>3, SendKeeps
  <2>6. Good(e, j, sent \cup {q})
    <3>1. Seen(Peer(e), k, sent \cup {q})
      BY <2>2, <2>5, PeerIsOther DEF Good
    <3>2. Seen(Peer(e), j, sent \cup {q})
      BY <2>3, <3>1 DEF Seen
    <3>3. KeysOK(j)
      BY <2>2, <2>3 DEF Good, KeysOK
    <3> QED BY <2>5, <3>2, <3>3 DEF Good
  <2>7. \A f \in End : f # e => Good(f, end[f], sent \cup {q})
    BY <1>1, <2>5, PeerIsOther DEF Good
  <2>8. sent' = sent \cup {q}
    BY <2>1 DEF q
  <2> QED BY <1>1, <2>1, <2>3, <2>5, <2>6, <2>7, <2>8, OneEnd
<1>4. ASSUME NEW e \in End, NEW p \in sent, Receive(e, p) PROVE IInv'
  <2>1. p.from = Peer(e) /\ end' = [end EXCEPT ![e] = Received(end[e], p)] /\ sent' = sent
    BY <1>4 DEF Receive
  <2>2. Received(end[e], p) \in Keys /\ Good(e, Received(end[e], p), sent)
    BY <1>1, <2>1, ReceptionGood
  <2> QED BY <2>1, <2>2, Silent
<1>5. ASSUME NEW e \in End, GuardEnds(e) PROVE IInv'
  <2> DEFINE j == [end[e] EXCEPT !.guarded = FALSE]
  <2>1. end' = [end EXCEPT ![e] = j] /\ sent' = sent
    BY <1>5 DEF GuardEnds
  <2>2. j \in Keys /\ Unmoved(end[e], j) /\ j.rotation_sequence = end[e].rotation_sequence
    <3>1. 0 \in Nat
      OBVIOUS
    <3> QED BY <1>1, <3>1, OtherFields
  <2> HIDE DEF j
  <2>3. Good(e, j, sent)
    BY <1>1, <2>2, GoodAlike
  <2> QED BY <2>1, <2>2, <2>3, Silent
<1>6. ASSUME UNCHANGED vars PROVE IInv'
  BY <1>6 DEF vars, IInv, TypeOK
<1> QED BY <1>2, <1>3, <1>4, <1>5, <1>6 DEF Next

(* The inductive invariant implies what the run checks.                    *)
THEOREM InvImplies == IInv => NoPacketStranded /\ LatePacketIsRead /\ EndsFollow
<1> SUFFICES ASSUME IInv PROVE NoPacketStranded /\ LatePacketIsRead /\ EndsFollow
  OBVIOUS
<1>1. /\ sent \in SUBSET Packet /\ KeysGrow(sent)
      /\ \A e \in End : end[e] \in Keys /\ Good(e, end[e], sent)
  BY DEF IInv, TypeOK
<1>2. NoPacketStranded /\ LatePacketIsRead
  <2> SUFFICES ASSUME NEW p \in sent
               PROVE  LET k == end[Peer(p.from)]
                      IN  /\ p.key \in {k.dec, k.dec + 1} => Reads(k, p)
                          /\ p.key + 1 = k.dec /\ k.guarded /\ k.old # NoKey => Reads(k, p)
    BY Zenon DEF NoPacketStranded, LatePacketIsRead
  <2> DEFINE k == end[Peer(p.from)]
  <2>1. p.from \in End
    BY <1>1 DEF Packet
  <2>2. k \in Keys /\ KeysOK(k) /\ Seen(p.from, k, sent)
    BY <1>1, <2>1, PeerIsOther DEF Good
  <2> HIDE DEF k
  <2>3. /\ p.key \in {k.dec, k.dec + 1} => Reads(k, p)
        /\ p.key + 1 = k.dec /\ k.guarded /\ k.old # NoKey => Reads(k, p)
    BY <1>1, <2>1, <2>2, ReadsNear
  <2> QED BY <2>3 DEF k
<1>3. EndsFollow
  BY <1>1 DEF EndsFollow, Good, KeysOK
<1> QED BY <1>2, <1>3

LEMMA SpecInv == Spec => []IInv
<1> QED BY InitInv, NextInv, PTL DEF Spec

(* Keys and counters of both ends are well typed.                          *)
THEOREM KeysTypeCorrect == Spec => []TypeOK
<1>1. IInv => TypeOK
  BY DEF IInv
<1> QED BY <1>1, SpecInv, PTL

(* Whenever either end rotates, every packet of the key in use or of the   *)
(* next one can be decrypted (picoquic_remove_packet_protection).          *)
THEOREM NothingIsStranded == Spec => []NoPacketStranded
<1>1. IInv => NoPacketStranded
  BY InvImplies
<1> QED BY <1>1, SpecInv, PTL

(* A packet that a rotation overtook is decrypted while the old key is     *)
(* kept and accepted (packet.c:678-703).                                   *)
THEOREM LatePacketsAreRead == Spec => []LatePacketIsRead
<1>1. IInv => LatePacketIsRead
  BY InvImplies
<1> QED BY <1>1, SpecInv, PTL

(* No end encrypts with a key older than the one it decrypts with, or more *)
(* than one rotation younger.                                              *)
THEOREM BothEndsFollow == Spec => []EndsFollow
<1>1. IInv => EndsFollow
  BY InvImplies
<1> QED BY <1>1, SpecInv, PTL

(* As long as both ends are in step, which the code fails to ensure, no    *)
(* packet of the key in use or of any later one is lost.                   *)
THEOREM InStepNothingIsLost ==
  Spec => [](RotationsInStep =>
               \A p \in sent : LET k == end[Peer(p.from)] IN p.key >= k.dec => Reads(k, p))
<1>1. ASSUME IInv, RotationsInStep, NEW p \in sent, p.key >= end[Peer(p.from)].dec
      PROVE  Reads(end[Peer(p.from)], p)
  <2> DEFINE e == p.from
             k == end[Peer(e)]
  <2>1. /\ e \in End /\ p.key \in Nat /\ k.dec \in Nat /\ end[e].enc \in Nat
        /\ p.key <= end[e].enc
    BY <1>1, PeerIsOther DEF IInv, TypeOK, Packet, Keys, Good, Bounds
  <2>2. end[e].enc <= k.dec + 1
    BY <1>1, <2>1 DEF RotationsInStep
  <2>3. p.key \in {k.dec, k.dec + 1}
    BY <1>1, <2>1, <2>2
  <2> QED BY <1>1, <2>3, InvImplies DEF NoPacketStranded
<1> DEFINE Near == \A p \in sent : LET k == end[Peer(p.from)] IN p.key >= k.dec => Reads(k, p)
<1>2. IInv => (RotationsInStep => Near)
  BY <1>1
<1> HIDE DEF Near
<1>3. Spec => [](RotationsInStep => Near)
  BY <1>2, SpecInv, PTL
<1> QED BY <1>3 DEF Near
=============================================================================
