------------------------------ MODULE KeyUpdate ------------------------------
(***************************************************************************)
(* The rotation of the 1-RTT keys: an end starts one with                  *)
(* picoquic_start_key_rotation, on request of the application or because   *)
(* it sent enough packets with the same key, and the other follows when    *)
(* it decrypts the first packet of the new phase.                          *)
(*                                                                         *)
(* A key is the number of times its secret was rotated; a packet decrypts  *)
(* with the key it was encrypted with and no other; the key phase bit is   *)
(* the parity.  Packets may be lost, delayed, repeated and reordered       *)
(* without limit.  One path, no multipath.                                 *)
(***************************************************************************)
EXTENDS Integers

CONSTANTS
  EpochLength,     \* crypto_epoch_length_max
  MaxPackets       \* bound: packets an end sends

End == {"client", "server"}
Peer(e) == IF e = "client" THEN "server" ELSE "client"

VARIABLES
  end,             \* the keys and counters of each end
  sent             \* all the packets sent

vars == <<end, sent>>

NoKey == 0 - 1

(* generation counts the rotations of the application secrets; enc, dec,   *)
(* new_enc, new_dec and old are the keys of the crypto contexts.           *)
Init ==
  /\ end = [e \in End |->
       [generation |-> 0, enc |-> 0, dec |-> 0, new_enc |-> NoKey, new_dec |-> NoKey,
        old |-> NoKey, rotation_sequence |-> 0, guarded |-> FALSE,
        epoch_sequence |-> 0, send_sequence |-> 0, last |-> 0]]
  /\ sent = {}

Phase(key) == key % 2
-----------------------------------------------------------------------------
(* Keys of one end.                                                        *)

CanCompute(k) == (k.new_enc = NoKey) <=> (k.new_dec = NoKey)

ComputeNewRotatedKeys(k) ==
  IF k.new_enc # NoKey THEN k
  ELSE [k EXCEPT !.generation = @ + 1, !.new_enc = k.generation + 1,
                 !.new_dec = k.generation + 1]

ApplyEnc(k) == [k EXCEPT !.enc = k.new_enc, !.new_enc = NoKey]
ApplyDec(k) == [k EXCEPT !.old = k.dec, !.dec = k.new_dec, !.new_dec = NoKey]

(* The test that is to verify that a packet of the previous rotation was   *)
(* acknowledged: epoch_sequence numbers packets sent, last is a packet     *)
(* received.                                                               *)
RotationReady(k) == k.epoch_sequence <= k.last

CanStart(k) == RotationReady(k) /\ CanCompute(k)

Rotated(k) ==
  [ApplyEnc(ComputeNewRotatedKeys(k)) EXCEPT
     !.old = NoKey, !.epoch_sequence = k.send_sequence]

(* Mutant: the key that is kept is the one of the other phase, even if the *)
(* packet is younger than the rotation.                                    *)
IsOldPhaseAlways(k, p) == k.old # NoKey

IsOldPhase(k, p) == p.pn < k.rotation_sequence

Decrypts(key, p) == key # NoKey /\ key = p.key

(* The context after a packet of the phase in use.                         *)
SamePhase(k, p) ==
  IF Decrypts(k.dec, p) /\ p.pn < k.rotation_sequence
  THEN [k EXCEPT !.rotation_sequence = p.pn] ELSE k

(* The new keys are computed if there is none of them.                     *)
WithNewKeys(k) ==
  IF k.new_enc = NoKey /\ k.new_dec = NoKey THEN ComputeNewRotatedKeys(k) ELSE k

(* Mutant: the number of the first packet of the phase is not recorded.    *)
FollowUnnumbered(k, p) ==
  LET after == [ApplyDec(k) EXCEPT !.guarded = TRUE]
  IN  IF ~Decrypts(k.new_dec, p) THEN k
      ELSE IF k.new_enc # NoKey THEN ApplyEnc(after) ELSE after

(* The context after a packet of the next phase, with the new keys.        *)
Follow(k, p) ==
  LET after == [ApplyDec(k) EXCEPT !.guarded = TRUE, !.rotation_sequence = p.pn]
  IN  IF ~Decrypts(k.new_dec, p) THEN k
      ELSE IF k.new_enc # NoKey THEN ApplyEnc(after) ELSE after

NextPhase(k, p) == Follow(WithNewKeys(k), p)

(* picoquic_remove_packet_protection: whether the packet is decrypted, and *)
(* the context after.                                                      *)
Reads(k, p) ==
  IF Phase(p.key) = Phase(k.dec) THEN Decrypts(k.dec, p)
  ELSE IF IsOldPhase(k, p) THEN k.guarded /\ Decrypts(k.old, p)
  ELSE Decrypts(WithNewKeys(k).new_dec, p)

RemovePacketProtection(k, p) ==
  IF Phase(p.key) = Phase(k.dec) THEN SamePhase(k, p)
  ELSE IF IsOldPhase(k, p) THEN k
  ELSE NextPhase(k, p)
-----------------------------------------------------------------------------
(* Actions.                                                                *)

StartKeyRotation(e) ==
  /\ CanStart(end[e])
  /\ end' = [end EXCEPT ![e] = Rotated(@)]
  /\ UNCHANGED sent

(* The packets of the path are counted by their numbers.                   *)
EpochIsOver(k) == k.send_sequence - k.epoch_sequence > EpochLength /\ ~k.guarded

(* picoquic_prepare_packet_ready, at either end: a rotation that cannot    *)
(* start waits.                                                            *)
BeforeSending(e) ==
  IF EpochIsOver(end[e]) /\ CanStart(end[e]) THEN Rotated(end[e]) ELSE end[e]

Send(e) ==
  LET k == BeforeSending(e)
  IN  /\ k.send_sequence < MaxPackets
      /\ sent' = sent \cup {[from |-> e, pn |-> k.send_sequence, key |-> k.enc]}
      /\ end' = [end EXCEPT ![e] = [k EXCEPT !.send_sequence = @ + 1]]

Received(k, p) ==
  [RemovePacketProtection(k, p) EXCEPT
     !.last = IF Reads(k, p) /\ p.pn > k.last THEN p.pn ELSE k.last]

Receive(e, p) ==
  /\ p.from = Peer(e)
  /\ end' = [end EXCEPT ![e] = Received(@, p)]
  /\ UNCHANGED sent

(* The time until which packets of the old phase are accepted passes.      *)
GuardEnds(e) ==
  /\ end[e].guarded
  /\ end' = [end EXCEPT ![e] = [@ EXCEPT !.guarded = FALSE]]
  /\ UNCHANGED sent

Next ==
  \E e \in End :
    \/ StartKeyRotation(e)
    \/ Send(e)
    \/ \E p \in sent : Receive(e, p)
    \/ GuardEnds(e)

Spec == Init /\ [][Next]_vars
-----------------------------------------------------------------------------
Packet == [from : End, pn : Nat, key : Nat]

Keys == [generation : Nat, enc : Nat, dec : Nat, new_enc : Nat \cup {NoKey},
         new_dec : Nat \cup {NoKey}, old : Nat \cup {NoKey}, rotation_sequence : Nat,
         guarded : BOOLEAN, epoch_sequence : Nat, send_sequence : Nat, last : Nat]

TypeOK == end \in [End -> Keys] /\ sent \subseteq Packet

(* Whatever is reordered or repeated, a packet of the key in use, or of    *)
(* the next one, can be decrypted: it is neither taken for a packet of the *)
(* phase before nor tried with a key of the wrong rotation, even if failed *)
(* attempts have left new keys behind (picoquic_remove_packet_protection). *)
NoPacketStranded ==
  \A p \in sent :
    LET k == end[Peer(p.from)] IN p.key \in {k.dec, k.dec + 1} => Reads(k, p)

(* A packet that was overtaken by the rotation is decrypted with the old   *)
(* key, until the guard time ends or this end starts a rotation itself     *)
(* (packet.c:678-703).                                                     *)
LatePacketIsRead ==
  \A p \in sent :
    LET k == end[Peer(p.from)]
    IN  p.key + 1 = k.dec /\ k.guarded /\ k.old # NoKey => Reads(k, p)

(* The two directions of an end use keys of one secret or of two that      *)
(* follow each other, the encryption first, in whatever order it rotates,  *)
(* follows the peer and fails to decrypt (picoquic_apply_rotated_keys).    *)
EndsFollow == \A e \in End : end[e].enc \in {end[e].dec, end[e].dec + 1}

(* quicctx.c:4711: "Verify that a packet of the previous rotation was      *)
(* acked" before the next one starts: an end at rotation n has a peer that *)
(* has received a packet of rotation n - 1, without which it cannot        *)
(* decrypt any of rotation n.                                              *)
RotationsInStep == \A e \in End : end[e].enc <= end[Peer(e)].dec + 1
=============================================================================
