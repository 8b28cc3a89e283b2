----------------------- MODULE StreamTransfer_proofs ------------------------
(***************************************************************************)
(* What is sent on a stream is delivered, in order and once, and a sender  *)
(* that runs the code never breaks a limit of a receiver that runs it: for *)
(* every set of streams, every window and every growth of the windows.     *)
(*                                                                         *)
(* The first invariant ties the two halves of each stream together, the    *)
(* second the counts of the connection and the credits on their way.       *)
(***************************************************************************)
EXTENDS StreamTransfer, FiniteSetTheorems, WellFoundedInduction, TLAPS

(* What the halves of one stream, and what arrived of it, know of another. *)
HalvesAgree(S, R, A) ==
  /\ R.fin_offset <= S.sent /\ R.consumed <= S.sent
  /\ R.buffered \subseteq R.consumed + 1 .. S.sent - 1
  /\ A = R.buffered \cup (0 .. R.consumed - 1)
  /\ R.fin_received => S.fin_sent /\ R.fin_offset = S.sent
  /\ R.fin_signalled => S.fin_sent /\ R.consumed = S.sent
  /\ R.reset_signalled => S.reset_sent

(* The streams' part of the type invariant.  The counts of the connection  *)
(* are not needed: what is delivered does not depend on them.              *)
HalvesOK ==
  /\ snd \in [Streams -> SendHalf]
  /\ rcv \in [Streams -> ReceiveHalf]
  /\ max_stream_data_frames \in [Streams -> SUBSET Nat]
  /\ arrived \in [Streams -> SUBSET Offsets]

(* The inductive invariant: DeliveredIsSent holds only because a FIN fixes *)
(* fin_offset at the final size, wherever it arrives; and a unidirectional *)
(* stream has one end only because it is deleted at the first.             *)
IInv ==
  /\ HalvesOK
  /\ \A s \in Streams : HalvesAgree(snd[s], rcv[s], arrived[s])
  /\ \A s \in Unidir : ~(rcv[s].fin_signalled /\ rcv[s].reset_signalled)
-----------------------------------------------------------------------------
LEMMA MaxOfTwo ==
  ASSUME NEW a \in Int, NEW b \in Int
  PROVE  Max({a, b}) = IF a >= b THEN a ELSE b
<1> DEFINE m == IF a >= b THEN a ELSE b
<1>1. m \in {a, b} /\ \A y \in {a, b} : m >= y
  OBVIOUS
<1>2. \A x \in {a, b} : (\A y \in {a, b} : x >= y) => x = m
  OBVIOUS
<1> HIDE DEF m
<1>3. Max({a, b}) = m
  BY <1>1, <1>2 DEF Max
<1> QED BY <1>3 DEF m

(* There is an end of the bytes without a gap: the least offset missing.   *)
LEMMA ContiguousFact ==
  ASSUME NEW consumed \in 0 .. MaxBytes, NEW bytes \in SUBSET Offsets
  PROVE  /\ Contiguous(consumed, bytes) \in consumed .. MaxBytes
         /\ consumed .. Contiguous(consumed, bytes) - 1 \subseteq bytes
         /\ Contiguous(consumed, bytes) \notin bytes
<1> USE StreamTransferAssumption
<1> DEFINE missing == {c \in consumed .. MaxBytes : c \notin bytes}
<1>1. MaxBytes \in missing /\ missing \subseteq Nat
  BY DEF Offsets
<1>2. PICK c \in missing : \A d \in missing : ~(<<d, c>> \in OpToRel(<, Nat))
  <2> HIDE DEF missing
  <2> QED BY <1>1, NatLessThanWellFounded, WFMin, Zenon
<1>3. \A d \in missing : ~(d < c)
  BY <1>1, <1>2 DEF OpToRel
<1>4. /\ c \in consumed .. MaxBytes
      /\ consumed .. c - 1 \subseteq bytes
      /\ c \notin bytes
  BY <1>3
<1> QED BY <1>4 DEF Contiguous

(* The half of the receiver after the bytes a .. b - 1.                    *)
HalfAfter(r, a, b, fin) ==
  LET bytes == r.buffered \cup (a .. b - 1)
      consumed == Contiguous(r.consumed, bytes)
      fin_offset == Max({r.fin_offset, b})
      received == r.fin_received \/ fin
  IN  [r EXCEPT !.buffered = {o \in bytes : o >= consumed},
                !.consumed = consumed, !.fin_offset = fin_offset,
                !.fin_received = received,
                !.fin_signalled = r.fin_signalled \/ (received /\ consumed >= fin_offset)]

(* What data does to the half R of the receiver, and to what arrived.      *)
Advances(S, r, R, A) ==
  /\ R \in ReceiveHalf /\ A \in SUBSET Offsets /\ HalvesAgree(S, R, A)
  /\ R.consumed >= r.consumed /\ R.reset_signalled = r.reset_signalled

(* Data that passes the check of the final size keeps the halves in        *)
(* agreement, whichever part of the stream it repeats.                     *)
LEMMA DataKeepsAgreement ==
  ASSUME NEW S \in SendHalf, NEW r \in ReceiveHalf, NEW A \in SUBSET Offsets,
         HalvesAgree(S, r, A),
         NEW a \in Nat, NEW b \in Nat, NEW fin \in BOOLEAN,
         b <= S.sent, fin => S.fin_sent /\ b = S.sent
  PROVE  Advances(S, r, HalfAfter(r, a, b, fin), A \cup (a .. b - 1))
<1> USE StreamTransferAssumption
<1> DEFINE bytes == r.buffered \cup (a .. b - 1)
           c == Contiguous(r.consumed, bytes)
           f == Max({r.fin_offset, b})
           received == r.fin_received \/ fin
           signalled == r.fin_signalled \/ (received /\ c >= f)
           R == HalfAfter(r, a, b, fin)
<1>1. /\ S.sent \in 0 .. MaxBytes /\ S.fin_sent \in BOOLEAN
      /\ r.buffered \in SUBSET Offsets /\ r.consumed \in 0 .. MaxBytes
      /\ r.fin_offset \in 0 .. MaxBytes /\ r.fin_received \in BOOLEAN
      /\ r.fin_signalled \in BOOLEAN /\ r.reset_signalled \in BOOLEAN
  BY DEF SendHalf, ReceiveHalf
<1>2. bytes \in SUBSET Offsets
  BY <1>1 DEF Offsets
<1>3. c \in r.consumed .. MaxBytes /\ r.consumed .. c - 1 \subseteq bytes /\ c \notin bytes
  <2> HIDE DEF bytes
  <2> QED BY <1>1, <1>2, ContiguousFact
<1>4. f = IF r.fin_offset >= b THEN r.fin_offset ELSE b
  BY <1>1, MaxOfTwo
<1> HIDE DEF c, f
<1>5. R = [r EXCEPT !.buffered = {o \in bytes : o >= c}, !.consumed = c,
                    !.fin_offset = f, !.fin_received = received,
                    !.fin_signalled = signalled]
  BY DEF HalfAfter, c, f
<1>6. f \in 0 .. MaxBytes /\ {o \in bytes : o >= c} \in SUBSET Offsets
  BY <1>1, <1>2, <1>4
<1>7. R \in ReceiveHalf
  <2>1. received \in BOOLEAN /\ signalled \in BOOLEAN
    BY <1>1
  <2>2. c \in 0 .. MaxBytes
    BY <1>1, <1>3
  <2> DEFINE kept == {o \in bytes : o >= c}
  <2> HIDE DEF bytes, received, signalled, R, kept
  <2>3. kept \in SUBSET Offsets
    BY <1>6 DEF kept
  <2>4. R = [r EXCEPT !.buffered = kept, !.consumed = c, !.fin_offset = f,
                      !.fin_received = received, !.fin_signalled = signalled]
    BY <1>5 DEF kept
  <2> QED BY <1>6, <2>1, <2>2, <2>3, <2>4, Zenon DEF ReceiveHalf
<1>8. /\ R.buffered = {o \in bytes : o >= c} /\ R.consumed = c
      /\ R.fin_offset = f /\ R.fin_received = received
      /\ R.fin_signalled = signalled /\ R.reset_signalled = r.reset_signalled
  <2> HIDE DEF bytes
  <2> QED BY <1>5 DEF ReceiveHalf
<1>9. A \cup (a .. b - 1) \in SUBSET Offsets
  BY <1>1 DEF Offsets
<1>10. bytes \subseteq 0 .. S.sent - 1
  BY <1>1 DEF HalvesAgree, Offsets
<1>11. c <= S.sent /\ f <= S.sent
  BY <1>1, <1>3, <1>4, <1>10 DEF HalvesAgree
<1>12. {o \in bytes : o >= c} \subseteq c + 1 .. S.sent - 1
  BY <1>1, <1>3, <1>10
<1>13. A \cup (a .. b - 1) = {o \in bytes : o >= c} \cup (0 .. c - 1)
  <2>1. A = r.buffered \cup (0 .. r.consumed - 1)
    BY DEF HalvesAgree
  <2>2. A \cup (a .. b - 1) = bytes \cup (0 .. r.consumed - 1)
    BY <2>1
  <2>3. 0 .. c - 1 = (0 .. r.consumed - 1) \cup (r.consumed .. c - 1)
    BY <1>1, <1>3
  <2> QED BY <1>1, <1>3, <1>10, <2>2, <2>3
<1>14. received => S.fin_sent /\ f = S.sent
  BY <1>1, <1>4 DEF HalvesAgree
<1>15. signalled => S.fin_sent /\ c = S.sent
  BY <1>1, <1>3, <1>11, <1>14 DEF HalvesAgree
<1>16. HalvesAgree(S, R, A \cup (a .. b - 1))
  <2> HIDE DEF bytes, R, received, signalled
  <2> QED BY <1>8, <1>11, <1>12, <1>13, <1>14, <1>15 DEF HalvesAgree
<1> HIDE DEF R
<1>17. QED
  BY <1>1, <1>3, <1>7, <1>8, <1>9, <1>16 DEF Advances, R
-----------------------------------------------------------------------------
(* What the arrival of data does, errors included.                         *)
DataEffect(s) ==
  /\ UNCHANGED <<snd, max_stream_data_frames>>
  /\ ~Deleted(s)
  /\ \E R, A : /\ Advances(snd[s], rcv[s], R, A)
              /\ rcv' = [rcv EXCEPT ![s] = R]
              /\ arrived' = [arrived EXCEPT ![s] = A]

LEMMA DataArrivesEffect ==
  ASSUME IInv, NEW s \in Streams, DataArrives(s)
  PROVE  DataEffect(s)
<1> USE StreamTransferAssumption
<1>1. /\ snd[s] \in SendHalf /\ rcv[s] \in ReceiveHalf /\ arrived[s] \in SUBSET Offsets
      /\ HalvesAgree(snd[s], rcv[s], arrived[s])
      /\ rcv = [rcv EXCEPT ![s] = rcv[s]] /\ arrived = [arrived EXCEPT ![s] = arrived[s]]
  BY DEF IInv, HalvesOK
<1>2. PICK a, b \in 0 .. snd[s].sent, fin \in BOOLEAN :
        (fin => snd[s].fin_sent /\ b = snd[s].sent) /\ ReceiveData(s, a, b, fin)
  BY DEF DataArrives
<1>3. ~Deleted(s)
  BY <1>2 DEF ReceiveData
<1>4. CASE \E e \in {"final size", "flow control"} : Fail(e)
  <2>1. UNCHANGED <<snd, max_stream_data_frames, rcv, arrived>>
    BY <1>4 DEF Fail, sender
  <2>2. Advances(snd[s], rcv[s], rcv[s], arrived[s])
    BY <1>1 DEF ReceiveHalf, Advances
  <2> QED BY <1>1, <1>3, <2>1, <2>2, Zenon DEF DataEffect
<1>5. CASE ~(\E e \in {"final size", "flow control"} : Fail(e))
  <2> DEFINE R == HalfAfter(rcv[s], a, b, fin)
  <2>1. /\ rcv' = [rcv EXCEPT ![s] = R]
        /\ arrived' = [arrived EXCEPT ![s] = @ \cup (a .. b - 1)]
        /\ UNCHANGED <<snd, max_stream_data_frames>>
    BY <1>2, <1>5, Zenon DEF ReceiveData, HalfAfter, sender
  <2>2. Advances(snd[s], rcv[s], R, arrived[s] \cup (a .. b - 1))
    <3>1. snd[s] \in SendHalf /\ rcv[s] \in ReceiveHalf /\ arrived[s] \in SUBSET Offsets
      BY <1>1
    <3>2. HalvesAgree(snd[s], rcv[s], arrived[s])
      BY <1>1
    <3>3. a \in Nat /\ b \in Nat /\ fin \in BOOLEAN /\ b <= snd[s].sent
      BY <1>1 DEF SendHalf
    <3>4. fin => snd[s].fin_sent /\ b = snd[s].sent
      BY <1>2
    <3> QED BY <3>1, <3>2, <3>3, <3>4, DataKeepsAgreement, Zenon
  <2> HIDE DEF R
  <2> QED BY <1>3, <2>1, <2>2 DEF DataEffect
<1> QED BY <1>4, <1>5

(* What the arrival of a reset does, errors included.                      *)
ResetEffect(s) ==
  /\ UNCHANGED <<snd, max_stream_data_frames, arrived>>
  /\ ~Deleted(s) /\ snd[s].reset_sent
  /\ \/ rcv' = rcv
     \/ rcv' = [rcv EXCEPT ![s] = [@ EXCEPT !.fin_offset = snd[s].sent,
                  !.reset_received = TRUE, !.reset_signalled = TRUE]]

LEMMA ResetArrivesEffect ==
  ASSUME IInv, NEW s \in Streams, ResetArrives(s)
  PROVE  ResetEffect(s)
<1>1. /\ snd[s] \in SendHalf /\ rcv[s] \in ReceiveHalf
      /\ HalvesAgree(snd[s], rcv[s], arrived[s])
  BY DEF IInv, HalvesOK
<1>2. snd[s].reset_sent /\ ReceiveReset(s, snd[s].sent) /\ ~Deleted(s)
  BY DEF ResetArrives, ReceiveReset
<1>3. CASE \E e \in {"final size", "flow control"} : Fail(e)
  BY <1>2, <1>3 DEF Fail, ResetEffect, sender
<1>4. CASE ~(\E e \in {"final size", "flow control"} : Fail(e))
  <2> DEFINE f == Max({rcv[s].fin_offset, snd[s].sent})
  <2>1. f = snd[s].sent
    BY <1>1, MaxOfTwo, StreamTransferAssumption DEF SendHalf, ReceiveHalf, HalvesAgree
  <2>2. /\ rcv' = [rcv EXCEPT ![s] = [rcv[s] EXCEPT !.fin_offset = f,
                     !.reset_received = TRUE, !.reset_signalled = TRUE]]
        /\ UNCHANGED <<snd, max_stream_data_frames, arrived>>
    BY <1>2, <1>4, Zenon DEF ReceiveReset, sender
  <2> QED BY <1>2, <2>1, <2>2 DEF ResetEffect
<1> QED BY <1>3, <1>4
-----------------------------------------------------------------------------
(* Sender's steps: what the sender adds, the receiver cannot know yet.     *)
LEMMA SendStepKeeps ==
  ASSUME IInv, NEW s \in Streams, SendStep(s) \/ SendReset(s)
  PROVE  IInv'
<1> USE StreamTransferAssumption
<1>1. /\ snd[s] \in SendHalf /\ rcv[s] \in ReceiveHalf
      /\ HalvesAgree(snd[s], rcv[s], arrived[s])
  BY DEF IInv, HalvesOK
<1>2. UNCHANGED <<rcv, max_stream_data_frames, arrived>>
  BY Zenon DEF SendStep, SendData, SendReset, receiver
<1>3. \E S \in SendHalf : snd' = [snd EXCEPT ![s] = S]
                          /\ HalvesAgree(S, rcv[s], arrived[s])
  <2>1. CASE SendStep(s)
    <3>1. PICK n \in 0 .. MaxBytes, fin \in BOOLEAN : SendData(s, n, fin)
      BY <2>1 DEF SendStep
    <3> DEFINE S == [snd[s] EXCEPT !.sent = @ + n, !.fin_sent = fin]
    <3>2. /\ snd' = [snd EXCEPT ![s] = S]
          /\ ~snd[s].fin_sent /\ snd[s].sent + n <= MaxBytes
      BY <3>1 DEF SendData
    <3>3. S \in SendHalf
      <4>1. snd[s].sent + n \in 0 .. MaxBytes
        BY <1>1, <3>2 DEF SendHalf
      <4> QED BY <1>1, <4>1, Zenon DEF SendHalf
    <3>4. S.sent = snd[s].sent + n /\ S.reset_sent = snd[s].reset_sent
      BY <1>1 DEF SendHalf
    <3> HIDE DEF S
    <3>5. HalvesAgree(S, rcv[s], arrived[s])
      BY <1>1, <3>2, <3>4 DEF HalvesAgree, SendHalf, ReceiveHalf
    <3> QED BY <3>2, <3>3, <3>5
  <2>2. CASE SendReset(s)
    <3> DEFINE S == [snd[s] EXCEPT !.reset_sent = TRUE]
    <3>1. snd' = [snd EXCEPT ![s] = S]
      BY <2>2 DEF SendReset
    <3>2. S \in SendHalf /\ S.reset_sent
      BY <1>1 DEF SendHalf
    <3>3. S.sent = snd[s].sent /\ S.fin_sent = snd[s].fin_sent
      BY <1>1 DEF SendHalf
    <3> HIDE DEF S
    <3>4. HalvesAgree(S, rcv[s], arrived[s])
      BY <1>1, <3>2, <3>3 DEF HalvesAgree
    <3> QED BY <3>1, <3>2, <3>4
  <2> QED BY <2>1, <2>2
<1> QED BY <1>2, <1>3 DEF IInv, HalvesOK

LEMMA CreditsKeep ==
  ASSUME IInv, Credits
  PROVE  IInv'
<1>1. UNCHANGED <<rcv, max_stream_data_frames, arrived>>
  BY Zenon DEF Credits, MaxDataArrives, MaxStreamDataArrives, receiver
<1>2. CASE snd' = snd
  BY <1>1, <1>2 DEF IInv, HalvesOK
<1>3. CASE \E s \in Streams : \E v \in max_stream_data_frames[s] :
             snd' = [snd EXCEPT ![s].maxdata_remote = v]
  <2>1. PICK s \in Streams, v \in Nat : snd' = [snd EXCEPT ![s].maxdata_remote = v]
    BY <1>3 DEF IInv, HalvesOK
  <2>2. snd[s] \in SendHalf /\ HalvesAgree(snd[s], rcv[s], arrived[s])
    BY DEF IInv, HalvesOK
  <2> DEFINE S == [snd[s] EXCEPT !.maxdata_remote = v]
  <2>3. snd' = [snd EXCEPT ![s] = S]
    BY <2>1
  <2>4. /\ S \in SendHalf /\ S.sent = snd[s].sent
        /\ S.fin_sent = snd[s].fin_sent /\ S.reset_sent = snd[s].reset_sent
    BY <2>2 DEF SendHalf
  <2> HIDE DEF S
  <2>5. HalvesAgree(S, rcv[s], arrived[s])
    BY <2>2, <2>4 DEF HalvesAgree
  <2> QED BY <1>1, <2>3, <2>4, <2>5 DEF IInv, HalvesOK
<1> QED BY <1>2, <1>3 DEF Credits, MaxDataArrives, MaxStreamDataArrives

(* Receiver's steps.                                                       *)
LEMMA DataKeeps ==
  ASSUME IInv, NEW s \in Streams, DataArrives(s)
  PROVE  IInv'
<1>1. DataEffect(s)
  BY DataArrivesEffect
<1>2. PICK R, A : /\ Advances(snd[s], rcv[s], R, A)
                  /\ rcv' = [rcv EXCEPT ![s] = R]
                  /\ arrived' = [arrived EXCEPT ![s] = A]
  BY <1>1 DEF DataEffect
<1>3. s \in Unidir => ~R.reset_signalled
  BY <1>1, <1>2 DEF DataEffect, Deleted, Advances
<1> QED BY <1>1, <1>2, <1>3 DEF IInv, HalvesOK, DataEffect, Advances

LEMMA ResetKeeps ==
  ASSUME IInv, NEW s \in Streams, ResetArrives(s)
  PROVE  IInv'
<1>1. ResetEffect(s)
  BY ResetArrivesEffect
<1>2. /\ snd[s] \in SendHalf /\ rcv[s] \in ReceiveHalf
      /\ HalvesAgree(snd[s], rcv[s], arrived[s])
  BY DEF IInv, HalvesOK
<1>3. CASE rcv' = rcv
  BY <1>1, <1>3 DEF IInv, HalvesOK, ResetEffect
<1>4. CASE rcv' # rcv
  <2> DEFINE R == [rcv[s] EXCEPT !.fin_offset = snd[s].sent, !.reset_received = TRUE,
                                 !.reset_signalled = TRUE]
  <2>1. rcv' = [rcv EXCEPT ![s] = R]
    BY <1>1, <1>4 DEF ResetEffect
  <2>2. R \in ReceiveHalf
    BY <1>2 DEF ReceiveHalf, SendHalf
  <2>3. /\ R.buffered = rcv[s].buffered /\ R.consumed = rcv[s].consumed
        /\ R.fin_offset = snd[s].sent /\ R.fin_received = rcv[s].fin_received
        /\ R.fin_signalled = rcv[s].fin_signalled
    BY <1>2 DEF ReceiveHalf
  <2> HIDE DEF R
  <2>4. HalvesAgree(snd[s], R, arrived[s])
    BY <1>1, <1>2, <2>3, StreamTransferAssumption DEF HalvesAgree, ResetEffect, SendHalf
  <2>5. s \in Unidir => ~R.fin_signalled
    BY <1>1, <2>3 DEF ResetEffect, Deleted
  <2> QED BY <1>1, <2>1, <2>2, <2>4, <2>5 DEF IInv, HalvesOK, ResetEffect
<1> QED BY <1>3, <1>4

Raised(k) == [s \in Streams |-> IF NeedsMaxStreamData(s)
                              THEN rcv[s].maxdata_local * (k + 1)
                              ELSE rcv[s].maxdata_local]

LEMMA MaxStreamDataKeeps ==
  ASSUME IInv, SendMaxStreamData
  PROVE  IInv'
<1>1. UNCHANGED <<snd, arrived>>
  BY DEF SendMaxStreamData, sender
<1>2. PICK k \in Growth :
        /\ rcv' = [s \in Streams |-> [rcv[s] EXCEPT !.maxdata_local = Raised(k)[s]]]
        /\ max_stream_data_frames' = [s \in Streams |->
             IF NeedsMaxStreamData(s) THEN max_stream_data_frames[s] \cup {Raised(k)[s]}
                                      ELSE max_stream_data_frames[s]]
  BY Zenon DEF SendMaxStreamData, Raised
<1>3. \A n \in Nat : n * (k + 1) \in Nat
  <2>1. k \in Nat
    BY StreamTransferAssumption
  <2> QED BY <2>1
<1>4. \A s \in Streams : Raised(k)[s] \in Nat
  <2> SUFFICES ASSUME NEW s \in Streams PROVE Raised(k)[s] \in Nat
    OBVIOUS
  <2>1. rcv[s].maxdata_local \in Nat
    BY DEF IInv, HalvesOK, ReceiveHalf
  <2>2. rcv[s].maxdata_local * (k + 1) \in Nat
    BY <1>3, <2>1
  <2> QED BY <2>1, <2>2, Zenon DEF Raised
<1>5. max_stream_data_frames' \in [Streams -> SUBSET Nat]
  BY <1>2, <1>4 DEF IInv, HalvesOK
<1>6. \A s \in Streams :
        /\ rcv'[s] \in ReceiveHalf
        /\ rcv'[s].buffered = rcv[s].buffered /\ rcv'[s].consumed = rcv[s].consumed
        /\ rcv'[s].fin_offset = rcv[s].fin_offset
        /\ rcv'[s].fin_received = rcv[s].fin_received
        /\ rcv'[s].fin_signalled = rcv[s].fin_signalled
        /\ rcv'[s].reset_signalled = rcv[s].reset_signalled
  BY <1>2, <1>4 DEF IInv, HalvesOK, ReceiveHalf
<1>7. rcv' \in [Streams -> ReceiveHalf]
  BY <1>2, <1>6
<1>8. \A s \in Streams : HalvesAgree(snd[s], rcv'[s], arrived[s])
  BY <1>6 DEF IInv, HalvesAgree
<1>9. \A s \in Unidir : ~(rcv'[s].fin_signalled /\ rcv'[s].reset_signalled)
  BY <1>6, StreamTransferAssumption DEF IInv
<1> QED BY <1>1, <1>5, <1>7, <1>8, <1>9 DEF IInv, HalvesOK

LEMMA Inductive ==
  ASSUME IInv, [Next]_vars
  PROVE  IInv'
<1>1. CASE \E s \in Streams : SendStep(s) \/ SendReset(s)
  BY <1>1, SendStepKeeps
<1>2. CASE \E s \in Streams : DataArrives(s)
  BY <1>2, DataKeeps
<1>3. CASE \E s \in Streams : ResetArrives(s)
  BY <1>3, ResetKeeps
<1>4. CASE Credits
  BY <1>4, CreditsKeep
<1>5. CASE SendMaxData
  BY <1>5 DEF SendMaxData, sender, IInv, HalvesOK
<1>6. CASE SendMaxStreamData
  BY <1>6, MaxStreamDataKeeps
<1>7. CASE UNCHANGED vars
  BY <1>7 DEF vars, sender, receiver, IInv, HalvesOK
<1> QED BY <1>1, <1>2, <1>3, <1>4, <1>5, <1>6, <1>7, Zenon DEF Next

LEMMA InitEstablishes == Init => IInv
<1> SUFFICES ASSUME Init PROVE IInv
  OBVIOUS
<1> USE StreamTransferAssumption
<1>1. HalvesOK
  BY DEF Init, HalvesOK, SendHalf, ReceiveHalf, Offsets
<1>2. \A s \in Streams : HalvesAgree(snd[s], rcv[s], arrived[s])
  BY DEF Init, HalvesAgree
<1>3. \A s \in Unidir : ~rcv[s].fin_signalled
  BY DEF Init
<1> QED BY <1>1, <1>2, <1>3 DEF IInv

(* The inductive invariant holds in every state.                           *)
THEOREM Invariant == Spec => []IInv
BY InitEstablishes, Inductive, PTL DEF Spec

(* Data is delivered in order, once, without loss, and ended only when all *)
(* of it was: for every number of streams, windows and order of arrival.   *)
THEOREM Delivery == Spec => []DeliveredIsSent
<1>1. IInv => DeliveredIsSent
  BY DEF IInv, HalvesAgree, DeliveredIsSent
<1> QED BY <1>1, Invariant, PTL

-----------------------------------------------------------------------------
(* What the application is told of a stream.                               *)
Told(r) == IF r.reset_signalled THEN "reset"
           ELSE IF r.fin_signalled THEN "fin" ELSE "open"

(* Every step of unidirectional streams is one of ReliableStreams.         *)
LEMMA WritesAreReliable ==
  ASSUME IInv, NEW s \in Streams, SendStep(s)
  PROVE  Reliable!Next \/ UNCHANGED Reliable!vars
<1>1. PICK n \in 0 .. MaxBytes, fin \in BOOLEAN : SendData(s, n, fin)
  BY DEF SendStep
<1>2. /\ snd' = [snd EXCEPT ![s].sent = @ + n, ![s].fin_sent = fin]
      /\ ~snd[s].fin_sent /\ ~snd[s].reset_sent /\ snd[s].sent + n <= MaxBytes
      /\ rcv' = rcv
  BY <1>1 DEF SendData, receiver
<1>3. \A t \in Streams :
        /\ snd'[t].sent = IF t = s THEN snd[t].sent + n ELSE snd[t].sent
        /\ snd'[t].fin_sent = IF t = s THEN fin ELSE snd[t].fin_sent
        /\ snd'[t].reset_sent = snd[t].reset_sent
  BY <1>2 DEF IInv, HalvesOK, SendHalf
<1>4. CASE s \in Unidir
  <2>1. Reliable!Write(s, n, fin)
    BY <1>2, <1>3, <1>4, StreamTransferAssumption DEF Reliable!Write
  <2> QED BY <2>1, <1>4 DEF Reliable!Next
<1>5. CASE s \notin Unidir
  BY <1>2, <1>3, <1>5, StreamTransferAssumption DEF Reliable!vars
<1> QED BY <1>4, <1>5

LEMMA AbortsAreReliable ==
  ASSUME IInv, NEW s \in Streams, SendReset(s)
  PROVE  Reliable!Next \/ UNCHANGED Reliable!vars
<1>1. snd' = [snd EXCEPT ![s].reset_sent = TRUE] /\ rcv' = rcv
  BY DEF SendReset, receiver
<1>2. \A t \in Streams :
        /\ snd'[t].sent = snd[t].sent /\ snd'[t].fin_sent = snd[t].fin_sent
        /\ snd'[t].reset_sent = IF t = s THEN TRUE ELSE snd[t].reset_sent
  BY <1>1 DEF IInv, HalvesOK, SendHalf
<1>3. CASE s \in Unidir
  <2>1. Reliable!Abort(s)
    BY <1>1, <1>2, <1>3, StreamTransferAssumption DEF Reliable!Abort
  <2> QED BY <2>1, <1>3 DEF Reliable!Next
<1>4. CASE s \notin Unidir
  BY <1>1, <1>2, <1>4, StreamTransferAssumption DEF Reliable!vars
<1> QED BY <1>3, <1>4

LEMMA DataIsReliable ==
  ASSUME IInv, NEW s \in Streams, DataArrives(s)
  PROVE  Reliable!Next \/ UNCHANGED Reliable!vars
<1> USE StreamTransferAssumption
<1>1. DataEffect(s)
  BY DataArrivesEffect
<1>2. PICK R, A : /\ Advances(snd[s], rcv[s], R, A)
                  /\ rcv' = [rcv EXCEPT ![s] = R]
  BY <1>1 DEF DataEffect
<1>3. CASE s \in Unidir
  <2>1. ~rcv[s].fin_signalled /\ ~rcv[s].reset_signalled /\ ~R.reset_signalled
    BY <1>1, <1>2, <1>3 DEF DataEffect, Deleted, Advances
  <2>2. /\ rcv[s].consumed \in Nat /\ R.consumed \in 0 .. MaxBytes
        /\ R.consumed >= rcv[s].consumed /\ R.consumed <= snd[s].sent
        /\ R.fin_signalled \in BOOLEAN
        /\ R.fin_signalled => snd[s].fin_sent /\ R.consumed = snd[s].sent
    BY <1>2 DEF IInv, HalvesOK, Advances, HalvesAgree, ReceiveHalf
  <2> DEFINE n == R.consumed - rcv[s].consumed
  <2>3. n \in 0 .. MaxBytes /\ rcv[s].consumed + n = R.consumed
    BY <2>2
  <2>4. \A t \in Streams :
          /\ rcv'[t].consumed = IF t = s THEN rcv[t].consumed + n ELSE rcv[t].consumed
          /\ Told(rcv'[t]) = IF t = s THEN (IF R.fin_signalled THEN "fin" ELSE "open")
                                      ELSE Told(rcv[t])
    BY <1>2, <2>1, <2>3 DEF IInv, HalvesOK, Told
  <2>5. Told(rcv[s]) = "open" /\ snd' = snd
    BY <1>1, <2>1 DEF Told, DataEffect
  <2> HIDE DEF n
  <2>6. Reliable!Deliver(s, n, R.fin_signalled)
    BY <1>3, <2>2, <2>3, <2>4, <2>5 DEF Reliable!Deliver, Told
  <2> QED BY <1>3, <2>2, <2>3, <2>6 DEF Reliable!Next
<1>4. CASE s \notin Unidir
  <2>1. \A t \in Unidir : rcv'[t] = rcv[t]
    BY <1>2, <1>4 DEF IInv, HalvesOK
  <2>2. snd' = snd
    BY <1>1 DEF DataEffect
  <2> QED BY <2>1, <2>2 DEF Reliable!vars
<1> QED BY <1>3, <1>4

LEMMA ResetsAreReliable ==
  ASSUME IInv, NEW s \in Streams, ResetArrives(s)
  PROVE  Reliable!Next \/ UNCHANGED Reliable!vars
<1>1. ResetEffect(s)
  BY ResetArrivesEffect
<1>2. CASE rcv' = rcv
  BY <1>1, <1>2 DEF ResetEffect, Reliable!vars
<1>3. CASE rcv' # rcv /\ s \in Unidir
  <2>1. rcv' = [rcv EXCEPT ![s] = [@ EXCEPT !.fin_offset = snd[s].sent,
                  !.reset_received = TRUE, !.reset_signalled = TRUE]]
    BY <1>1, <1>3 DEF ResetEffect
  <2>2. ~rcv[s].fin_signalled /\ ~rcv[s].reset_signalled /\ snd[s].reset_sent /\ snd' = snd
    BY <1>1, <1>3 DEF ResetEffect, Deleted
  <2>3. \A t \in Streams :
          /\ rcv'[t].consumed = rcv[t].consumed
          /\ Told(rcv'[t]) = IF t = s THEN "reset" ELSE Told(rcv[t])
    BY <2>1 DEF IInv, HalvesOK, ReceiveHalf, Told
  <2>4. Told(rcv[s]) = "open"
    BY <2>2 DEF Told
  <2>5. Reliable!DeliverReset(s)
    BY <1>3, <2>2, <2>3, <2>4, StreamTransferAssumption DEF Reliable!DeliverReset, Told
  <2> QED BY <1>3, <2>5 DEF Reliable!Next
<1>4. CASE rcv' # rcv /\ s \notin Unidir
  <2>1. \A t \in Unidir : rcv'[t] = rcv[t]
    BY <1>1, <1>4, StreamTransferAssumption DEF ResetEffect, IInv, HalvesOK
  <2>2. snd' = snd
    BY <1>1 DEF ResetEffect
  <2> QED BY <2>1, <2>2 DEF Reliable!vars
<1> QED BY <1>2, <1>3, <1>4

LEMMA StepsAreReliable ==
  ASSUME IInv, [Next]_vars
  PROVE  [Reliable!Next]_Reliable!vars
<1>1. CASE \E s \in Streams : SendStep(s) \/ SendReset(s)
  BY <1>1, WritesAreReliable, AbortsAreReliable
<1>2. CASE \E s \in Streams : DataArrives(s)
  BY <1>2, DataIsReliable
<1>3. CASE \E s \in Streams : ResetArrives(s)
  BY <1>3, ResetsAreReliable
<1>4. CASE Credits
  <2>1. rcv' = rcv
    BY <1>4, Zenon DEF Credits, MaxDataArrives, MaxStreamDataArrives, receiver
  <2>2. \A t \in Streams : /\ snd'[t].sent = snd[t].sent
                           /\ snd'[t].fin_sent = snd[t].fin_sent
                           /\ snd'[t].reset_sent = snd[t].reset_sent
    BY <1>4 DEF Credits, MaxDataArrives, MaxStreamDataArrives, IInv, HalvesOK, SendHalf
  <2> QED BY <2>1, <2>2, StreamTransferAssumption DEF Reliable!vars
<1>5. CASE SendMaxData \/ UNCHANGED vars
  <2>1. snd' = snd /\ rcv' = rcv
    BY <1>5 DEF SendMaxData, vars, sender, receiver
  <2> QED BY <2>1 DEF Reliable!vars
<1>6. CASE SendMaxStreamData
  <2>1. PICK raised : rcv' = [s \in Streams |-> [rcv[s] EXCEPT !.maxdata_local = raised[s]]]
    BY <1>6, Zenon DEF SendMaxStreamData
  <2>2. \A t \in Streams : rcv'[t].consumed = rcv[t].consumed
                           /\ Told(rcv'[t]) = Told(rcv[t])
    BY <2>1 DEF IInv, HalvesOK, ReceiveHalf, Told
  <2>3. snd' = snd
    BY <1>6 DEF SendMaxStreamData, sender
  <2> QED BY <2>2, <2>3, StreamTransferAssumption DEF Reliable!vars, Told
<1> QED BY <1>1, <1>2, <1>3, <1>4, <1>5, <1>6, Zenon DEF Next

LEMMA InitIsReliable == Init => Reliable!Init
<1> SUFFICES ASSUME Init PROVE Reliable!Init
  OBVIOUS
<1>1. \A s \in Unidir :
        /\ snd[s].sent = 0 /\ snd[s].fin_sent = FALSE /\ snd[s].reset_sent = FALSE
        /\ rcv[s].consumed = 0 /\ Told(rcv[s]) = "open"
  BY StreamTransferAssumption DEF Init, Told
<1> QED BY <1>1 DEF Reliable!Init, Told

(* Unidirectional streams implement ReliableStreams, whatever the windows, *)
(* the number of streams and the order in which frames arrive.             *)
THEOREM Refinement == Spec => StreamsAreReliable
<1>1. IInv /\ [Next]_vars => [Reliable!Next]_Reliable!vars
  BY StepsAreReliable
<1> QED BY <1>1, Invariant, InitIsReliable, PTL
        DEF Spec, StreamsAreReliable, Reliable!Spec
-----------------------------------------------------------------------------
(* The counts of the connection.  A count of bytes over all streams is the *)
(* number of pairs of a stream and an offset on it: f is what is counted   *)
(* on each stream.                                                         *)
Area(f) == {x \in Streams \X Offsets : x[2] < f[x[1]]}
Total(f) == Cardinality(Area(f))

Sent == [s \in Streams |-> snd[s].sent]
Learned == [s \in Streams |-> rcv[s].fin_offset]

(* The credit of a stream, and the end of one that was reset.              *)
CreditOK(S, R, F) ==
  /\ S.sent <= S.maxdata_remote /\ S.maxdata_remote <= R.maxdata_local
  /\ F \subseteq 0 .. R.maxdata_local
  /\ R.reset_received => S.reset_sent /\ R.fin_offset = S.sent

(* The receiver counts no more than it has learned of, the sender what it  *)
(* has sent, within the credit it knows, which is on its way or given.     *)
CountsOK ==
  /\ data_sent = Total(Sent)
  /\ offset_received \in Nat /\ offset_received <= Total(Learned)
  /\ maxdata_remote \in Nat /\ maxdata_local \in Nat /\ data_received \in Nat
  /\ data_sent <= maxdata_remote /\ maxdata_remote <= maxdata_local
  /\ max_data_frames \subseteq 0 .. maxdata_local

CreditsOK ==
  \A s \in Streams : CreditOK(snd[s], rcv[s], max_stream_data_frames[s])

CInv == IInv /\ CountsOK /\ CreditsOK /\ NoPeerError

LEMMA AreaIsFinite ==
  ASSUME NEW f
  PROVE  IsFiniteSet(Area(f)) /\ Total(f) \in Nat
<1>1. IsFiniteSet(Streams) /\ 0 \in Int /\ MaxBytes - 1 \in Int
  BY StreamTransferAssumption
<1>2. IsFiniteSet(Offsets)
  BY <1>1, FS_Interval DEF Offsets
<1>3. IsFiniteSet(Streams \X Offsets)
  BY <1>1, <1>2, FS_Product
<1>4. IsFiniteSet(Area(f))
  <2>1. Area(f) \in SUBSET (Streams \X Offsets)
    BY DEF Area
  <2> QED BY <1>3, <2>1, FS_Subset
<1> QED BY <1>4, FS_CardinalityType DEF Total

(* The total follows a count that grows.                                   *)
LEMMA TotalGrows ==
  ASSUME NEW f \in [Streams -> 0 .. MaxBytes], NEW s \in Streams, NEW n \in f[s] .. MaxBytes
  PROVE  Total([f EXCEPT ![s] = n]) = Total(f) + (n - f[s])
<1> DEFINE g == [f EXCEPT ![s] = n]
           more == {s} \X (f[s] .. n - 1)
           known == Area(f)
<1>1. f[s] \in Int /\ n \in Int /\ n - 1 \in Int /\ f[s] <= n
  BY StreamTransferAssumption
<1>2. IsFiniteSet(more) /\ Cardinality(more) = n - f[s]
  <2> DEFINE range == f[s] .. n - 1
  <2>1. IsFiniteSet(range) /\ Cardinality(range) = n - f[s]
    <3>1. IsFiniteSet(range) /\ Cardinality(range) = IF f[s] > n - 1 THEN 0 ELSE n - 1 - f[s] + 1
      BY <1>1, FS_Interval
    <3> HIDE DEF range
    <3> QED BY <1>1, <3>1
  <2>2. IsFiniteSet({s}) /\ Cardinality({s}) = 1
    BY FS_Singleton
  <2> HIDE DEF range
  <2>3. IsFiniteSet({s} \X range) /\ Cardinality({s} \X range) = 1 * Cardinality(range)
    BY <2>1, <2>2, FS_Product
  <2> QED BY <1>1, <2>1, <2>3 DEF range
<1>3. IsFiniteSet(known) /\ Cardinality(known) \in Nat
  BY AreaIsFinite DEF Total
<1>4. Area(g) = known \cup more
  BY <1>1, StreamTransferAssumption DEF Area, Offsets
<1>5. known \cap more = {}
  BY DEF Area
<1> HIDE DEF known, more, g
<1>6. Cardinality(known \cup more) = Cardinality(known) + (n - f[s])
  <2>1. Cardinality(known \cup more)
          = Cardinality(known) + Cardinality(more) - Cardinality(known \cap more)
    BY <1>2, <1>3, FS_Union
  <2>2. Cardinality(known \cap more) = 0
    BY <1>5, FS_EmptySet
  <2> QED BY <1>1, <1>2, <1>3, <2>1, <2>2
<1> QED BY <1>4, <1>6 DEF Total, g, known

LEMMA TotalIsMonotone ==
  ASSUME NEW f \in [Streams -> 0 .. MaxBytes], NEW g \in [Streams -> 0 .. MaxBytes],
         \A s \in Streams : f[s] <= g[s]
  PROVE  Total(f) <= Total(g)
<1>1. Area(f) \subseteq Area(g)
  BY StreamTransferAssumption DEF Area, Offsets
<1> QED BY <1>1, AreaIsFinite, FS_Subset DEF Total

(* The counts are those of functions.                                      *)
LEMMA CountsTyped ==
  ASSUME IInv
  PROVE  /\ Sent \in [Streams -> 0 .. MaxBytes] /\ Learned \in [Streams -> 0 .. MaxBytes]
         /\ \A s \in Streams : Learned[s] <= Sent[s]
BY DEF IInv, HalvesOK, SendHalf, ReceiveHalf, HalvesAgree, Sent, Learned

(* What a frame adds to the count of the receiver was counted by the       *)
(* sender when it was sent, so it is within the limit.                     *)
LEMMA FrameIsCounted ==
  ASSUME CInv, NEW s \in Streams, NEW b \in Nat, b <= snd[s].sent
  PROVE  /\ NewBytes(s, b) \in Nat /\ ~ExceedsLimit(s, b)
         /\ LET f == Max({rcv[s].fin_offset, b})
            IN  /\ f \in rcv[s].fin_offset .. snd[s].sent
                /\ Total([Learned EXCEPT ![s] = f]) = Total(Learned) + NewBytes(s, b)
<1> DEFINE f == Max({rcv[s].fin_offset, b})
           d == NewBytes(s, b)
           g == [Learned EXCEPT ![s] = f]
<1>1. /\ snd[s] \in SendHalf /\ rcv[s] \in ReceiveHalf
      /\ rcv[s].fin_offset <= snd[s].sent
  BY DEF CInv, IInv, HalvesOK, HalvesAgree
<1>2. /\ rcv[s].fin_offset \in 0 .. MaxBytes /\ rcv[s].maxdata_local \in Nat
      /\ snd[s].sent \in 0 .. MaxBytes /\ snd[s].maxdata_remote \in Nat
  BY <1>1 DEF SendHalf, ReceiveHalf
<1>3. f = IF rcv[s].fin_offset >= b THEN rcv[s].fin_offset ELSE b
  BY <1>2, MaxOfTwo
<1>4. d = IF b - rcv[s].fin_offset >= 0 THEN b - rcv[s].fin_offset ELSE 0
  BY <1>2, MaxOfTwo DEF NewBytes
<1>5. Learned[s] = rcv[s].fin_offset /\ Sent[s] = snd[s].sent
  BY DEF Learned, Sent
<1> HIDE DEF f, d
<1>6. /\ f \in rcv[s].fin_offset .. snd[s].sent /\ f \in Learned[s] .. MaxBytes
      /\ d \in Nat /\ d = f - Learned[s]
  BY <1>1, <1>2, <1>3, <1>4, <1>5, StreamTransferAssumption
<1>7. /\ Sent \in [Streams -> 0 .. MaxBytes] /\ Learned \in [Streams -> 0 .. MaxBytes]
      /\ \A t \in Streams : Learned[t] <= Sent[t]
  BY CountsTyped DEF CInv
<1>8. Total(g) = Total(Learned) + d
  BY <1>6, <1>7, TotalGrows
<1>9. Total(g) <= Total(Sent)
  <2>1. g \in [Streams -> 0 .. MaxBytes]
    BY <1>2, <1>6, <1>7
  <2>2. \A t \in Streams : g[t] <= Sent[t]
    BY <1>5, <1>6, <1>7
  <2> HIDE DEF g
  <2> QED BY <1>7, <2>1, <2>2, TotalIsMonotone
<1>10. Total(g) \in Nat /\ Total(Learned) \in Nat /\ Total(Sent) \in Nat
  BY AreaIsFinite
<1>11. offset_received + d <= maxdata_local
  <2> HIDE DEF g
  <2> QED BY <1>6, <1>8, <1>9, <1>10 DEF CInv, CountsOK
<1>12. b <= rcv[s].maxdata_local
  BY <1>2 DEF CInv, CreditsOK, CreditOK
<1>13. ~ExceedsLimit(s, b)
  BY <1>2, <1>6, <1>11, <1>12 DEF ExceedsLimit, d, CInv, CountsOK
<1> QED BY <1>6, <1>8, <1>13 DEF f, d, g

Counts == CountsOK /\ CreditsOK /\ NoPeerError

LEMMA MinOfTwo ==
  ASSUME NEW a \in Int, NEW b \in Int
  PROVE  Min({a, b}) <= a /\ Min({a, b}) <= b /\ Min({a, b}) \in Int
<1> DEFINE m == IF a <= b THEN a ELSE b
<1>1. m \in {a, b} /\ \A y \in {a, b} : m <= y
  OBVIOUS
<1>2. \A x \in {a, b} : (\A y \in {a, b} : x <= y) => x = m
  OBVIOUS
<1> HIDE DEF m
<1>3. Min({a, b}) = m
  BY <1>1, <1>2 DEF Min
<1> QED BY <1>1, <1>3

(* What is typed of the two halves of a stream.                            *)
LEMMA HalvesTyped ==
  ASSUME CInv, NEW s \in Streams
  PROVE  /\ snd[s] \in SendHalf /\ rcv[s] \in ReceiveHalf
         /\ snd[s].sent \in 0 .. MaxBytes /\ snd[s].maxdata_remote \in Nat
         /\ rcv[s].fin_offset \in 0 .. MaxBytes /\ rcv[s].maxdata_local \in Nat
         /\ rcv[s].consumed \in 0 .. MaxBytes
         /\ max_stream_data_frames[s] \in SUBSET Nat
         /\ HalvesAgree(snd[s], rcv[s], arrived[s])
         /\ CreditOK(snd[s], rcv[s], max_stream_data_frames[s])
BY DEF CInv, IInv, HalvesOK, SendHalf, ReceiveHalf, CreditsOK

LEMMA SendCounts ==
  ASSUME CInv, NEW s \in Streams, SendStep(s)
  PROVE  Counts'
<1> USE StreamTransferAssumption
<1>1. PICK n \in 0 .. MaxBytes, fin \in BOOLEAN : SendData(s, n, fin)
  BY DEF SendStep
<1>2. /\ snd' = [snd EXCEPT ![s].sent = @ + n, ![s].fin_sent = fin]
      /\ data_sent' = data_sent + n /\ maxdata_remote' = maxdata_remote
      /\ ~snd[s].reset_sent /\ snd[s].sent + n <= MaxBytes
  BY <1>1 DEF SendData
<1>3. /\ UNCHANGED <<rcv, offset_received, data_received, maxdata_local,
                     max_data_frames, max_stream_data_frames, error>>
  BY <1>1 DEF SendData, receiver
<1>4. /\ snd[s].sent \in 0 .. MaxBytes /\ snd[s].maxdata_remote \in Nat
      /\ data_sent \in Nat /\ maxdata_remote \in Nat
  BY HalvesTyped, AreaIsFinite DEF CInv, CountsOK
<1>5. snd[s].sent + n <= snd[s].maxdata_remote /\ data_sent + n <= maxdata_remote
  <2> DEFINE x == snd[s].maxdata_remote - snd[s].sent
             y == maxdata_remote - data_sent
  <2>1. n <= Min({x, y})
    BY <1>1 DEF SendData
  <2>2. x \in Int /\ y \in Int
    BY <1>4
  <2>3. Min({x, y}) <= x /\ Min({x, y}) <= y /\ Min({x, y}) \in Int
    <3> HIDE DEF x, y
    <3> QED BY <2>2, MinOfTwo
  <2> HIDE DEF x, y
  <2>4. n <= x /\ n <= y
    BY <2>1, <2>2, <2>3
  <2> QED BY <1>4, <2>4 DEF x, y
<1>6. Sent' = [Sent EXCEPT ![s] = snd[s].sent + n]
  BY <1>2, HalvesTyped DEF Sent, SendHalf, CInv, IInv, HalvesOK
<1>7. Total(Sent') = Total(Sent) + n
  <2>1. Sent \in [Streams -> 0 .. MaxBytes] /\ Sent[s] = snd[s].sent
    BY CountsTyped DEF CInv, Sent
  <2> DEFINE m == snd[s].sent + n
  <2>2. m \in Sent[s] .. MaxBytes /\ m - Sent[s] = n
    BY <1>2, <1>4, <2>1
  <2> HIDE DEF m
  <2>3. Total([Sent EXCEPT ![s] = m]) = Total(Sent) + n
    BY <2>1, <2>2, TotalGrows
  <2> QED BY <1>6, <2>3 DEF m
<1>8. CountsOK'
  <2>1. Learned' = Learned
    BY <1>3 DEF Learned
  <2> QED BY <1>2, <1>3, <1>4, <1>5, <1>7, <2>1 DEF CInv, CountsOK, Total, Area
<1>9. CreditsOK'
  <2> SUFFICES ASSUME NEW t \in Streams
               PROVE  CreditOK(snd'[t], rcv'[t], max_stream_data_frames'[t])
    BY DEF CreditsOK
  <2>1. /\ snd'[t].sent = IF t = s THEN snd[t].sent + n ELSE snd[t].sent
        /\ snd'[t].maxdata_remote = snd[t].maxdata_remote
        /\ snd'[t].reset_sent = snd[t].reset_sent
    BY <1>2, HalvesTyped DEF SendHalf, CInv, IInv, HalvesOK
  <2> QED BY <1>2, <1>3, <1>5, <2>1, HalvesTyped DEF CreditOK
<1> QED BY <1>3, <1>8, <1>9 DEF Counts, CInv, NoPeerError

LEMMA SendResetCounts ==
  ASSUME CInv, NEW s \in Streams, SendReset(s)
  PROVE  Counts'
<1>1. /\ snd' = [snd EXCEPT ![s].reset_sent = TRUE]
      /\ UNCHANGED <<data_sent, maxdata_remote, rcv, offset_received, data_received,
                     maxdata_local, max_data_frames, max_stream_data_frames, error>>
  BY DEF SendReset, receiver
<1>2. \A t \in Streams : /\ snd'[t].sent = snd[t].sent
                         /\ snd'[t].maxdata_remote = snd[t].maxdata_remote
                         /\ snd[t].reset_sent => snd'[t].reset_sent
  BY <1>1 DEF SendHalf, CInv, IInv, HalvesOK
<1>3. Sent' = Sent /\ Learned' = Learned
  BY <1>1, <1>2 DEF Sent, Learned
<1>4. CountsOK'
  BY <1>1, <1>3 DEF CInv, CountsOK, Total, Area
<1>5. CreditsOK'
  BY <1>1, <1>2 DEF CInv, CreditsOK, CreditOK
<1> QED BY <1>1, <1>4, <1>5 DEF Counts, CInv, NoPeerError

LEMMA CreditsCount ==
  ASSUME CInv, Credits
  PROVE  Counts'
<1>1. /\ UNCHANGED <<data_sent, rcv, offset_received, data_received, maxdata_local,
                     max_data_frames, max_stream_data_frames, error>>
      /\ \/ snd' = snd /\ \E v \in max_data_frames : v > maxdata_remote /\ maxdata_remote' = v
         \/ /\ maxdata_remote' = maxdata_remote
            /\ \E s \in Streams : \E v \in max_stream_data_frames[s] :
                 snd' = [snd EXCEPT ![s].maxdata_remote = v] /\ v > snd[s].maxdata_remote
  BY Zenon DEF Credits, MaxDataArrives, MaxStreamDataArrives, receiver
<1>2. \A t \in Streams : /\ snd'[t].sent = snd[t].sent
                         /\ snd'[t].reset_sent = snd[t].reset_sent
  BY <1>1 DEF SendHalf, CInv, IInv, HalvesOK
<1>3. Sent' = Sent /\ Learned' = Learned
  BY <1>1, <1>2 DEF Sent, Learned
<1>4. CountsOK'
  <2>1. data_sent' <= maxdata_remote' /\ maxdata_remote' <= maxdata_local /\ maxdata_remote' \in Nat
    BY <1>1, AreaIsFinite DEF CInv, CountsOK
  <2> QED BY <1>1, <1>3, <2>1 DEF CInv, CountsOK, Total, Area
<1>5. CreditsOK'
  <2> SUFFICES ASSUME NEW t \in Streams
               PROVE  CreditOK(snd'[t], rcv'[t], max_stream_data_frames'[t])
    BY DEF CreditsOK
  <2>1. \/ snd'[t].maxdata_remote = snd[t].maxdata_remote
        \/ /\ snd'[t].maxdata_remote \in max_stream_data_frames[t]
           /\ snd'[t].maxdata_remote > snd[t].maxdata_remote
    BY <1>1, HalvesTyped DEF SendHalf, CInv, IInv, HalvesOK
  <2>2. max_stream_data_frames[t] \subseteq 0 .. rcv[t].maxdata_local
    BY HalvesTyped DEF CreditOK
  <2> QED BY <1>1, <1>2, <2>1, <2>2, HalvesTyped, StreamTransferAssumption DEF CreditOK
<1> QED BY <1>1, <1>4, <1>5 DEF Counts, CInv, NoPeerError

(* Data is never found to break a limit or a final size.                   *)
LEMMA DataIsAccepted ==
  ASSUME CInv, NEW s \in Streams, NEW a \in 0 .. snd[s].sent, NEW b \in 0 .. snd[s].sent,
         NEW fin \in BOOLEAN, fin => snd[s].fin_sent /\ b = snd[s].sent,
         ReceiveData(s, a, b, fin)
  PROVE  /\ rcv' = [rcv EXCEPT ![s] = HalfAfter(rcv[s], a, b, fin)]
         /\ offset_received' = offset_received + NewBytes(s, b)
         /\ data_received' = data_received + HalfAfter(rcv[s], a, b, fin).consumed
                                           - rcv[s].consumed
         /\ UNCHANGED <<sender, maxdata_local, max_data_frames, max_stream_data_frames, error>>
<1> DEFINE r == rcv[s]
<1>1. /\ snd[s].sent \in 0 .. MaxBytes /\ r \in ReceiveHalf
      /\ r.fin_offset \in 0 .. MaxBytes
      /\ r.fin_received => snd[s].fin_sent /\ r.fin_offset = snd[s].sent
  BY HalvesTyped DEF HalvesAgree
<1>2. b \in Nat /\ b <= snd[s].sent
  BY <1>1, StreamTransferAssumption
<1>3. ~(r.fin_received /\ (IF fin THEN b # r.fin_offset ELSE b > r.fin_offset))
  BY <1>1, <1>2
<1>4. ~ExceedsLimit(s, b)
  BY <1>2, FrameIsCounted
<1>5. HalfAfter(r, a, b, fin).consumed = Contiguous(r.consumed, r.buffered \cup (a .. b - 1))
  BY <1>1 DEF HalfAfter, ReceiveHalf
<1> QED BY <1>3, <1>4, <1>5, Zenon DEF ReceiveData, HalfAfter

LEMMA DataCounts ==
  ASSUME CInv, NEW s \in Streams, DataArrives(s)
  PROVE  Counts'
<1> USE StreamTransferAssumption
<1>1. PICK a, b \in 0 .. snd[s].sent, fin \in BOOLEAN :
        (fin => snd[s].fin_sent /\ b = snd[s].sent) /\ ReceiveData(s, a, b, fin)
  BY DEF DataArrives
<1> DEFINE R == HalfAfter(rcv[s], a, b, fin)
           f == Max({rcv[s].fin_offset, b})
<1>2. /\ rcv' = [rcv EXCEPT ![s] = R]
      /\ offset_received' = offset_received + NewBytes(s, b)
      /\ data_received' = data_received + R.consumed - rcv[s].consumed
      /\ UNCHANGED <<sender, maxdata_local, max_data_frames, max_stream_data_frames, error>>
  BY <1>1, DataIsAccepted
<1>3. b \in Nat /\ a \in Nat /\ b <= snd[s].sent
  BY HalvesTyped
<1>4. /\ NewBytes(s, b) \in Nat /\ f \in rcv[s].fin_offset .. snd[s].sent
      /\ Total([Learned EXCEPT ![s] = f]) = Total(Learned) + NewBytes(s, b)
  BY <1>3, FrameIsCounted
<1>5. /\ R.fin_offset = f /\ R.maxdata_local = rcv[s].maxdata_local
      /\ R.reset_received = rcv[s].reset_received
      /\ R.consumed = Contiguous(rcv[s].consumed, rcv[s].buffered \cup (a .. b - 1))
  BY HalvesTyped DEF HalfAfter, ReceiveHalf
<1>6. R.consumed \in rcv[s].consumed .. MaxBytes
  <2>1. rcv[s].buffered \cup (a .. b - 1) \in SUBSET Offsets
    BY <1>3, HalvesTyped DEF Offsets, ReceiveHalf
  <2> QED BY <1>5, <2>1, HalvesTyped, ContiguousFact
<1> HIDE DEF R, f
<1>7. Sent' = Sent /\ snd' = snd /\ data_sent' = data_sent /\ maxdata_remote' = maxdata_remote
  BY <1>2 DEF sender, Sent
<1>8. Learned' = [Learned EXCEPT ![s] = f]
  BY <1>2, <1>5 DEF Learned, CInv, IInv, HalvesOK
<1>9. CountsOK'
  <2>1. Total(Learned)' = Total(Learned) + NewBytes(s, b)
    BY <1>4, <1>8 DEF Total, Area
  <2>2. Total(Sent)' = Total(Sent) /\ Total(Learned) \in Nat
    BY <1>7, AreaIsFinite DEF Total, Area
  <2>3. offset_received' \in Nat /\ offset_received' <= Total(Learned)'
    BY <1>2, <1>4, <2>1, <2>2 DEF CInv, CountsOK
  <2>4. data_received' \in Nat
    BY <1>2, <1>6, HalvesTyped DEF CInv, CountsOK
  <2> QED BY <1>2, <1>7, <2>2, <2>3, <2>4 DEF CInv, CountsOK
<1>10. CreditsOK'
  <2> SUFFICES ASSUME NEW t \in Streams
               PROVE  CreditOK(snd'[t], rcv'[t], max_stream_data_frames'[t])
    BY DEF CreditsOK
  <2>1. /\ rcv'[t].maxdata_local = rcv[t].maxdata_local
        /\ rcv'[t].reset_received = rcv[t].reset_received
        /\ rcv'[t].fin_offset = IF t = s THEN f ELSE rcv[t].fin_offset
    BY <1>2, <1>5 DEF CInv, IInv, HalvesOK
  <2> QED BY <1>2, <1>4, <1>7, <2>1, HalvesTyped DEF CreditOK
<1> QED BY <1>2, <1>9, <1>10 DEF Counts, CInv, NoPeerError

(* Nor is a reset.  A stream that was reset gives back what was counted    *)
(* and will not be consumed.                                               *)
LEMMA ResetCounts ==
  ASSUME CInv, NEW s \in Streams, ResetArrives(s)
  PROVE  Counts'
<1> USE StreamTransferAssumption
<1> DEFINE r == rcv[s]
           final == snd[s].sent
           f == Max({r.fin_offset, final})
           d == NewBytes(s, final)
           R == [r EXCEPT !.fin_offset = f, !.reset_received = TRUE, !.reset_signalled = TRUE]
<1>1. /\ final \in 0 .. MaxBytes /\ r \in ReceiveHalf
      /\ r.fin_offset \in 0 .. MaxBytes /\ r.consumed \in 0 .. MaxBytes
      /\ r.consumed <= final
      /\ r.fin_received \/ r.reset_received => r.fin_offset = final
  BY HalvesTyped DEF HalvesAgree, CreditOK
<1>2. /\ d \in Nat /\ f \in r.fin_offset .. final /\ ~ExceedsLimit(s, final)
      /\ Total([Learned EXCEPT ![s] = f]) = Total(Learned) + d
  <2>1. final \in Nat /\ final <= snd[s].sent
    BY <1>1
  <2> HIDE DEF final
  <2>2. /\ d \in Nat /\ f \in r.fin_offset .. snd[s].sent /\ ~ExceedsLimit(s, final)
        /\ Total([Learned EXCEPT ![s] = f]) = Total(Learned) + d
    BY <2>1, FrameIsCounted
  <2> HIDE DEF f, d
  <2> QED BY <2>2 DEF final
<1>3. f = final
  BY <1>1, MaxOfTwo, HalvesTyped DEF HalvesAgree
<1>4. snd[s].reset_sent /\ ReceiveReset(s, final)
  BY DEF ResetArrives
<1>5. /\ rcv' = [rcv EXCEPT ![s] = R]
      /\ offset_received' = AfterDiscard(offset_received + d, f - r.consumed)
      /\ UNCHANGED <<sender, data_received, maxdata_local, max_data_frames,
                     max_stream_data_frames, error>>
  BY <1>1, <1>2, <1>4, Zenon DEF ReceiveReset
<1>6. R.fin_offset = final /\ R.maxdata_local = r.maxdata_local
  BY <1>1, <1>3 DEF ReceiveHalf
<1> HIDE DEF R, f, d, final
<1>7. Sent' = Sent /\ snd' = snd /\ data_sent' = data_sent /\ maxdata_remote' = maxdata_remote
  BY <1>5 DEF sender, Sent
<1>8. Learned' = [Learned EXCEPT ![s] = f]
  BY <1>3, <1>5, <1>6 DEF Learned, CInv, IInv, HalvesOK
<1>9. CountsOK'
  <2>1. Total(Learned)' = Total(Learned) + d
    BY <1>2, <1>8 DEF Total, Area
  <2>2. Total(Sent)' = Total(Sent) /\ Total(Learned) \in Nat
    BY <1>7, AreaIsFinite DEF Total, Area
  <2>3. offset_received' \in Nat /\ offset_received' <= Total(Learned)'
    <3>1. offset_received + d \in Nat /\ offset_received + d <= Total(Learned) + d
      BY <1>2, <2>2 DEF CInv, CountsOK
    <3>2. f - r.consumed \in Nat
      BY <1>1, <1>3
    <3> HIDE DEF r
    <3> QED BY <1>2, <1>5, <2>1, <2>2, <3>1, <3>2 DEF AfterDiscard
  <2> QED BY <1>5, <1>7, <2>2, <2>3 DEF CInv, CountsOK
<1>10. CreditsOK'
  <2> SUFFICES ASSUME NEW t \in Streams
               PROVE  CreditOK(snd'[t], rcv'[t], max_stream_data_frames'[t])
    BY DEF CreditsOK
  <2>1. rcv'[t] = IF t = s THEN R ELSE rcv[t]
    BY <1>5 DEF CInv, IInv, HalvesOK
  <2> QED BY <1>4, <1>5, <1>6, <1>7, <2>1, HalvesTyped DEF CreditOK, final
<1> QED BY <1>5, <1>9, <1>10 DEF Counts, CInv, NoPeerError

(* The receiver gives credit, and never takes it back.                     *)
LEMMA SendMaxDataCounts ==
  ASSUME CInv, SendMaxData
  PROVE  Counts'
<1>1. PICK v \in NewMaxData :
        /\ maxdata_local' = v /\ max_data_frames' = max_data_frames \cup {v}
        /\ UNCHANGED <<sender, rcv, offset_received, data_received, max_stream_data_frames, error>>
  BY DEF SendMaxData
<1>2. v \in Nat /\ v >= maxdata_local
  <2>1. maxdata_local \in Nat /\ data_received \in Nat /\ MaxDataLimit \in Nat
    BY StreamTransferAssumption DEF CInv, CountsOK
  <2>2. CASE MaxDataLimit > 0
    BY <2>1, <2>2 DEF NewMaxData
  <2>3. CASE ~(MaxDataLimit > 0)
    <3>1. PICK k \in Nat : v = maxdata_local + k * maxdata_local
      BY <2>3, StreamTransferAssumption DEF NewMaxData
    <3>2. k * maxdata_local \in Nat
      BY <2>1
    <3> QED BY <2>1, <3>1, <3>2
  <2> QED BY <2>2, <2>3
<1>3. Sent' = Sent /\ Learned' = Learned
  BY <1>1 DEF sender, Sent, Learned
<1>4. CountsOK'
  BY <1>1, <1>2, <1>3 DEF CInv, CountsOK, Total, Area, sender
<1>5. CreditsOK'
  BY <1>1 DEF CInv, CreditsOK, sender
<1> QED BY <1>1, <1>4, <1>5 DEF Counts, CInv, NoPeerError

LEMMA SendMaxStreamDataCounts ==
  ASSUME CInv, SendMaxStreamData
  PROVE  Counts'
<1>1. UNCHANGED <<sender, offset_received, data_received, maxdata_local, max_data_frames, error>>
  BY DEF SendMaxStreamData
<1>2. PICK k \in Growth :
        /\ rcv' = [s \in Streams |-> [rcv[s] EXCEPT !.maxdata_local = Raised(k)[s]]]
        /\ max_stream_data_frames' = [s \in Streams |->
             IF NeedsMaxStreamData(s) THEN max_stream_data_frames[s] \cup {Raised(k)[s]}
                                      ELSE max_stream_data_frames[s]]
  BY Zenon DEF SendMaxStreamData, Raised
<1>3. ASSUME NEW s \in Streams PROVE Raised(k)[s] \in Nat /\ Raised(k)[s] >= rcv[s].maxdata_local
  <2> DEFINE n == rcv[s].maxdata_local
  <2>1. n \in Nat /\ k \in Nat
    BY HalvesTyped, StreamTransferAssumption
  <2>2. n * k \in Nat /\ n * (k + 1) = n * k + n
    <3> HIDE DEF n
    <3> QED BY <2>1
  <2>3. Raised(k)[s] = n * (k + 1) \/ Raised(k)[s] = n
    BY DEF Raised
  <2> HIDE DEF n
  <2>4. Raised(k)[s] \in Nat /\ Raised(k)[s] >= n
    BY <2>1, <2>2, <2>3
  <2> QED BY <2>4 DEF n
<1>4. \A s \in Streams : /\ rcv'[s].fin_offset = rcv[s].fin_offset
                         /\ rcv'[s].reset_received = rcv[s].reset_received
                         /\ rcv'[s].maxdata_local = Raised(k)[s]
  BY <1>2 DEF CInv, IInv, HalvesOK, ReceiveHalf
<1>5. Sent' = Sent /\ Learned' = Learned
  BY <1>1, <1>4 DEF sender, Sent, Learned
<1>6. CountsOK'
  BY <1>1, <1>5 DEF CInv, CountsOK, Total, Area, sender
<1>7. CreditsOK'
  <2> SUFFICES ASSUME NEW s \in Streams
               PROVE  CreditOK(snd'[s], rcv'[s], max_stream_data_frames'[s])
    BY DEF CreditsOK
  <2>1. max_stream_data_frames'[s] \subseteq max_stream_data_frames[s] \cup {Raised(k)[s]}
    BY <1>2
  <2>2. /\ CreditOK(snd[s], rcv[s], max_stream_data_frames[s])
        /\ snd[s].maxdata_remote \in Nat /\ rcv[s].maxdata_local \in Nat
        /\ snd'[s] = snd[s]
    BY <1>1, HalvesTyped DEF sender
  <2> QED BY <1>3, <1>4, <2>1, <2>2 DEF CreditOK
<1> QED BY <1>1, <1>6, <1>7 DEF Counts, CInv, NoPeerError

LEMMA CountsHold ==
  ASSUME CInv, [Next]_vars
  PROVE  CInv'
<1>1. IInv'
  BY Inductive DEF CInv
<1>2. Counts'
  <2>1. CASE \E s \in Streams : SendStep(s)
    BY <2>1, SendCounts
  <2>2. CASE \E s \in Streams : SendReset(s)
    BY <2>2, SendResetCounts
  <2>3. CASE \E s \in Streams : DataArrives(s)
    BY <2>3, DataCounts
  <2>4. CASE \E s \in Streams : ResetArrives(s)
    BY <2>4, ResetCounts
  <2>5. CASE Credits
    BY <2>5, CreditsCount
  <2>6. CASE SendMaxData
    BY <2>6, SendMaxDataCounts
  <2>7. CASE SendMaxStreamData
    BY <2>7, SendMaxStreamDataCounts
  <2>8. CASE UNCHANGED vars
    <3>1. Sent' = Sent /\ Learned' = Learned
      BY <2>8 DEF vars, sender, receiver, Sent, Learned
    <3> QED BY <2>8, <3>1 DEF vars, sender, receiver, CInv, Counts, CountsOK, CreditsOK,
                                NoPeerError, Total, Area
  <2> QED BY <2>1, <2>2, <2>3, <2>4, <2>5, <2>6, <2>7, <2>8, Zenon DEF Next
<1> QED BY <1>1, <1>2 DEF CInv, Counts

LEMMA InitCounts == Init => CInv
<1> SUFFICES ASSUME Init PROVE CInv
  OBVIOUS
<1> USE StreamTransferAssumption
<1>1. \A s \in Streams : Sent[s] = 0 /\ Learned[s] = 0
  BY DEF Init, Sent, Learned
<1>2. Area(Sent) = {} /\ Area(Learned) = {}
  BY <1>1 DEF Area, Offsets
<1>3. Total(Sent) = 0 /\ Total(Learned) = 0
  BY <1>2, FS_EmptySet DEF Total
<1>4. CountsOK
  BY <1>3 DEF Init, CountsOK
<1>5. CreditsOK
  BY DEF Init, CreditsOK, CreditOK
<1> QED BY <1>4, <1>5, InitEstablishes DEF Init, CInv, NoPeerError

(* A sender that runs this code is never accused by a receiver that runs   *)
(* it, for every number of streams, all windows and every order in which   *)
(* data, resets and both credits arrive                                    *)
(* (picoquic_flow_control_check_stream_offset,                             *)
(* picoquic_stream_network_input, picoquic_apply_reset_stream_frame).      *)
THEOREM NoAccusation == Spec => []NoPeerError
<1>1. CInv /\ [Next]_vars => CInv'
  BY CountsHold
<1>2. CInv => NoPeerError
  BY DEF CInv
<1> QED BY InitCounts, <1>1, <1>2, PTL DEF Spec
=============================================================================
