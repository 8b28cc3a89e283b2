--------------------------- MODULE StreamTransfer ---------------------------
(***************************************************************************)
(* Stream data in one direction of a connection, from the stream frames of *)
(* a sender to the callbacks of the receiving application, with the two    *)
(* levels of flow control that bind them.                                  *)
(*                                                                         *)
(* Bytes are their offsets.  Frames are lost, delayed, duplicated and      *)
(* reordered, and what is lost is sent again, cut anew: any part of what a *)
(* stream has sent may arrive at any time, any number of times.  The same  *)
(* holds for the frames that reset a stream or raise a credit.             *)
(***************************************************************************)
EXTENDS FiniteSetsExt, Integers

CONSTANTS
  Streams,
  MaxBytes,        \* bound: bytes sent on a stream
  StreamWindow,    \* initial_max_stream_data
  DataWindow,      \* initial_max_data
  MaxDataLimit,    \* max_data_limit of the receiver, 0 when there is none
  Growth,          \* factors of picoquic_cc_increased_window, by path delay
  Unidir,          \* streams that are unidirectional
  Resettable       \* streams whose sender may reset them

ASSUME StreamTransferAssumption ==
  /\ IsFiniteSet(Streams)
  /\ MaxBytes \in Nat /\ StreamWindow \in Nat /\ DataWindow \in Nat
  /\ MaxDataLimit \in Nat /\ Growth \subseteq Nat \ {0}
  /\ MaxDataLimit > 0 => DataWindow = MaxDataLimit
  /\ Unidir \subseteq Streams /\ Resettable \subseteq Streams

VARIABLES
  snd,              \* the sender's half of each stream
  data_sent, maxdata_remote,                       \* of the sender
  rcv,              \* the receiver's half of each stream
  offset_received, data_received,                  \* of the receiver: learned, consumed
  maxdata_local, max_stream_data_needed,
  max_data_frames, max_stream_data_frames,  \* values the receiver has sent
  error,            \* connection error raised by the receiver
  arrived           \* history: offsets that arrived before the stream was deleted

sender == <<snd, data_sent, maxdata_remote>>
receiver == <<rcv, offset_received, data_received, maxdata_local, max_stream_data_needed,
              max_data_frames, max_stream_data_frames, error, arrived>>
vars == <<sender, receiver>>

Offsets == 0 .. MaxBytes - 1

SendHalf == [sent : 0 .. MaxBytes, fin_sent : BOOLEAN, reset_sent : BOOLEAN,
             maxdata_remote : Nat]

ReceiveHalf == [buffered : SUBSET Offsets, consumed : 0 .. MaxBytes,
                fin_offset : 0 .. MaxBytes, maxdata_local : Nat,
                fin_received : BOOLEAN, fin_signalled : BOOLEAN,
                reset_received : BOOLEAN, reset_signalled : BOOLEAN]

Init ==
  /\ snd = [s \in Streams |-> [sent |-> 0, fin_sent |-> FALSE,
              reset_sent |-> FALSE, maxdata_remote |-> StreamWindow]]
  /\ rcv = [s \in Streams |-> [buffered |-> {}, consumed |-> 0,
              fin_offset |-> 0, maxdata_local |-> StreamWindow,
              fin_received |-> FALSE, fin_signalled |-> FALSE,
              reset_received |-> FALSE, reset_signalled |-> FALSE]]
  /\ data_sent = 0 /\ maxdata_remote = DataWindow
  /\ offset_received = 0 /\ data_received = 0 /\ maxdata_local = DataWindow
  /\ max_stream_data_needed = FALSE
  /\ max_data_frames = {}
  /\ max_stream_data_frames = [s \in Streams |-> {}]
  /\ error = "none"
  /\ arrived = [s \in Streams |-> {}]
-----------------------------------------------------------------------------
(* picoquic_format_stream_frame: a frame of n new bytes, perhaps the last. *)
(* Both credits must have room even for a FIN without data.                *)
SendData(s, n, fin) ==
  LET room == Min({snd[s].maxdata_remote - snd[s].sent, maxdata_remote - data_sent})
  IN  /\ ~snd[s].fin_sent /\ ~snd[s].reset_sent
      /\ n > 0 \/ fin
      /\ room > 0 /\ n <= room /\ snd[s].sent + n <= MaxBytes
      /\ snd' = [snd EXCEPT ![s].sent = @ + n, ![s].fin_sent = fin]
      /\ data_sent' = data_sent + n
      /\ UNCHANGED <<maxdata_remote, receiver>>

(* picoquic_reset_stream: the final size is what was sent so far.          *)
SendReset(s) ==
  /\ s \in Resettable /\ ~snd[s].reset_sent
  /\ snd' = [snd EXCEPT ![s].reset_sent = TRUE]
  /\ UNCHANGED <<data_sent, maxdata_remote, receiver>>

MaxDataArrives(v) ==
  /\ v \in max_data_frames /\ v > maxdata_remote
  /\ maxdata_remote' = v
  /\ UNCHANGED <<snd, data_sent, receiver>>

MaxStreamDataArrives(s, v) ==
  /\ v \in max_stream_data_frames[s] /\ v > snd[s].maxdata_remote
  /\ snd' = [snd EXCEPT ![s].maxdata_remote = v]
  /\ UNCHANGED <<data_sent, maxdata_remote, receiver>>
-----------------------------------------------------------------------------
(* Mutant: a reset does not end a stream.                                  *)
DeletedAtFin(s) == s \in Unidir /\ rcv[s].fin_signalled

(* A unidirectional stream is deleted once its end is signalled; frames    *)
(* for it are then ignored.                                                *)
Deleted(s) == s \in Unidir /\ (rcv[s].fin_signalled \/ rcv[s].reset_signalled)

Fail(e) ==
  /\ error' = e
  /\ UNCHANGED <<sender, rcv, offset_received, data_received, maxdata_local, arrived,
                 max_stream_data_needed, max_data_frames, max_stream_data_frames>>

(* picoquic_flow_control_check_stream_offset: what a frame that ends at    *)
(* offset b adds, and whether that breaks a limit.                         *)
NewBytes(s, b) == Max({b - rcv[s].fin_offset, 0})

(* Mutant: a limit may not be reached.                                     *)
ReachesLimit(s, b) ==
  \/ b >= rcv[s].maxdata_local
  \/ NewBytes(s, b) > 0 /\ offset_received + NewBytes(s, b) > maxdata_local

ExceedsLimit(s, b) ==
  \/ b > rcv[s].maxdata_local
  \/ NewBytes(s, b) > 0 /\ offset_received + NewBytes(s, b) > maxdata_local

(* The end of the bytes that follow consumed without a gap.                *)
Contiguous(consumed, bytes) ==
  CHOOSE c \in consumed .. MaxBytes :
    consumed .. c - 1 \subseteq bytes /\ c \notin bytes

(* picoquic_stream_network_input: offsets a .. b - 1, and the FIN at b.    *)
ReceiveData(s, a, b, fin) ==
  LET r == rcv[s]
      bytes == r.buffered \cup (a .. b - 1)
      consumed == Contiguous(r.consumed, bytes)
      fin_offset == Max({r.fin_offset, b})
      received == r.fin_received \/ fin
      signalled == r.fin_signalled \/ (received /\ consumed >= fin_offset)
  IN  /\ ~Deleted(s)
      /\ IF r.fin_received /\ (IF fin THEN b # r.fin_offset ELSE b > r.fin_offset)
         THEN Fail("final size")
         ELSE IF ~r.fin_received /\ b > r.fin_offset /\ ExceedsLimit(s, b)
         THEN Fail("flow control")
         ELSE /\ rcv' = [rcv EXCEPT ![s] =
                   [r EXCEPT !.buffered = {o \in bytes : o >= consumed},
                             !.consumed = consumed, !.fin_offset = fin_offset,
                             !.fin_received = received,
                             !.fin_signalled = signalled]]
              /\ offset_received' = offset_received + NewBytes(s, b)
              /\ data_received' = data_received + consumed - r.consumed
              /\ max_stream_data_needed' =
                   (\/ max_stream_data_needed
                    \/ ~received /\ ~r.reset_received /\ 2 * consumed > r.maxdata_local)
              /\ arrived' = [arrived EXCEPT ![s] = @ \cup (a .. b - 1)]
              /\ UNCHANGED <<sender, maxdata_local, max_data_frames,
                             max_stream_data_frames, error>>

(* picoquic_signal_stream_reset takes the bytes that the application will  *)
(* not get out of the count, unless nothing else is in it.                 *)
AfterDiscard(received, delta) == IF received > delta THEN received - delta ELSE received

(* picoquic_apply_reset_stream_frame.                                      *)
ReceiveReset(s, final) ==
  LET r == rcv[s]
      ends == r.fin_received \/ r.reset_received
      counted == offset_received + NewBytes(s, final)
  IN  /\ ~Deleted(s)
      /\ IF ends /\ final # r.fin_offset THEN Fail("final size")
         ELSE IF ExceedsLimit(s, final) THEN Fail("flow control")
         ELSE /\ ~r.reset_received
              /\ rcv' = [rcv EXCEPT ![s] =
                   [r EXCEPT !.fin_offset = Max({@, final}),
                             !.reset_received = TRUE, !.reset_signalled = TRUE]]
              /\ offset_received' =
                   AfterDiscard(counted, Max({r.fin_offset, final}) - r.consumed)
              /\ UNCHANGED <<sender, data_received, maxdata_local,
                             max_stream_data_needed, max_data_frames,
                             max_stream_data_frames, error, arrived>>

DataArrives(s) ==
  \E a, b \in 0 .. snd[s].sent, fin \in BOOLEAN :
    /\ a < b \/ (a = b /\ fin)
    /\ fin => snd[s].fin_sent /\ b = snd[s].sent
    /\ ReceiveData(s, a, b, fin)

ResetArrives(s) == snd[s].reset_sent /\ ReceiveReset(s, snd[s].sent)
-----------------------------------------------------------------------------
(* Bound: no credit is raised beyond what all streams could use.           *)
Enough == Cardinality(Streams) * MaxBytes + 1

(* picoquic_prepare_packet_ready: with a limit, a window that follows what *)
(* was consumed; without, one that grows when half of it is used.          *)
NewMaxData ==
  IF MaxDataLimit > 0
  THEN {v \in {data_received + MaxDataLimit} :
          data_received + (3 * MaxDataLimit) \div 4 > maxdata_local}
  ELSE {v \in {maxdata_local + k * maxdata_local : k \in Growth} :
          2 * offset_received > maxdata_local}

SendMaxData ==
  /\ maxdata_local < Enough
  /\ \E v \in NewMaxData :
       /\ maxdata_local' = v
       /\ max_data_frames' = max_data_frames \cup {v}
  /\ UNCHANGED <<sender, rcv, offset_received, data_received,
                 max_stream_data_needed, max_stream_data_frames, error, arrived>>

(* Mutant: the window of a stream grows when it is exceeded.               *)
NeedsMaxStreamDataLate(s) ==
  /\ ~Deleted(s) /\ ~rcv[s].fin_received /\ ~rcv[s].reset_received
  /\ rcv[s].consumed > rcv[s].maxdata_local

(* picoquic_format_required_max_stream_data_frames: every stream that has  *)
(* used half of its window, in one packet.                                 *)
NeedsMaxStreamData(s) ==
  /\ ~Deleted(s) /\ ~rcv[s].fin_received /\ ~rcv[s].reset_received
  /\ 2 * rcv[s].consumed > rcv[s].maxdata_local

SendMaxStreamData ==
  /\ max_stream_data_needed
  /\ \E k \in Growth :
       LET raised == [s \in Streams |-> IF NeedsMaxStreamData(s)
                        THEN rcv[s].maxdata_local * (k + 1)
                        ELSE rcv[s].maxdata_local]
       IN  /\ rcv' = [s \in Streams |-> [rcv[s] EXCEPT !.maxdata_local = raised[s]]]
           /\ max_stream_data_frames' = [s \in Streams |->
                IF NeedsMaxStreamData(s) THEN max_stream_data_frames[s] \cup {raised[s]}
                                         ELSE max_stream_data_frames[s]]
  /\ max_stream_data_needed' = FALSE
  /\ UNCHANGED <<sender, offset_received, data_received, maxdata_local,
                 max_data_frames, error, arrived>>
-----------------------------------------------------------------------------
SendStep(s) == \E n \in 0 .. MaxBytes, fin \in BOOLEAN : SendData(s, n, fin)

Credits ==
  \/ \E v \in max_data_frames : MaxDataArrives(v)
  \/ \E s \in Streams : \E v \in max_stream_data_frames[s] : MaxStreamDataArrives(s, v)

Next ==
  /\ error = "none"
  /\ \/ \E s \in Streams :
          SendStep(s) \/ SendReset(s) \/ DataArrives(s) \/ ResetArrives(s)
     \/ Credits \/ SendMaxData \/ SendMaxStreamData

Spec == Init /\ [][Next]_vars

(* Data of s arrives that the application was waiting for.                 *)
Progress(s) ==
  DataArrives(s) /\ (rcv'[s].consumed > rcv[s].consumed \/ rcv'[s].fin_signalled)

(* The send loop serves each stream that has data and credit, until the    *)
(* application has finished it; the receiver's loop sends the credit       *)
(* frames it owes; what is lost is sent again until it arrives.            *)
FairSpec ==
  /\ Spec
  /\ \A s \in Streams : WF_vars(SendStep(s)) /\ WF_vars(Progress(s))
                        /\ WF_vars(ResetArrives(s))
  /\ WF_vars(Credits) /\ WF_vars(SendMaxData) /\ WF_vars(SendMaxStreamData)
-----------------------------------------------------------------------------
TypeOK ==
  /\ snd \in [Streams -> SendHalf]
  /\ rcv \in [Streams -> ReceiveHalf]
  /\ data_sent \in Nat /\ maxdata_remote \in Nat
  /\ offset_received \in Nat /\ data_received \in Nat /\ maxdata_local \in Nat
  /\ max_stream_data_needed \in BOOLEAN
  /\ max_data_frames \subseteq Nat
  /\ max_stream_data_frames \in [Streams -> SUBSET Nat]
  /\ error \in {"none", "final size", "flow control"}
  /\ arrived \in [Streams -> SUBSET Offsets]

(* A sender that runs this code is never accused by a receiver that runs   *)
(* it: with both credits in flight, resets that give bytes back, and old   *)
(* frames after them, no limit and no final size is ever found broken.     *)
NoPeerError == error = "none"

(* The application is given the bytes of a stream in order and once, only  *)
(* bytes that arrived and as soon as they have no gap before them; none    *)
(* that arrived is dropped, and the FIN is told only after all of them.    *)
DeliveredIsSent ==
  \A s \in Streams :
    /\ rcv[s].consumed <= snd[s].sent
    /\ rcv[s].buffered \subseteq rcv[s].consumed + 1 .. snd[s].sent - 1
    /\ arrived[s] = rcv[s].buffered \cup (0 .. rcv[s].consumed - 1)
    /\ rcv[s].fin_signalled => snd[s].fin_sent /\ rcv[s].consumed = snd[s].sent

(* A unidirectional stream, which is deleted at its end, is a reliable     *)
(* stream: in order, once, and with one end and nothing after it.          *)
Reliable == INSTANCE ReliableStreams WITH
  Streams <- Unidir,
  written <- [s \in Unidir |-> snd[s].sent],
  finished <- [s \in Unidir |-> snd[s].fin_sent],
  aborted <- [s \in Unidir |-> snd[s].reset_sent],
  delivered <- [s \in Unidir |-> rcv[s].consumed],
  told <- [s \in Unidir |-> IF rcv[s].reset_signalled THEN "reset"
                            ELSE IF rcv[s].fin_signalled THEN "fin" ELSE "open"]

StreamsAreReliable == Reliable!Spec

(* Every stream that its sender goes on with is read to the end, and every *)
(* reset is learned: credit never runs dry on both sides.                  *)
EverythingArrives ==
  \A s \in Streams : <>(rcv[s].fin_signalled \/ rcv[s].reset_signalled)
=============================================================================
