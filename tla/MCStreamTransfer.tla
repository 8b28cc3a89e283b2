-------------------------- MODULE MCStreamTransfer --------------------------
(***************************************************************************)
(* Instances for TLC of StreamTransfer and of the chunks it abstracts from *)
(* (StreamChunks).  Of StreamTransfer there are two: in one, streams may   *)
(* be reset and the windows grow; in the other the receiver has a          *)
(* max_data_limit and small windows, no stream is reset, and the send      *)
(* loops are fair.  The first state chooses, the others are at rest.       *)
(***************************************************************************)
EXTENDS StreamTransfer

CONSTANTS SmallWindow, Limit, ChunkBytes, MaxCryptoGap

VARIABLES part, crypto, tree, consumed, delivered, came

Limited == INSTANCE StreamTransfer WITH
  StreamWindow <- SmallWindow, DataWindow <- Limit, MaxDataLimit <- Limit, Resettable <- {}

Chunks == INSTANCE StreamChunks WITH MaxBytes <- ChunkBytes, arrived <- came

chunkVars == <<crypto, tree, consumed, delivered, came>>
allVars == <<part, vars, chunkVars>>

TransferInit ==
  /\ Chunks!Init
  /\ \/ part \in {"free", "chunks"} /\ Init
     \/ part = "limited" /\ ~crypto /\ Limited!Init

TransferNext ==
  /\ UNCHANGED part
  /\ \/ part = "free" /\ Next /\ UNCHANGED chunkVars
     \/ part = "limited" /\ Limited!Next /\ UNCHANGED chunkVars
     \/ part = "chunks" /\ Chunks!Next /\ UNCHANGED vars

limited == part = "limited"
Held == limited /\ UNCHANGED <<part, chunkVars>>

TransferSpec ==
  /\ TransferInit /\ [][TransferNext]_allVars
  /\ \A s \in Streams :
       /\ WF_allVars(Held /\ Limited!SendStep(s)) /\ WF_allVars(Held /\ Limited!Progress(s))
       /\ WF_allVars(Held /\ Limited!ResetArrives(s))
  /\ WF_allVars(Held /\ Limited!Credits)
  /\ WF_allVars(Held /\ Limited!SendMaxData) /\ WF_allVars(Held /\ Limited!SendMaxStreamData)
-----------------------------------------------------------------------------
(* With max_data_limit and no resets, every stream is read to the end:     *)
(* credit never runs dry on both sides (picoquic_prepare_packet_ready,     *)
(* picoquic_format_required_max_stream_data_frames).                       *)
LimitedArrives == limited => EverythingArrives

(* The application and TLS get the bytes of a stream in order, each once,  *)
(* whatever the frames overlap, and the application all that arrived       *)
(* without a gap (picoquic_queue_network_input,                            *)
(* picoquic_stream_data_callback, picoquic_tls_stream_process).            *)
DeliveredInOrder == Chunks!DeliveredInOrder

(* The tree holds what has arrived and was not delivered, each byte once   *)
(* and behind what was delivered (add_chunk_node, picoquic_queue_network_input). *)
TreeIsExact == Chunks!TreeIsExact
=============================================================================
