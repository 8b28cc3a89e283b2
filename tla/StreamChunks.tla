---------------------------- MODULE StreamChunks ----------------------------
(***************************************************************************)
(* How picoquic puts the bytes of a stream in order: the tree of chunks    *)
(* that wait (picoquic_queue_network_input, add_chunk_node) and its        *)
(* emptying, for a stream of the application, which gets the bytes with    *)
(* the frame, and for a CRYPTO stream, which TLS reads after the packet.   *)
(*                                                                         *)
(* Frames are any pieces of what the peer sent, in any order and any       *)
(* number of times.  A byte is its offset.  Flow control, the FIN and      *)
(* resets are those of StreamTransfer, whose set of buffered bytes this    *)
(* tree holds.                                                             *)
(***************************************************************************)
EXTENDS Integers, SequencesExt

CONSTANTS
  MaxBytes,        \* bound: bytes sent on the stream
  MaxCryptoGap     \* PICOQUIC_MAX_CRYPTO_BUFFER_GAP

VARIABLES
  crypto,          \* is it a CRYPTO stream?
  tree,            \* the chunks, in the order of their offsets
  consumed,        \* consumed_offset
  delivered,       \* history: what was given to the application or to TLS
  arrived          \* history: the bytes that arrived

vars == <<crypto, tree, consumed, delivered, arrived>>

Offsets == 0 .. MaxBytes - 1

(* picoquic_stream_data_node_t                                             *)
Chunk == [offset : Offsets, bytes : Seq(Offsets)]
EndOf(c) == c.offset + Len(c.bytes)

Init ==
  /\ crypto \in BOOLEAN
  /\ tree = <<>> /\ consumed = 0 /\ delivered = <<>> /\ arrived = {}
-----------------------------------------------------------------------------
(* The frame that starts at offset begin and ends before end.              *)
Frame(begin, end) == [i \in 1 .. end - begin |-> begin + i - 1]

(* The position of the last chunk that starts at or before offset, 0 if    *)
(* there is none (picosplay_find_previous).                                *)
FindPrevious(t, offset) == Max({0} \cup {i \in DOMAIN t : t[i].offset <= offset})

(* Mutant: the bytes are taken from the start of the frame.                *)
AddChunkFromStart(t, frame, begin, from, to) ==
  InsertAt(t, FindPrevious(t, from) + 1,
           [offset |-> from, bytes |-> SubSeq(frame, 1, to - from)])

(* add_chunk_node: the part of a frame from offset from, before offset to. *)
AddChunk(t, frame, begin, from, to) ==
  InsertAt(t, FindPrevious(t, from) + 1,
           [offset |-> from, bytes |-> SubSeq(frame, from - begin + 1, to - begin)])

(* Mutant: what lies behind a chunk is not looked at.                      *)
SkipToEnd(s, next, frame, begin, end) ==
  IF s.from >= end \/ next.offset >= end THEN s
  ELSE [from |-> end,
        tree |-> IF next.offset > s.from
                 THEN AddChunk(s.tree, frame, begin, s.from, next.offset) ELSE s.tree]

(* One turn of the loop over the chunks behind the start of the frame: the *)
(* gap before the chunk next is filled.                                    *)
FillGap(s, next, frame, begin, end) ==
  IF s.from >= end \/ next.offset >= end THEN s
  ELSE [from |-> EndOf(next),
        tree |-> IF next.offset > s.from
                 THEN AddChunk(s.tree, frame, begin, s.from, next.offset) ELSE s.tree]

QueueNetworkInput(t, frame, begin, end) ==
  LET prev == FindPrevious(t, Max({begin, consumed}))
      from == Max({begin, consumed} \cup (IF prev = 0 THEN {} ELSE {EndOf(t[prev])}))
      Turn(s, next) == FillGap(s, next, frame, begin, end)
      last == FoldLeft(Turn, [from |-> from, tree |-> t], SubSeq(t, prev + 1, Len(t)))
  IN  IF Max({begin, consumed}) >= end THEN t
      ELSE IF last.from < end THEN AddChunk(last.tree, frame, begin, last.from, end)
      ELSE last.tree

(* One turn of the loops that empty the tree: the first chunk, if it       *)
(* starts at or before consumed, is delivered as far as it is new, and     *)
(* deleted.                                                                *)
TakeFirst(s, c) ==
  IF c.offset > s.consumed THEN s
  ELSE LET new == IF EndOf(c) >= s.consumed
                  THEN SubSeq(c.bytes, s.consumed - c.offset + 1, Len(c.bytes)) ELSE <<>>
       IN  [tree |-> Tail(s.tree), consumed |-> s.consumed + Len(new),
            delivered |-> s.delivered \o new]

(* picoquic_stream_data_callback, picoquic_tls_stream_process              *)
Emptied(s) == FoldLeft(TakeFirst, s, s.tree)

Becomes(s) == tree' = s.tree /\ consumed' = s.consumed /\ delivered' = s.delivered
-----------------------------------------------------------------------------
(* picoquic_stream_network_input without its checks: bytes in sequence are *)
(* delivered from the frame.                                               *)
StreamInput(begin, end) ==
  LET frame == Frame(begin, end)
      new == SubSeq(frame, consumed - begin + 1, end - begin)
  IN  /\ ~crypto
      /\ IF consumed < begin
         THEN Becomes(Emptied([tree |-> QueueNetworkInput(tree, frame, begin, end),
                               consumed |-> consumed, delivered |-> delivered]))
         ELSE IF end >= consumed
         THEN Becomes(Emptied([tree |-> tree, consumed |-> consumed + Len(new),
                               delivered |-> delivered \o new]))
         ELSE UNCHANGED <<tree, consumed, delivered>>
      /\ arrived' = arrived \cup begin .. end - 1
      /\ UNCHANGED crypto

(* picoquic_decode_crypto_hs_frame; a frame too far ahead closes the       *)
(* connection instead.                                                     *)
CryptoInput(begin, end) ==
  /\ crypto
  /\ consumed < begin => end <= consumed + MaxCryptoGap
  /\ tree' = QueueNetworkInput(tree, Frame(begin, end), begin, end)
  /\ arrived' = arrived \cup begin .. end - 1
  /\ UNCHANGED <<crypto, consumed, delivered>>

(* picoquic_tls_stream_process, once TLS reads this epoch.                 *)
TlsStreamProcess ==
  /\ crypto
  /\ Becomes(Emptied([tree |-> tree, consumed |-> consumed, delivered |-> delivered]))
  /\ UNCHANGED <<crypto, arrived>>

Next ==
  \/ \E begin, end \in 0 .. MaxBytes :
       begin < end /\ (StreamInput(begin, end) \/ CryptoInput(begin, end))
  \/ TlsStreamProcess

Spec == Init /\ [][Next]_vars
-----------------------------------------------------------------------------
TypeOK ==
  /\ crypto \in BOOLEAN
  /\ tree \in Seq(Chunk)
  /\ consumed \in 0 .. MaxBytes /\ delivered \in Seq(Offsets) /\ arrived \subseteq Offsets

(* The application and TLS get the bytes of the stream in order, each      *)
(* once, whatever the frames overlap, and the application all that arrived *)
(* without a gap, so that consumed_offset is what StreamTransfer has it be *)
(* (picoquic_queue_network_input, picoquic_stream_data_callback,           *)
(* picoquic_tls_stream_process).                                           *)
DeliveredInOrder ==
  /\ delivered = [i \in 1 .. consumed |-> i - 1] /\ 0 .. consumed - 1 \subseteq arrived
  /\ ~crypto => consumed \notin arrived

(* The tree holds what has arrived and was not delivered, all of it and    *)
(* each byte once, in chunks that are not empty and lie behind             *)
(* consumed_offset.  TLS relies on it: it takes data->length - start       *)
(* without a test (tls_api.c:2753).                                        *)
ChunkSet(c) == c.offset .. EndOf(c) - 1

TreeIsExact ==
  /\ UNION {ChunkSet(c) : c \in ToSet(tree)} = arrived \ 0 .. consumed - 1
  /\ \A i \in DOMAIN tree : tree[i].bytes # <<>>
  /\ \A i, j \in DOMAIN tree : i < j => EndOf(tree[i]) <= tree[j].offset
=============================================================================
