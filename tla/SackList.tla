------------------------------ MODULE SackList ------------------------------
(***************************************************************************)
(* The selective-acknowledgement list of picoquic, operation by operation  *)
(* as sacks.c and frames.c perform them: the items in the order of the     *)
(* splay tree, and beside them range_counts, the number of items that were *)
(* sent 0, 1, ... Repeat - 1 times, adjusted at every change.  The frame   *)
(* composer trusts those counters to decide which ranges fit in a packet.  *)
(*                                                                         *)
(* time_created is left out: only the dead "horizon" code reads it.        *)
(***************************************************************************)
EXTENDS Walks, SackRanges, SequencesExt

CONSTANTS
  ListBlocks,     \* ranges in one ACK frame besides the top one, 32 in the code
  ListMaxPn,      \* bound: numbers recorded are 0 .. ListMaxPn
  ListKinds,      \* bound: the acknowledgement contexts that send, a subset of Kinds
  ListMaxFrames   \* bound: ACK frames remembered as unacknowledged

ASSUME SackListAssumption ==
  /\ Repeat \in Nat \ {0} /\ ListBlocks \in Nat \ {0}
  /\ ListMaxPn \in Nat /\ ListMaxFrames \in Nat /\ ListKinds \subseteq Kinds

VARIABLES
  list,         \* the items, in increasing order
  rc,           \* rc[k][i]: picoquic_sack_list_t.rc[k].range_counts[i]
  listFrames    \* ACK frames sent in packets that may still be acknowledged

listVars == <<list, rc, listFrames>>

Counts == [0 .. Repeat - 1 -> Int]
Sacks == [list : Seq(Items), rc : [Kinds -> Counts]]

Count(c, n, d) == [i \in DOMAIN c |-> IF i = n THEN c[i] + d ELSE c[i]]

(* The state of a list during an operation.                                *)
Sack == [list |-> list, rc |-> rc]

(* Moves one item from count vector `from` to count vector `to`.           *)
Recount(c, from, to) ==
  [k \in Kinds |-> Count(Count(c[k], from[k], -1), to[k], 1)]

FindBelow(l, n) ==
  LET I == {i \in DOMAIN l : l[i].lo <= n} IN IF I = {} THEN 0 ELSE Max(I)

InsertItem(s, i, lo, hi) ==
  [list |-> InsertAt(s.list, i, NewItem(lo, hi)),
   rc |-> [k \in Kinds |-> Count(s.rc[k], 0, 1)]]

DeleteItem(s, i) ==
  [list |-> RemoveAt(s.list, i),
   rc |-> [k \in Kinds |-> Count(s.rc[k], s.list[i].sent[k], -1)]]

(* A boundary of item i moves and picoquic_sack_item_record_reset follows. *)
ResetItem(s, i, lo, hi) ==
  [list |-> [s.list EXCEPT ![i] = NewItem(lo, hi)],
   rc |-> Recount(s.rc, s.list[i].sent, NeverSent)]

(* One turn of the loop that extends item i up to hi.                      *)
ExtendOnce(s, i, hi) ==
  IF s.list[i].hi >= hi THEN s
  ELSE IF i = Len(s.list) \/ s.list[i + 1].lo - 1 > hi
  THEN ResetItem(s, i, s.list[i].lo, hi)
  ELSE DeleteItem(ResetItem(s, i, s.list[i].lo, s.list[i + 1].hi), i + 1)

(* Mutant: absorbs one following item and stops.                           *)
MutExtendItem(s, i, hi) == ExtendOnce(s, i, hi)

(* The loop ends before it has run once for each item of the list.         *)
ExtendItem(s, i, hi) ==
  LET turn == [j \in DOMAIN s.list |-> [t \in Sacks |-> ExtendOnce(t, i, hi)]]
  IN  Walk(turn, s, Len(s.list))

UpdateSackList(s, lo, hi) ==
  LET prev == FindBelow(s.list, lo)
      next == prev + 1
  IN  IF prev # 0 /\ s.list[prev].hi + 1 >= lo THEN ExtendItem(s, prev, hi)
      ELSE IF next > Len(s.list) \/ s.list[next].lo - 1 > hi
      THEN InsertItem(s, next, lo, hi)
      ELSE ExtendItem(ResetItem(s, next, lo, s.list[next].hi), next, hi)

CheckSackList(l, lo, hi) ==
  LET i == FindBelow(l, lo) IN i # 0 /\ hi <= l[i].hi

IsPnAlreadyReceived(l, pn) ==
  LET i == FindBelow(l, pn) IN i # 0 /\ pn <= l[i].hi

RecordSent(s, i, k) ==
  LET was == s.list[i]
      now == SentOnceMore(was, k)
  IN  [list |-> [s.list EXCEPT ![i] = now],
       rc |-> [s.rc EXCEPT ![k] = Count(Count(@, was.sent[k], -1), now.sent[k], 1)]]

(* Mutant: no item at the limit is skipped, so the highest always go out.  *)
MutSelection(upTo) ==
  LET full == {i \in 0 .. Repeat - 1 : upTo[i] >= ListBlocks}
  IN  [max |-> IF full = {} THEN Repeat ELSE Min(full), skip |-> 0]

(* The selection, from how many items were sent up to i times.             *)
Selection(upTo) ==
  LET full == {i \in 0 .. Repeat - 1 : upTo[i] >= ListBlocks}
  IN  IF full = {} THEN [max |-> Repeat, skip |-> 0]
      ELSE [max |-> Min(full), skip |-> upTo[Min(full)] - ListBlocks]

(* picoquic_sack_select_ack_ranges, from the counters.  firstCount is the  *)
(* send count of the top item, which does not count.                       *)
SelectAckRanges(c, firstCount) ==
  LET upTo[i \in 0 .. Repeat - 1] ==
        (c[i] - IF i = firstCount THEN 1 ELSE 0) + IF i = 0 THEN 0 ELSE upTo[i - 1]
  IN  Selection(upTo)

(* The encoder in the middle of a frame.                                   *)
Encodings == [sack : Sacks, frame : Seq(Ranges), skip : Int]

(* The ranges besides the top one that a frame holds.                      *)
Blocks(frame) == Len(frame) - 1

(* One turn of its loop, for item i, when there is room for that many      *)
(* ranges.                                                                 *)
EncodeItem(a, i, k, max, room) ==
  LET it == a.sack.list[i]
  IN  IF Blocks(a.frame) = ListBlocks \/ it.sent[k] > max THEN a
      ELSE IF it.sent[k] = max /\ a.skip > 0 THEN [a EXCEPT !.skip = @ - 1]
      ELSE IF Blocks(a.frame) = room THEN a
      ELSE [a EXCEPT !.sack = RecordSent(@, i, k), !.frame = Append(@, Bare(it))]

(* picoquic_format_ack_frame_in_context: the top range, then the selected  *)
(* ones down the list.                                                     *)
FormatFrame(s, k, room) ==
  LET top == Len(s.list)
      s1 == RecordSent(s, top, k)
      sel == SelectAckRanges(s1.rc[k], s1.list[top].sent[k])
      visit == [j \in 1 .. top - 1 |-> [a \in Encodings |->
                  EncodeItem(a, top - j, k, sel.max, room)]]
  IN  Walk(visit, [sack |-> s1, frame |-> <<Bare(s1.list[top])>>, skip |-> sel.skip], top - 1)

(* Mutant: the highest range is deleted like any other.                    *)
MutAckOfAckRange(s, r) ==
  LET i == FindBelow(s.list, r.lo) IN
  IF i # 0 /\ s.list[i].lo = r.lo /\ s.list[i].hi = r.hi THEN DeleteItem(s, i) ELSE s

AckOfAckRange(s, r) ==
  LET i == FindBelow(s.list, r.lo) IN
  IF i = 0 \/ s.list[i].lo # r.lo THEN s
  ELSE IF i = Len(s.list)
  THEN [s EXCEPT !.list[i].lo = IF r.hi < s.list[i].hi THEN r.hi + 1 ELSE s.list[i].hi]
  ELSE IF s.list[i].hi = r.hi THEN DeleteItem(s, i)
  ELSE s

(* picoquic_process_ack_of_ack_body: the ranges of a frame in turn.        *)
AckOfAckFrame(s, F) ==
  LET visit == [j \in DOMAIN F |-> [t \in Sacks |-> AckOfAckRange(t, F[j])]]
  IN  Walk(visit, s, Len(F))

-----------------------------------------------------------------------------
ListInit ==
  /\ list = <<>>
  /\ rc = [k \in Kinds |-> [i \in 0 .. Repeat - 1 |-> 0]]
  /\ listFrames = {}

Become(s) == list' = s.list /\ rc' = s.rc

(* A packet number, or the bytes of an acknowledged stream frame, arrive.  *)
ListReceive(lo, hi) ==
  /\ Become(UpdateSackList(Sack, lo, hi))
  /\ UNCHANGED listFrames

ListSend(k, room) ==
  LET f == FormatFrame(Sack, k, room) IN
  /\ list # <<>>
  /\ Become(f.sack)
  /\ listFrames' = listFrames \cup {f.frame}
  /\ Cardinality(listFrames') <= ListMaxFrames

ListAcked(F) ==
  /\ Become(AckOfAckFrame(Sack, F))
  /\ listFrames' = listFrames \ {F}

(* The packet that carried F is declared lost; ACK frames are not resent.  *)
ListFrameLost(F) == listFrames' = listFrames \ {F} /\ UNCHANGED <<list, rc>>

ListNext ==
  \/ \E lo, hi \in 0 .. ListMaxPn : lo <= hi /\ ListReceive(lo, hi)
  \/ \E k \in ListKinds, room \in 0 .. ListBlocks : ListSend(k, room)
  \/ \E F \in listFrames : ListAcked(F) \/ ListFrameLost(F)

ListSpec == ListInit /\ [][ListNext]_listVars

-----------------------------------------------------------------------------
ListTypeOK ==
  /\ list \in Seq(Items)
  /\ rc \in [Kinds -> Counts]
  /\ listFrames \subseteq Seq(Ranges)

(* Every counter equals the number of items it stands for                  *)
(* (sacks.c:89-119, 476-496).                                              *)
CountsExact(s) ==
  \A k \in Kinds, n \in 0 .. Repeat - 1 :
    s.rc[k][n] = Cardinality({it \in ToSet(s.list) : it.sent[k] = n})

(* The splay tree is ordered, and neighbours leave a gap of at least one   *)
(* number: the encoder subtracts 2 from the distance of two ranges without *)
(* a check (frames.c:4043).                                                *)
Ordered(l) ==
  /\ \A i \in DOMAIN l : l[i].lo <= l[i].hi
  /\ \A i \in 1 .. Len(l) - 1 : l[i].hi + 2 <= l[i + 1].lo

(* The search-and-merge loop of picoquic_update_sack_list computes the set *)
(* union of the list and the interval, in order, with exact counters, and  *)
(* says "duplicate" exactly when nothing was added; for one packet number  *)
(* that is the result of picoquic_record_pn_received, and the duplicate    *)
(* test is membership.                                                     *)
UpdateIsUnion ==
  LET L == ToSet(list)
      covered == Covered(L)
  IN  \A lo, hi \in 0 .. ListMaxPn : lo <= hi =>
        LET s == UpdateSackList(Sack, lo, hi)
            M == ToSet(s.list)
        IN  /\ Ordered(s.list) /\ CountsExact(s)
            /\ M = Update(L, lo, hi)
            /\ Covered(M) = covered \cup lo .. hi
            /\ (s = Sack) <=> CheckSackList(list, lo, hi)
            /\ CheckSackList(list, lo, hi) <=> (lo .. hi \subseteq covered)
            /\ lo = hi =>
                 /\ IsPnAlreadyReceived(list, lo) <=> lo \in covered
                 /\ lo \notin covered => M = RecordOne(L, lo)

(* Selecting from the counters picks the very items that counting afresh   *)
(* would pick, each of them once.  With room for ListBlocks ranges, a      *)
(* frame leaves a range out only if it was sent as often as any it         *)
(* includes: no range waits while another is repeated.  The exception: as  *)
(* long as fewer than ListBlocks ranges were sent less than Repeat times,  *)
(* those sent Repeat times take part like the others, from the top         *)
(* (frames.c:4030-4065), and may take the place of the others.             *)
SelectionIsExact ==
  list # <<>> =>
    \A k \in Kinds, room \in 0 .. ListBlocks :
      LET s1 == RecordSent(Sack, Len(list), k)
          top == s1.list[Len(list)]
          F == ToSet(FormatFrame(Sack, k, room).frame)
          below == {list[i] : i \in 1 .. Len(list) - 1}
      IN  /\ F = {Bare(it) : it \in SelectedBelow(ToSet(s1.list), k, top, ListBlocks, room) \cup {top}}
          /\ room = ListBlocks =>
               \A x, y \in below :
                 Bare(x) \notin F /\ Bare(y) \in F =>
                   \/ y.sent[k] <= x.sent[k]
                   \/ \E z \in below : Bare(z) \in F /\ z.sent[k] = Repeat

(* Acknowledging a frame range by range is the simultaneous effect.        *)
AckOfAckIsSimultaneous ==
  \A F \in listFrames :
    ToSet(AckOfAckFrame(Sack, F).list) = AckOfAck(ToSet(list), ToSet(F))
=============================================================================
