----------------------------- MODULE SackRanges -----------------------------
(***************************************************************************)
(* Sets of disjoint number ranges: the contents of a picoquic_sack_list_t  *)
(* (picoquic_internal.h:737-761) and the frame ranges computed from it.    *)
(* The code keeps the ranges in a splay tree ordered by their start; here  *)
(* they are a set of records, and each operation is stated by its result.  *)
(* Module SackList translates the code's own search-and-merge loops and    *)
(* its runs check that both agree.                                         *)
(*                                                                         *)
(* horizon_delay is never assigned after the memset of sack_list_init, so  *)
(* every "horizon_delay > 0" branch of sacks.c is dead and left out.       *)
(***************************************************************************)
EXTENDS Integers, FiniteSets, FiniteSetsExt

CONSTANT Repeat   \* PICOQUIC_MAX_ACK_RANGE_REPEAT, 4 in the code

(* The two acknowledgement contexts: 0 is the nominal path, 1 the          *)
(* opportunistic one.                                                      *)
Kinds == {0, 1}

(* nb_times_sent is only compared with values up to Repeat, so counting    *)
(* saturates at Repeat + 1 without losing a distinction the code makes.    *)
SentCounts == [Kinds -> 0 .. Repeat + 1]
NeverSent == [k \in Kinds |-> 0]

Items == [lo : Nat, hi : Nat, sent : SentCounts]
NewItem(lo, hi) == [lo |-> lo, hi |-> hi, sent |-> NeverSent]

Covered(L) == UNION {it.lo .. it.hi : it \in L}

(* Ranges in a list never overlap and never even touch.                    *)
Separated(L) ==
  \A x, y \in L : x # y => (x.hi + 1 < y.lo \/ y.hi + 1 < x.lo)

WellFormed(L) == Separated(L) /\ \A x \in L : x.lo <= x.hi

(* picoquic_sack_last_item, stated as a predicate.                         *)
IsHighest(L, it) == it \in L /\ \A o \in L : o.lo <= it.lo

(* picoquic_sack_list_last: 0 for an empty list.                           *)
ListLast(L) == IF L = {} THEN 0 ELSE (CHOOSE it \in L : IsHighest(L, it)).hi

(* picoquic_is_pn_already_received.                                        *)
AlreadyReceived(L, pn) == \E it \in L : it.lo <= pn /\ pn <= it.hi

(* picoquic_check_sack_list returns -1: the whole interval is known.       *)
Includes(L, lo, hi) == \E it \in L : it.lo <= lo /\ hi <= it.hi

(* picoquic_update_sack_list for an interval: every item that overlaps or  *)
(* touches it is merged, and a changed item counts as never sent.          *)
Touching(L, lo, hi) == {it \in L : it.lo <= hi + 1 /\ lo <= it.hi + 1}

Update(L, lo, hi) ==
  LET T == Touching(L, lo, hi)
  IN  IF Includes(L, lo, hi)
      THEN L
      ELSE (L \ T) \cup {NewItem(Min({lo} \cup {it.lo : it \in T}),
                                 Max({hi} \cup {it.hi : it \in T}))}

(* Mutant: a gap of one number counts as contiguous.                       *)
MutRecordGap(L, pn) ==
  LET below == {it \in L : it.hi + 1 = pn \/ it.hi + 2 = pn}
      above == {it \in L : it.lo = pn + 1}
      lo == IF below = {} THEN pn ELSE (CHOOSE it \in below : TRUE).lo
      hi == IF above = {} THEN pn ELSE (CHOOSE it \in above : TRUE).hi
  IN  (L \ (below \cup above)) \cup {NewItem(lo, hi)}

(* The same for one number that is not in the list.  At most one item ends *)
(* just below it and at most one starts just above it.                     *)
RecordOne(L, pn) ==
  LET below == {it \in L : it.hi + 1 = pn}
      above == {it \in L : it.lo = pn + 1}
      lo == IF below = {} THEN pn ELSE (CHOOSE it \in below : TRUE).lo
      hi == IF above = {} THEN pn ELSE (CHOOSE it \in above : TRUE).hi
  IN  (L \ (below \cup above)) \cup {NewItem(lo, hi)}

(* picoquic_sack_item_record_sent.                                         *)
SentOnceMore(it, k) ==
  [it EXCEPT !.sent[k] = IF @ > Repeat THEN @ ELSE @ + 1]

(* An ACK frame carries bare ranges.                                       *)
Ranges == [lo : Nat, hi : Nat]
Bare(it) == [lo |-> it.lo, hi |-> it.hi]

(* The n elements of S that start highest, all of S when it has fewer.     *)
TopN(S, n) == {it \in S : Cardinality({o \in S : o.lo > it.lo}) < n}

(* picoquic_sack_select_ack_ranges: with the top item apart, the lowest    *)
(* send count at which at least maxBlocks items qualify, and how many of   *)
(* the items at that count are one too many.                               *)
SelectMax(L, k, top, maxBlocks) ==
  LET cumul(i) == Cardinality({it \in L \ {top} : it.sent[k] <= i})
      full == {i \in 0 .. Repeat - 1 : cumul(i) >= maxBlocks}
  IN  IF full = {} THEN [max |-> Repeat, skip |-> 0]
      ELSE [max |-> Min(full), skip |-> cumul(Min(full)) - maxBlocks]

(* The items, besides the top one, that picoquic_format_ack_frame_in_      *)
(* context encodes when the packet has room for `room` more ranges.        *)
SelectedBelow(L, k, top, maxBlocks, room) ==
  LET sel == SelectMax(L, k, top, maxBlocks)
      eligible == {it \in L \ {top} : it.sent[k] <= sel.max}
      skipped == TopN({it \in eligible : it.sent[k] = sel.max}, sel.skip)
      n == IF room < maxBlocks THEN room ELSE maxBlocks
  IN  TopN(eligible \ skipped, n)

(* The highest item keeps at least its end.                                *)
TrimHighest(it, end) ==
  [it EXCEPT !.lo = IF end < it.hi THEN end + 1 ELSE it.hi]

(* Mutant: a matching start is enough to delete an item that has grown.    *)
MutAckOfAckEnd(L, F) ==
  LET hit(it) == {r \in F : r.lo = it.lo}
      high == {it \in L : IsHighest(L, it) /\ hit(it) # {}}
      gone == {it \in L : ~IsHighest(L, it) /\ hit(it) # {}}
  IN  (L \ (high \cup gone))
        \cup {TrimHighest(it, (CHOOSE r \in hit(it) : TRUE).hi) : it \in high}

(* picoquic_process_ack_of_ack_body on a whole frame F (a set of ranges).  *)
(* A range acts on the item that has its start: the highest item is        *)
(* trimmed but kept, another one is deleted when its end matches too.      *)
(* Ranges of one frame have distinct starts, and trimming raises a start   *)
(* above every range still to come, so the order does not matter.          *)
AckOfAck(L, F) ==
  LET hit(it) == {r \in F : r.lo = it.lo}
      high == {it \in L : IsHighest(L, it) /\ hit(it) # {}}
      gone == {it \in L : ~IsHighest(L, it) /\ \E r \in hit(it) : r.hi = it.hi}
  IN  (L \ (high \cup gone))
        \cup {TrimHighest(it, (CHOOSE r \in hit(it) : TRUE).hi) : it \in high}
=============================================================================
