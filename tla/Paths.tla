------------------------------- MODULE Paths -------------------------------
(***************************************************************************)
(* The path of a connection when multipath is not negotiated: the address  *)
(* tuples that the server tries when a NAT moves its client, challenges    *)
(* and responses, and the connection identifiers of both ends, issued,     *)
(* stashed, rotated, deprecated and retired.                               *)
(*                                                                         *)
(* A packet carries one frame.  The network loses, delays and reorders     *)
(* packets, and each end may repeat a frame that has arrived.  The client  *)
(* has one tuple and does not know of the NAT; the server sees its packets *)
(* come from nat and reaches it only there.  A connection identifier is    *)
(* its sequence number, a challenge the number of the tuple it was drawn   *)
(* for.                                                                    *)
(***************************************************************************)
EXTENDS Integers, SequencesExt, FiniteSetsExt

CONSTANTS
  Limit,           \* active_connection_id_limit of both ends
  RepeatMax,       \* PICOQUIC_CHALLENGE_REPEAT_MAX
  Setups           \* bounds: see Setup

VARIABLES
  end,             \* what each end keeps of the path
  net,             \* packets on their way
  nat,             \* the address the client's packets come from
  left             \* how much of each bound is left

vars == <<end, net, nat, left>>

End == {"c", "s"}
Peer(e) == IF e = "c" THEN "s" ELSE "c"

(* How often the NAT moves the client to a new address or back to an old   *)
(* one, the client renews its identifier, those an end issued expire, a    *)
(* packet is lost, a timer expires while its packet is on the way; at       *)
(* which ends the application sends.                                       *)
Setup == [moves : Nat, returns : Nat, renewals : Nat, expiries : Nat, losses : Nat, early : Nat, data : SUBSET End]

None == 0 - 1

Data == [type |-> "data"]
NewId(seq, before) == [type |-> "new_connection_id", seq |-> seq, before |-> before]
Retire(seq) == [type |-> "retire_connection_id", seq |-> seq]
Challenge(n) == [type |-> "path_challenge", seq |-> n]
Response(n) == [type |-> "path_response", seq |-> n]

Tuple(addr, remote, local, n, verified) ==
  [addr |-> addr, remote |-> remote, local |-> local, challenge |-> n, verified |-> verified,
   failed |-> FALSE, count |-> 0, to_answer |-> None, respond |-> FALSE]

Stashed(seq, refs) ==
  [seq |-> seq, references |-> refs, needs_removal |-> FALSE, retire_sent |-> FALSE]

(* The handshake has verified the path: each end knows one identifier of   *)
(* the other.                                                              *)
Init ==
  /\ end = [e \in End |->
       [tuples |-> <<Tuple(0, 0, 0, 0, TRUE)>>, challenges |-> 1,
        stash |-> <<Stashed(0, 1)>>, retire_before |-> 0,
        own |-> {0}, sequence_next |-> 1, own_before |-> 0, expired |-> 0,
        misc |-> <<>>, unacked |-> {}, seen |-> {}, error |-> "none"]]
  /\ net = {} /\ nat = 0
  /\ left \in Setups

(* A packet of end e from its i-th tuple.                                  *)
Packet(e, x, i, frame) ==
  [to |-> Peer(e), addr |-> IF e = "c" THEN nat ELSE x.tuples[i].addr,
   id |-> x.tuples[i].remote, frame |-> frame]
-----------------------------------------------------------------------------
(* The stash of identifiers of the peer.                                   *)

Places(x) == DOMAIN x.stash
Available(x) == {j \in Places(x) : x.stash[j].references = 0 /\ ~x.stash[j].needs_removal}

(* picoquic_get_cnxid_from_stash.                                          *)
First(places) == Min(places)

(* Retire the j-th identifier, once.                                       *)
QueueRetire(x, j) ==
  IF x.stash[j].retire_sent THEN x
  ELSE [x EXCEPT !.stash[j].retire_sent = TRUE, !.misc = Append(@, x.stash[j].seq)]

ReleaseLast(x, remote) ==
  LET known == {j \in Places(x) : x.stash[j].seq = remote}
  IN  IF known = {} THEN x
      ELSE LET y == [x EXCEPT !.stash[First(known)].references = Max({@ - 1, 0})]
           IN  IF y.stash[First(known)].references > 0 THEN y ELSE QueueRetire(y, First(known))

(* picoquic_dereference_stashed_cnxid_tuple: the last reference stays.     *)
Dereference(x, remote) ==
  LET known == {j \in Places(x) : x.stash[j].seq = remote}
  IN  IF known = {} THEN x
      ELSE LET j == First(known)
           IN  IF x.stash[j].references <= 1 THEN QueueRetire(x, j)
               ELSE [x EXCEPT !.stash[j].references = @ - 1]

(* picoquic_renew_path_connection_id; migration is not disabled.           *)
Renewed(x) ==
  IF Available(x) = {} THEN x
  ELSE LET j == First(Available(x))
       IN  [Dereference(x, x.tuples[1].remote) EXCEPT
              !.tuples[1].remote = x.stash[j].seq, !.stash[j].references = @ + 1]

(* picoquic_assign_peer_cnxid_to_tuple for a tuple that is appended.       *)
WithTuple(x, addr) ==
  LET j == First(Available(x))
  IN  [x EXCEPT !.tuples = Append(@, Tuple(addr, x.stash[j].seq, None, x.challenges, FALSE)),
                !.challenges = @ + 1, !.stash[j].references = @ + 1]

(* picoquic_add_remote_cnxid_to_stash.                                     *)
AddToStash(x, seq, before) ==
  LET bound == IF before < x.retire_before THEN x.retire_before ELSE before
      old == {j \in Places(x) : x.stash[j].seq < bound \/ x.stash[j].retire_sent}
      received == Len(x.stash)
  IN  IF \E j \in Places(x) : x.stash[j].seq = seq THEN x
      ELSE IF received >= Limit + Cardinality(old) \/ received >= 2 * Limit
           THEN [x EXCEPT !.error = "connection_id_limit"]
           ELSE [x EXCEPT !.stash = Append(@, Stashed(seq, 0))]

Each(seq, Of(_)) == FoldLeft(LAMBDA done, v : Append(done, Of(v)), <<>>, seq)

MarkOld(x, before) ==
  LET Marked(s) == [s EXCEPT !.needs_removal = @ \/ s.seq < before]
  IN  [x EXCEPT !.stash = Each(@, Marked)]

RetireUnused(x) ==
  FoldLeft(LAMBDA y, j : IF y.stash[j].needs_removal /\ y.stash[j].references = 0
                         THEN QueueRetire(y, j) ELSE y,
           x, [j \in Places(x) |-> j])

(* picoquic_remove_not_before_from_stash: the default path must have a     *)
(* new identifier.                                                         *)
RemoveNotBefore(x, before) ==
  LET y == RetireUnused(MarkOld([x EXCEPT !.retire_before = before], before))
  IN  IF y.tuples[1].remote >= before THEN y
      ELSE IF Available(y) = {} THEN [y EXCEPT !.error = "no_new_identifier"]
      ELSE Renewed(y)
-----------------------------------------------------------------------------
(* Incoming packets.                                                       *)

At(x, e, addr) == {i \in DOMAIN x.tuples : e = "c" \/ x.tuples[i].addr = addr}

SetLocal(x, id) == [x EXCEPT !.tuples[1].local = id]

FindTupleOnly(e, x, addr, id) ==
  IF At(x, e, addr) = {} /\ Available(x) # {} THEN WithTuple(x, addr) ELSE x

(* picoquic_find_incoming_path: an unknown address is a new tuple, if an   *)
(* identifier is left for it; a new identifier on the first tuple is       *)
(* answered by the server with a new one.                                  *)
FindIncomingPath(e, x0, addr, id) ==
  LET x == IF x0.tuples[1].local = None THEN SetLocal(x0, id) ELSE x0
  IN  IF At(x, e, addr) = {}
      THEN IF Available(x) = {} THEN x ELSE WithTuple(x, addr)
      ELSE IF 1 \in At(x, e, addr) /\ x.tuples[1].local # id
           THEN IF e = "c" THEN SetLocal(x, id) ELSE Renewed(SetLocal(x, id))
           ELSE x

DecodeNewId(x, frame) ==
  LET y == AddToStash(x, frame.seq, frame.before)
  IN  IF y.error = "none" /\ y.retire_before < frame.before
      THEN RemoveNotBefore(y, frame.before) ELSE y

DetachLocal(x, seq) ==
  LET Without(t) == IF t.local = seq THEN [t EXCEPT !.local = None] ELSE t
  IN  [x EXCEPT !.tuples = Each(@, Without)]

(* picoquic_delete_local_cnxid_listed.                                     *)
DeleteLocal(x, seq) ==
  LET Without(t) == IF t.local = seq THEN [t EXCEPT !.local = None] ELSE t
  IN  [x EXCEPT !.own = @ \ {seq},
                !.expired = IF seq < x.own_before /\ @ > 0 THEN @ - 1 ELSE @,
                !.tuples = Each(@, Without)]

(* "Cannot delete path through which packet arrives."                      *)
DecodeRetire(x, seq) ==
  IF x.tuples[1].local = seq THEN [x EXCEPT !.error = "protocol_violation"]
  ELSE IF seq \in x.own THEN DeleteLocal(x, seq) ELSE x

DecodeChallenge(x, e, addr, n) ==
  IF At(x, e, addr) = {} THEN x
  ELSE LET i == First(At(x, e, addr))
       IN  [x EXCEPT !.tuples[i].to_answer = n, !.tuples[i].respond = TRUE]

MoveToFront(seq, i) == <<seq[i]>> \o RemoveAt(seq, i)
MoveToBack(seq, i) == Append(RemoveAt(seq, i), seq[i])

VerifiedOnly(x, n) ==
  [x EXCEPT !.tuples = [i \in DOMAIN @ |-> [@[i] EXCEPT !.verified = @ \/ x.tuples[i].challenge = n]]]

(* The tuple whose challenge is answered becomes the first.                *)
DecodeResponse(x, n) ==
  LET asked == {i \in DOMAIN x.tuples : x.tuples[i].challenge = n /\ ~x.tuples[i].verified}
  IN  IF asked = {} THEN x
      ELSE LET i == First(asked)
           IN  [x EXCEPT !.tuples = MoveToFront([@ EXCEPT ![i].verified = TRUE], i)]

DecodeFrame(e, x, addr, frame) ==
  CASE frame.type = "data" -> x
    [] frame.type = "new_connection_id" -> DecodeNewId(x, frame)
    [] frame.type = "retire_connection_id" -> DecodeRetire(x, frame.seq)
    [] frame.type = "path_challenge" -> DecodeChallenge(x, e, addr, frame.seq)
    [] frame.type = "path_response" -> DecodeResponse(x, frame.seq)

Types == {"data", "new_connection_id", "retire_connection_id", "path_challenge", "path_response"}
Repeatable == {"new_connection_id", "retire_connection_id", "path_response"}

(* A packet for an identifier that was deleted has no context.             *)
Incoming(e, x, p) ==
  IF p.id \notin x.own THEN x
  ELSE LET y == DecodeFrame(e, FindIncomingPath(e, x, p.addr, p.id), p.addr, p.frame)
       IN  [y EXCEPT !.seen = IF p.frame.type \in Repeatable THEN @ \cup {p.frame} ELSE @]

Reaches(p) == p.to = "s" \/ p.addr = nat
-----------------------------------------------------------------------------
(* Outgoing packets.                                                       *)

Alive == \A e \in End : end[e].error = "none"

Sends(e, x, i, frame) == net' = net \cup {Packet(e, x, i, frame)}

SendData(e) ==
  /\ e \in left.data /\ Packet(e, end[e], 1, Data) \notin net
  /\ Sends(e, end[e], 1, Data)
  /\ UNCHANGED <<end, nat, left>>

(* An identifier lives longer than any exchange of frames takes.           *)
CanExpire(x, before) ==
  /\ before - 1 \in x.own /\ before > x.own_before
  /\ \A e \in End : end[e].unacked = {} /\ end[e].misc = <<>>
  /\ \A p \in net : p.frame = Data

(* picoquic_format_new_local_id_as_needed: those before "before" have      *)
(* expired; the peer is given as many as it allows.                        *)
Expire(x, before) ==
  IF before = 0 THEN x
  ELSE [x EXCEPT !.expired = Cardinality({i \in x.own : i < before}), !.own_before = before]

NbPathTarget == 8   \* PICOQUIC_NB_PATH_TARGET: an end keeps at most one more

Needed(x) ==
  Max({0, Min({Limit, NbPathTarget + 1}) + x.expired - Cardinality(x.own)})

FormatNewLocalIds(e, before) ==
  LET x == Expire(end[e], before)
      new == {NewId(i, x.own_before) : i \in x.sequence_next..(x.sequence_next + Needed(x) - 1)}
  IN  /\ before > 0 => left.expiries > 0 /\ CanExpire(end[e], before)
      /\ new # {}
      /\ net' = net \cup {Packet(e, x, 1, f) : f \in new}
      /\ end' = [end EXCEPT ![e] = [x EXCEPT !.own = @ \cup {f.seq : f \in new},
                                             !.sequence_next = @ + Needed(x),
                                             !.unacked = @ \cup new]]
      /\ left' = [left EXCEPT !.expiries = IF before > 0 THEN @ - 1 ELSE @]
      /\ UNCHANGED nat

SendRetire(e) ==
  /\ end[e].misc # <<>>
  /\ LET frame == Retire(Head(end[e].misc))
     IN  /\ Sends(e, end[e], 1, frame)
         /\ end' = [end EXCEPT ![e].misc = Tail(@), ![e].unacked = @ \cup {frame}]
  /\ UNCHANGED <<nat, left>>

(* Nobody works on the frame any more: its timer expires.                  *)
InNet(e, f) == \E p \in net : p.to = Peer(e) /\ p.frame = f
Overdue(pending) == IF pending THEN left.early > 0 ELSE TRUE
Spend(pending) == left' = [left EXCEPT !.early = IF pending THEN @ - 1 ELSE @]

AnswerPending(e, n) ==
  \/ InNet(e, Challenge(n)) \/ InNet(Peer(e), Response(n)) \/ Response(n) \in end[Peer(e)].unacked
  \/ \E i \in DOMAIN end[Peer(e)].tuples :
       end[Peer(e)].tuples[i].respond /\ end[Peer(e)].tuples[i].to_answer = n

SendChallenge(e, i) ==
  LET t == end[e].tuples[i]
      pending == t.count > 0 /\ AnswerPending(e, t.challenge)
  IN  /\ ~t.verified /\ ~t.failed /\ t.count < RepeatMax
      /\ Overdue(pending) /\ Spend(pending)
      /\ Sends(e, end[e], i, Challenge(t.challenge))
      /\ end' = [end EXCEPT ![e].tuples[i].count = @ + 1]
      /\ UNCHANGED nat

ChallengeFails(e, i) ==
  LET t == end[e].tuples[i]
      pending == AnswerPending(e, t.challenge)
  IN  /\ ~t.verified /\ ~t.failed /\ t.count = RepeatMax
      /\ Overdue(pending) /\ Spend(pending)
      /\ end' = [end EXCEPT ![e].tuples = MoveToBack([@ EXCEPT ![i].failed = TRUE], i)]
      /\ UNCHANGED <<net, nat>>

SendResponse(e, i) ==
  LET t == end[e].tuples[i]
  IN  /\ t.respond /\ (i = 1 \/ ~t.failed)
      /\ Sends(e, end[e], i, Response(t.to_answer))
      /\ end' = [end EXCEPT ![e].tuples[i].respond = FALSE,
                            ![e].unacked = @ \cup {Response(t.to_answer)}]
      /\ UNCHANGED <<nat, left>>

(* picoquic_delete_demoted_tuples, after the demotion time.                *)
DeleteDemotedTuple(e, i) ==
  LET x == end[e]
  IN  /\ i > 1 /\ x.tuples[i].failed
      /\ end' = [end EXCEPT ![e] =
                   [Dereference(x, x.tuples[i].remote) EXCEPT !.tuples = RemoveAt(@, i)]]
      /\ UNCHANGED <<net, nat, left>>

(* After a long silence, or on request of the application.                 *)
RenewConnectionId ==
  /\ left.renewals > 0 /\ Available(end["c"]) # {}
  /\ end' = [end EXCEPT !["c"] = Renewed(@)]
  /\ left' = [left EXCEPT !.renewals = @ - 1]
  /\ UNCHANGED <<net, nat>>

(* The acknowledgement of a frame arrives.                                 *)
AckOf(x, f) ==
  [x EXCEPT !.unacked = @ \ {f},
            !.stash = IF f.type # "retire_connection_id" THEN @
                      ELSE SelectSeq(@, LAMBDA s : s.seq # f.seq)]

Acked(e, f) ==
  /\ f \in end[Peer(e)].seen
  /\ end' = [end EXCEPT ![e] = AckOf(@, f), ![Peer(e)].seen = @ \ {f}]
  /\ UNCHANGED <<net, nat, left>>

NeedsRepeat(e, x, f) ==
  CASE f.type = "new_connection_id" -> f.seq \in x.own
    [] f.type = "retire_connection_id" -> \E j \in Places(x) : x.stash[j].seq = f.seq
    [] f.type = "path_response" ->
         x.tuples[1].to_answer = f.seq /\ (x.tuples[1].verified \/ (e = "c" /\ ~x.tuples[1].failed))

(* A frame is found lost, rightly or not, and repeated if that still makes *)
(* sense.                                                                  *)
Lost(e, f) ==
  LET pending == InNet(e, f) \/ f \in end[Peer(e)].seen
  IN  /\ Overdue(pending) /\ Spend(pending)
      /\ IF NeedsRepeat(e, end[e], f)
         THEN Sends(e, end[e], 1, f) /\ UNCHANGED end
         ELSE end' = [end EXCEPT ![e].unacked = @ \ {f}] /\ UNCHANGED net
      /\ UNCHANGED nat

Receive(p) ==
  /\ net' = net \ {p}
  /\ end' = IF Reaches(p) THEN [end EXCEPT ![p.to] = Incoming(p.to, @, p)] ELSE end
  /\ UNCHANGED <<nat, left>>

Drop(p) ==
  /\ left.losses > 0
  /\ net' = net \ {p} /\ left' = [left EXCEPT !.losses = @ - 1]
  /\ UNCHANGED <<end, nat>>

(* The NAT.                                                                *)
Moves ==
  \/ /\ left.moves > 0
     /\ nat' = nat + 1
     /\ left' = [left EXCEPT !.moves = @ - 1]
     /\ UNCHANGED <<end, net>>
  \/ /\ left.returns > 0 /\ nat > 0
     /\ nat' = 0
     /\ left' = [left EXCEPT !.returns = @ - 1]
     /\ UNCHANGED <<end, net>>
-----------------------------------------------------------------------------
SendControl(e) ==
  \E i \in DOMAIN end[e].tuples :
    SendChallenge(e, i) \/ ChallengeFails(e, i) \/ SendResponse(e, i) \/ DeleteDemotedTuple(e, i)

Expiries == \E before \in 1..end["s"].sequence_next : FormatNewLocalIds("s", before)

Next ==
  /\ Alive
  /\ \/ \E e \in End :
          \/ SendData(e) \/ FormatNewLocalIds(e, 0)
          \/ SendRetire(e) \/ SendControl(e)
          \/ \E f \in end[e].unacked : Acked(e, f) \/ Lost(e, f)
     \/ RenewConnectionId \/ Expiries
     \/ \E p \in net : Receive(p) \/ Drop(p)
     \/ Moves

Spec == Init /\ [][Next]_vars

(* The application of the client sends, packets arrive, timers expire and  *)
(* acknowledgements come back.                                             *)
Works(e) ==
  /\ WF_vars(Alive /\ SendData(e))
  /\ WF_vars(Alive /\ (FormatNewLocalIds(e, 0) \/ SendRetire(e)))
  /\ WF_vars(Alive /\ SendControl(e))
  /\ WF_vars(Alive /\ \E f \in end[e].unacked : Acked(e, f) \/ Lost(e, f))
  /\ \A k \in Types : WF_vars(Alive /\ \E p \in net : p.to = e /\ p.frame.type = k /\ Receive(p))

FairSpec == Spec /\ \A e \in End : Works(e)
-----------------------------------------------------------------------------
TupleType ==
  [addr : Nat, remote : Nat, local : Nat \cup {None}, challenge : Nat, verified : BOOLEAN,
   failed : BOOLEAN, count : 0..RepeatMax, to_answer : Nat \cup {None}, respond : BOOLEAN]

TypeOK ==
  \A e \in End :
    /\ end[e].tuples \in Seq(TupleType) /\ end[e].tuples # <<>>
    /\ end[e].own \subseteq 0..end[e].sequence_next - 1 /\ end[e].expired \in 0..Cardinality(end[e].own)
    /\ Len(end[e].stash) <= 2 * Limit

(* An end never sends to an identifier that its peer has deleted: it       *)
(* retires one only when no tuple uses it, and does not take it up again.  *)
(* It does take it up again if a copy of NEW_CONNECTION_ID arrives after   *)
(* the RETIRE_CONNECTION_ID was acknowledged: the stash has no memory of   *)
(* what was retired (README, section 5); no setup of MCReady goes so far.  *)
IdentifiersLive ==
  \A e \in End : \A i \in DOMAIN end[e].tuples : end[e].tuples[i].remote \in end[Peer(e)].own

(* Every tuple has an identifier of its own, and it is still in the stash. *)
OwnIdentifiers ==
  \A e \in End :
    LET x == end[e]
    IN  /\ \A i, k \in DOMAIN x.tuples : i # k => x.tuples[i].remote # x.tuples[k].remote
        /\ \A i \in DOMAIN x.tuples : \E j \in Places(x) :
             x.stash[j].seq = x.tuples[i].remote /\ x.stash[j].references = 1
             /\ ~x.stash[j].retire_sent

(* Whatever is lost, late or repeated, neither end sees an error in what   *)
(* the other does.                                                         *)
NoPeerError == Alive

(* The server ends up sending to where a NAT has taken its client; it does *)
(* not follow it back to an address it has verified before.                *)
FollowsClient == <>[](nat > 0 => end["s"].tuples[1].addr = nat)

(* As long as they reach each other, both ends end up with an identifier   *)
(* to spare, unless the addresses of the past, which keep theirs, use all. *)
SparesReturn ==
  <>[](end["s"].tuples[1].addr = nat =>
         \A e \in End : Len(end[e].tuples) < Limit => Available(end[e]) # {})
=============================================================================
