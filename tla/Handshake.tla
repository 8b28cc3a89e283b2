----------------------------- MODULE Handshake -----------------------------
(***************************************************************************)
(* A connection from the first Initial to the deletion of its contexts:    *)
(* the states of picoquic_state_enum at both ends, the packets of the      *)
(* three number spaces, the keys that come and go, packets that arrive     *)
(* before their keys, losses and timers, the limit on what a server may    *)
(* send before it has heard twice from its client, and the four ways to    *)
(* end.                                                                    *)
(*                                                                         *)
(* A packet carries one frame at most and an acknowledgement.  A number    *)
(* space is acknowledged frame by frame: the copy of a frame in a later    *)
(* packet is the same frame.  TLS is what picoquic sees of picotls: which  *)
(* flight it accepts, which keys it installs, which flight it answers.     *)
(* 0-RTT, version negotiation and a busy server are left out, and a        *)
(* context that was deleted is not created a second time.                  *)
(***************************************************************************)
EXTENDS Integers, SequencesExt

CONSTANTS
  Setups,          \* what is configured, and bounds: see Setup
  MaxCredit        \* bound: datagrams the server may save up

VARIABLES
  cnx,             \* the two connection contexts
  net,             \* the packets on their way
  losses, early,   \* how much of each bound is left
  setup            \* what is configured: never changes

vars == <<cnx, net, losses, early, setup>>

Ends == {"c", "s"}

(* A server that validates addresses, or authenticates clients; the ends   *)
(* that may close or fail.  Bounds: packets of one end in the network,     *)
(* packets it loses, timers that expire while packets are on their way.    *)
Setup == [retry : BOOLEAN, auth : BOOLEAN, closing : SUBSET Ends,
          in_flight : Nat, losses : Nat, early : Nat]

Peer(e) == IF e = "c" THEN "s" ELSE "c"
Spaces == {"initial", "handshake", "application"}

(* The frames of each space; Rc and Rs are data of the application.  CH is *)
(* the client's hello, SH, SF1 and SF2 the flight of the server, CF the    *)
(* client's Finished.                                                      *)
Crypto == [initial |-> {"CH", "SH"}, handshake |-> {"SF1", "SF2", "CF"}, application |-> {}]
Frames == [initial |-> {"CH", "SH", "PI"}, handshake |-> {"SF1", "SF2", "CF", "PH"},
           application |-> {"DONE", "Rc", "Rs"}]
Closes == {"app_close", "conn_close"}
AllFrames == UNION {Frames[s] : s \in Spaces}
None == "none"

(* picoquic_state_enum: the code compares states by their rank.            *)
Rank == [client_init |-> 0, client_init_sent |-> 1, server_none |-> 5, server_init |-> 5,
         server_handshake |-> 6, client_handshake_start |-> 7, handshake_failure |-> 8,
         handshake_failure_resend |-> 9, client_almost_ready |-> 10, server_false_start |-> 11,
         server_almost_ready |-> 12, client_ready_start |-> 13, ready |-> 14,
         disconnecting |-> 15, closing_received |-> 16, closing |-> 17, draining |-> 18,
         disconnected |-> 19]
States == DOMAIN Rank

Packet == [src : Ends, space : Spaces, frame : AllFrames \cup Closes \cup {None},
           ack : SUBSET AllFrames, token : BOOLEAN]
Retry == [src |-> "s", space |-> "initial", frame |-> "RETRY", ack |-> {}, token |-> TRUE]

Connection ==
  [end : Ends, state : States, queue : Seq(AllFrames), pending : Seq(AllFrames),
   got : SUBSET AllFrames, heard : SUBSET Spaces, ack_needed : SUBSET Spaces, enc : SUBSET Spaces,
   dec : SUBSET Spaces, sooner : Seq(Packet), recycle : BOOLEAN, complete : BOOLEAN,
   validated : BOOLEAN, repeat : BOOLEAN, credit : 0 .. MaxCredit, token : BOOLEAN,
   is_ready : 0 .. 2, closed : 0 .. 2, informed : BOOLEAN]

Created(e) ==
  [end |-> e, state |-> IF e = "c" THEN "client_init" ELSE "server_none",
   queue |-> IF e = "c" THEN <<"CH", "Rc">> ELSE <<"Rs">>, pending |-> <<>>, got |-> {},
   heard |-> {}, ack_needed |-> {}, enc |-> {"initial"}, dec |-> {"initial"}, sooner |-> <<>>,
   recycle |-> FALSE, complete |-> FALSE, validated |-> e = "c", repeat |-> FALSE,
   credit |-> 0, token |-> FALSE, is_ready |-> 0, closed |-> 0, informed |-> FALSE]

Init ==
  /\ cnx = [e \in Ends |-> Created(e)]
  /\ net = {}
  /\ setup \in Setups
  /\ losses = setup.losses /\ early = setup.early

(* What a queue holds of some frames, in order.                            *)
Of(q, frames) ==
  LET of[n \in 0 .. Len(q)] == IF n = 0 THEN <<>>
                               ELSE IF q[n] \in frames THEN Append(of[n - 1], q[n])
                               ELSE of[n - 1]
  IN  of[Len(q)]

Without(q, frames) == Of(q, AllFrames \ frames)
Within(q, space) == Of(q, Frames[space])

Before(k, state) == Rank[k.state] < Rank[state]
IsClient(k) == k.end = "c"
Failing(k) == k.state \in {"handshake_failure", "handshake_failure_resend"}
-----------------------------------------------------------------------------
(* Transitions that several handlers make.                                 *)

Disconnect(k) ==
  IF k.state = "disconnected" THEN k
  ELSE [k EXCEPT !.state = "disconnected", !.closed = @ + 1, !.informed = TRUE]

ConnectionError(k) ==
  IF k.state \in {"ready", "client_ready_start", "server_false_start"}
  THEN [k EXCEPT !.state = "disconnecting"]
  ELSE IF Before(k, "server_false_start") /\ ~Failing(k)
  THEN [k EXCEPT !.state = "handshake_failure"]
  ELSE k

(* Packets of a space are taken out of the retransmission queue.           *)
ImplicitAck(k, space) == [k EXCEPT !.pending = Without(@, Frames[space])]
FreeKeys(k, spaces) == [k EXCEPT !.enc = @ \ spaces, !.dec = @ \ spaces,
                                 !.ack_needed = @ \ spaces]

ReadyStateTransition(k) ==
  LET acked == ImplicitAck(ImplicitAck(k, "initial"), "handshake")
      done == IF IsClient(k) THEN <<>> ELSE <<"DONE">>
  IN  FreeKeys([acked EXCEPT !.state = "ready", !.is_ready = @ + 1,
                             !.queue = done \o Within(@, "application")],
               {"initial", "handshake"})

FalseStartTransition(k) == [k EXCEPT !.state = "server_false_start"]

(* picoquic_reset_cnx, after a Retry.                                      *)
ResetCnx(k) ==
  [Created(k.end) EXCEPT !.state = k.state, !.token = TRUE]
-----------------------------------------------------------------------------
(* picoquic_tls_stream_process with what picotls does in it.               *)

Keys(k, enc, dec) ==
  [k EXCEPT !.enc = @ \cup enc, !.dec = @ \cup dec,
            !.recycle = @ \/ Before(k, "ready")]

(* The server reads the hello: its whole flight is ready to be sent.  With *)
(* client authentication it waits for the client's flight in all the same. *)
ServerHello(k) ==
  LET keyed == Keys(k, {"handshake", "application"}, {"handshake"})
  IN  [keyed EXCEPT !.queue = <<"SH", "SF1", "SF2">> \o @,
                    !.state = IF @ \in {"server_init", "server_handshake"}
                              THEN "server_almost_ready" ELSE @]

ClientFinished(k) ==
  LET keyed == Keys([k EXCEPT !.complete = TRUE], {}, {"application"})
  IN  IF ~setup.auth \/ k.state \notin {"server_init", "server_handshake"} THEN keyed
      ELSE FalseStartTransition(keyed)

ServerFinished(k) ==
  LET keyed == Keys([k EXCEPT !.complete = TRUE], {"application"}, {"application"})
  IN  [keyed EXCEPT !.queue = <<"CF">> \o @,
                    !.state = IF @ = "client_handshake_start" THEN "client_almost_ready" ELSE @]

(* The flight that the frame f completes, or nothing.  ok: picotls accepts *)
(* it.                                                                     *)
TlsStreamProcess(k, f, ok) ==
  IF f \notin UNION {Crypto[s] : s \in Spaces} THEN k
  ELSE IF ~ok THEN ConnectionError(k)
  ELSE IF f = "CH" THEN ServerHello(k)
  ELSE IF f = "SH" THEN Keys(k, {"handshake"}, {"handshake"})
  ELSE IF f = "CF" THEN ClientFinished(k)
  ELSE IF {"SF1", "SF2"} \subseteq k.got THEN ServerFinished(k)
  ELSE k
-----------------------------------------------------------------------------
(* The frames of a packet.                                                 *)

(* Mutant: any acknowledgement confirms the handshake.                     *)
DecodeAnyAck(k, p) ==
  LET acked == [k EXCEPT !.pending = Without(@, p.ack)]
  IN  IF acked # k /\ k.state \in {"client_ready_start", "server_false_start"}
      THEN ReadyStateTransition(acked)
      ELSE acked

DecodeAck(k, p) ==
  LET acked == [k EXCEPT !.pending = Without(@, p.ack)]
  IN  IF acked # k /\ p.space = "application"
         /\ k.state \in {"client_ready_start", "server_false_start"}
      THEN ReadyStateTransition(acked)
      ELSE acked

(* Mutant: the application is not told of the end that a close announces.  *)
DecodeConnectionCloseSilent(k) ==
  [k EXCEPT !.state = IF Before(k, "client_ready_start") THEN "disconnected" ELSE "closing_received"]

DecodeConnectionClose(k) ==
  IF Before(k, "client_ready_start") \/ "application" \notin k.dec
  THEN Disconnect(k)
  ELSE [k EXCEPT !.state = "closing_received"]

DecodeApplicationClose(k) ==
  [k EXCEPT !.state = IF Before(k, "client_ready_start") THEN "disconnected"
                      ELSE "closing_received",
            !.informed = TRUE]

DecodeHandshakeDone(k) ==
  IF k.state = "client_ready_start" THEN ReadyStateTransition(k)
  ELSE IF Before(k, "client_ready_start") THEN ConnectionError(k)
  ELSE k

(* picoquic_decode_frames.  A copy of a frame asks for an acknowledgement  *)
(* as the first one did.                                                   *)
DecodeFrames(k, p) ==
  LET a == DecodeAck([k EXCEPT !.heard = @ \cup {p.space}], p)
  IN  CASE p.frame = None -> a
        [] p.frame = "conn_close" -> DecodeConnectionClose(a)
        [] p.frame = "app_close" -> DecodeApplicationClose(a)
        [] OTHER ->
             LET b == [a EXCEPT !.got = @ \cup {p.frame},
                                !.ack_needed = @ \cup {p.space}]
             IN  IF p.frame = "DONE" THEN DecodeHandshakeDone(b) ELSE b

(* The packet is acknowledged and its content is not looked at.            *)
IgnoreIncomingHandshake(k, p) ==
  IF p.frame = None THEN [k EXCEPT !.heard = @ \cup {p.space}]
  ELSE [k EXCEPT !.heard = @ \cup {p.space}, !.ack_needed = @ \cup {p.space},
                 !.got = @ \cup ({p.frame} \ Closes)]

(* A frame whose bytes were all consumed moves TLS no further.             *)
Process(k, p, ok) ==
  LET d == DecodeFrames(k, p)
  IN  IF p.frame \in k.got THEN d ELSE TlsStreamProcess(d, p.frame, ok)
-----------------------------------------------------------------------------
(* The handlers, one for each kind of packet.  k is the connection before, *)
(* and what they return the connection after.                              *)

IncomingClientInitial(k, p, ok) ==
  LET k0 == [k EXCEPT !.state = IF @ = "server_none" THEN "server_init" ELSE @,
                      !.credit = IF @ + 3 > MaxCredit THEN MaxCredit ELSE @ + 3]
      again == ~k0.validated /\ Within(k0.pending, "initial") # <<>>
               /\ p.frame \in k0.got \cup {None, "PI"}
      k1 == [k0 EXCEPT !.repeat = @ \/ again]
  IN  IF Before(k1, "server_almost_ready") THEN Process(k1, p, ok)
      ELSE IF Before(k1, "ready") THEN IgnoreIncomingHandshake(k1, p)
      ELSE k1

IncomingServerInitial(k, p, ok) ==
  LET k0 == [k EXCEPT !.state = IF @ = "client_init_sent"
                                THEN "client_handshake_start" ELSE @]
  IN  IF Rank[k0.state] <= Rank["client_handshake_start"] THEN Process(k0, p, ok)
      ELSE IF Before(k0, "ready") THEN IgnoreIncomingHandshake(k0, p)
      ELSE k0

(* TLS moves only in handshake_start: elsewhere the frames are decoded.    *)
IncomingServerHandshake(k, p, ok) ==
  IF ~Before(k, "ready") THEN k
  ELSE IF k.state = "client_handshake_start" THEN Process(k, p, ok)
  ELSE DecodeFrames(k, p)

IncomingClientHandshake(k, p, ok) ==
  LET k0 == [k EXCEPT !.validated = TRUE, !.repeat = FALSE]
      d == DecodeFrames(k0, p)
      freed == FreeKeys(ImplicitAck(d, "initial"), {"initial"})
      t == IF p.frame \in k.got THEN freed ELSE TlsStreamProcess(freed, p.frame, ok)
  IN  IF Before(k0, "server_almost_ready")
      THEN IF Before(t, "ready") /\ t.complete THEN ReadyStateTransition(t) ELSE t
      ELSE IF Rank[k0.state] <= Rank["ready"] THEN IgnoreIncomingHandshake(k0, p)
      ELSE k0

Incoming1rtt(k, p) ==
  IF k.state \in {"closing", "disconnecting"}
  THEN IF p.frame \notin Closes THEN [k EXCEPT !.ack_needed = @ \cup {"application"}]
       ELSE IF IsClient(k) THEN Disconnect(k)
       ELSE [k EXCEPT !.state = "draining"]
  ELSE IF Before(k, "client_almost_ready") \/ ~Before(k, "disconnecting") THEN k
  ELSE DecodeFrames(k, p)

(* The client keeps the token, forgets what it sent and starts again.      *)
IncomingRetry(k) ==
  IF k.state = "client_init_sent" /\ ~k.token THEN ResetCnx(k) ELSE k

IncomingNotDecrypted(k, p) ==
  IF Before(k, "ready") /\ (p.space = "application" \/ (p.space = "handshake" /\ IsClient(k)))
          /\ p \notin ToSet(k.sooner)
  THEN [k EXCEPT !.sooner = <<p>> \o @]
  ELSE k

(* picoquic_incoming_segment, for a connection that exists.                *)
IncomingSegment(k, p, ok) ==
  IF p = Retry THEN IncomingRetry(k)
  ELSE IF p.space \notin k.dec THEN IncomingNotDecrypted(k, p)
  ELSE CASE p.space = "application" -> Incoming1rtt(k, p)
         [] p.space = "initial" /\ IsClient(k) -> IncomingServerInitial(k, p, ok)
         [] p.space = "initial" /\ ~IsClient(k) -> IncomingClientInitial(k, p, ok)
         [] p.space = "handshake" /\ IsClient(k) -> IncomingServerHandshake(k, p, ok)
         [] OTHER -> IncomingClientHandshake(k, p, ok)

(* TLS may refuse a flight only at an end that the run looks at failing.   *)
Accepted(e) == IF e \in setup.closing THEN BOOLEAN ELSE {TRUE}

(* A server that validates addresses answers a hello without a token with  *)
(* a Retry, and keeps nothing.                                             *)
Receive(p) ==
  LET e == Peer(p.src)
      k == cnx[e]
  IN  /\ p \in net
      /\ UNCHANGED <<losses, early, setup>>
      /\ IF k.state = "server_none" /\ (p.frame # "CH" \/ (setup.retry /\ ~p.token))
         THEN /\ net' = (net \ {p}) \cup (IF p.frame = "CH" THEN {Retry} ELSE {})
              /\ UNCHANGED cnx
         ELSE \E ok \in Accepted(e) :
                /\ cnx' = [cnx EXCEPT ![e] = IncomingSegment(k, p, ok)]
                /\ net' = net \ {p}
-----------------------------------------------------------------------------
(* What a connection sends.  A step of prepare returns the connection      *)
(* after and the packet, or Nothing.                                       *)

Nothing(k) == [cnx |-> k, sent |-> {}]

(* format_ack_frame, the frame itself, and its entry in the queue of       *)
(* packets that wait for their acknowledgement.  Closes are not repeated.  *)
Send(k, space, frame, with_ack) ==
  LET p == [src |-> k.end, space |-> space, frame |-> frame,
            ack |-> IF with_ack THEN k.got \cap Frames[space] ELSE {},
            token |-> frame = "CH" /\ k.token]
      pending == IF frame \in {None} \cup Closes THEN k.pending
                 ELSE Append(Without(k.pending, {frame}), frame)
  IN  [cnx |-> [k EXCEPT !.pending = pending,
                         !.ack_needed = IF with_ack THEN @ \ {space} ELSE @,
                         !.queue = Without(@, {frame})],
       sent |-> {p}]

Queued(k, space) == Within(k.queue, space)
Lost(k, space) == Within(k.pending, space)

(* picoquic_retransmit_needed: oldest first, when the timer has expired or *)
(* the peer repeats itself.                                                *)
Retransmits(k, space, expired) == (expired \/ k.repeat) /\ Lost(k, space) # <<>>
Retransmit(k, space) ==
  Send([k EXCEPT !.repeat = FALSE], space, Head(Lost(k, space)), TRUE)

(* picoquic_prepare_packet_old_context.                                    *)
OldContextNeeded(k, space, expired) ==
  space \in k.enc /\ (Retransmits(k, space, expired) \/ space \in k.ack_needed)
OldContext(k, space, expired) ==
  IF Retransmits(k, space, expired) THEN Retransmit(k, space)
  ELSE Send(k, space, None, TRUE)

(* Sending the last of a flight makes the client move on.                  *)
ClientProgress(k, space) ==
  IF Queued(k, space) # <<>> THEN k
  ELSE CASE k.state = "client_init" -> [k EXCEPT !.state = "client_init_sent"]
         [] k.state = "client_almost_ready" -> [k EXCEPT !.state = "client_ready_start"]
         [] OTHER -> k

ClientEpoch(k) ==
  IF Queued(k, "initial") = <<>> /\ "handshake" \in k.enc THEN "handshake" ELSE "initial"

(* Mutant: a client that owes nothing waits for the server.                *)
ForcePingNever(k, expired) == FALSE

(* The server may be waiting for the right to send: once the timer has     *)
(* expired, or when an Initial is owed an acknowledgement, something goes. *)
ForcePing(k, expired) ==
  IF ClientEpoch(k) = "initial" THEN expired /\ k.state # "client_init"
  ELSE "initial" \in k.ack_needed \/ (expired /\ Lost(k, "handshake") # <<>>)

(* picoquic_prepare_packet_client_init.                                    *)
PrepareClientInit(k, expired) ==
  LET epoch == ClientEpoch(k)
      queued == Queued(k, epoch)
      ping == IF epoch = "initial" THEN "PI" ELSE "PH"
      may_repeat == k.state \in {"client_init_sent", "client_handshake_start"}
      after(r) == IF epoch = "handshake"
                  THEN [r EXCEPT !.cnx.ack_needed = @ \ {"initial"}] ELSE r
      terminate(r) == IF epoch = "handshake"
                      THEN [r EXCEPT !.cnx = FreeKeys(ImplicitAck(@, "initial"), {"initial"})]
                      ELSE r
  IN  IF may_repeat /\ Retransmits(k, epoch, expired) THEN Retransmit(k, epoch)
      ELSE IF queued # <<>>
      THEN LET r == terminate(after(Send(k, epoch, Head(queued), epoch \in k.ack_needed)))
           IN  [r EXCEPT !.cnx = ClientProgress(@, epoch)]
      ELSE IF ForcePing(k, expired) THEN after(Send(k, epoch, ping, TRUE))
      ELSE IF epoch \in k.ack_needed THEN after(Send(k, epoch, None, TRUE))
      ELSE Nothing(k)

(* An unvalidated server sends three times what it received.               *)
MaySend(k) == k.validated \/ k.credit > 0
Spend(r) == IF r.cnx.validated \/ r.sent = {} THEN r ELSE [r EXCEPT !.cnx.credit = @ - 1]

ServerProgress(k, epoch) ==
  IF Queued(k, epoch) # <<>> THEN k
  ELSE IF epoch = "handshake" /\ ~setup.auth THEN FalseStartTransition(k)
  ELSE [k EXCEPT !.state = "server_handshake"]

(* picoquic_prepare_packet_server_init.                                    *)
PrepareServerInit(k, expired) ==
  LET epoch == ClientEpoch(k)
      queued == Queued(k, epoch)
  IN  IF ~MaySend(k) THEN Nothing(k)
      ELSE IF epoch = "handshake" /\ OldContextNeeded(k, "initial", expired)
      THEN Spend(OldContext(k, "initial", expired))
      ELSE IF queued # <<>>
      THEN LET r == Send(k, epoch, Head(queued), TRUE)
           IN  Spend([r EXCEPT !.cnx = ServerProgress(@, epoch)])
      ELSE IF epoch \in k.ack_needed THEN Spend(Send(k, epoch, None, TRUE))
      ELSE IF Retransmits(k, epoch, expired) THEN Spend(Retransmit(k, epoch))
      ELSE Nothing(k)

(* The last part of picoquic_prepare_packet_almost_ready, and              *)
(* picoquic_prepare_packet_ready: 1-RTT packets.                           *)
PrepareApplication(k, expired) ==
  LET queued == Queued(k, "application")
  IN  IF (IsClient(k) \/ k.state = "ready") /\ Retransmits(k, "application", expired)
      THEN Retransmit(k, "application")
      ELSE IF queued # <<>> THEN Send(k, "application", Head(queued), TRUE)
      ELSE IF "application" \in k.ack_needed THEN Send(k, "application", None, TRUE)
      ELSE Nothing(k)

PrepareAlmostReady(k, expired) ==
  IF ~MaySend(k) THEN Nothing(k)
  ELSE IF OldContextNeeded(k, "initial", expired) THEN Spend(OldContext(k, "initial", expired))
  ELSE IF OldContextNeeded(k, "handshake", expired) THEN Spend(OldContext(k, "handshake", expired))
  ELSE Spend(PrepareApplication(k, expired))

(* Mutant: a failure is an Initial, whoever reads them still.              *)
FailureInitial(k) ==
  IF k.state = "handshake_failure_resend" THEN "handshake" ELSE "initial"

(* Where a connection that failed says so.                                 *)
FailureSpace(k) ==
  IF k.state = "handshake_failure_resend" THEN "handshake"
  ELSE IF "handshake" \in k.enc \cap k.heard THEN "handshake"
  ELSE "initial"

(* picoquic_prepare_packet_closing.                                        *)
PrepareClosing(k, expired) ==
  CASE k.state = "handshake_failure" ->
         LET space == FailureSpace(k)
             r == Send(k, space, "conn_close", TRUE)
         IN  IF space = "initial" /\ "handshake" \in k.enc
             THEN [r EXCEPT !.cnx.state = "handshake_failure_resend"]
             ELSE [r EXCEPT !.cnx = Disconnect(@)]
    [] k.state = "handshake_failure_resend" ->
         LET r == Send(k, "handshake", "conn_close", TRUE)
         IN  [r EXCEPT !.cnx = Disconnect(@)]
    [] k.state = "disconnecting" ->
         LET r == Send(k, "application", "app_close", TRUE)
         IN  [r EXCEPT !.cnx.state = "closing",
                       !.cnx.ack_needed = @ \ {"application"}]
    [] k.state = "closing_received" ->
         LET r == Send(k, "application", "conn_close", FALSE)
         IN  [r EXCEPT !.cnx.state = "draining"]
    [] k.state = "closing" ->
         IF expired THEN Nothing(Disconnect(k))
         ELSE IF "application" \in k.ack_needed
         THEN Send([k EXCEPT !.ack_needed = @ \ {"application"}],
                   "application", "app_close", FALSE)
         ELSE Nothing(k)
    [] OTHER -> IF expired THEN Nothing(Disconnect(k)) ELSE Nothing(k)

(* picoquic_prepare_segment.                                               *)
PrepareSegment(k, expired) ==
  CASE k.state \in {"client_init", "client_init_sent", "client_handshake_start",
                    "client_almost_ready"} -> PrepareClientInit(k, expired)
    [] k.state \in {"server_init", "server_handshake", "server_almost_ready"} ->
         PrepareServerInit(k, expired)
    [] k.state = "server_false_start" /\ "application" \in k.dec ->
         PrepareApplication(ReadyStateTransition(k), expired)
    [] \/ k.state = "client_ready_start"
       \/ k.state = "server_false_start" /\ "application" \notin k.dec ->
         PrepareAlmostReady(k, expired)
    [] k.state = "ready" -> PrepareApplication(k, expired)
    [] k.state \in {"server_none", "disconnected"} -> Nothing(k)
    [] OTHER -> PrepareClosing(k, expired)

(* A packet that came too soon is tried again, and stays if it still lacks *)
(* its keys.                                                               *)
TryAgain(k, p, ok) ==
  IF p.space \in k.dec THEN IncomingSegment(k, p, ok)
  ELSE [k EXCEPT !.sooner = Append(@, p)]

(* All of them in turn, last first.                                        *)
ProcessSooner(k, ok) ==
  LET after[n \in 0 .. Len(k.sooner)] ==
        IF n = 0 THEN [k EXCEPT !.sooner = <<>>, !.recycle = FALSE]
        ELSE TryAgain(after[n - 1], k.sooner[n], ok)
  IN  after[Len(k.sooner)]

(* picoquic_prepare_packet_ex: the connection after, and what is sent.     *)
Prepared(k, expired, ok) ==
  PrepareSegment(IF k.recycle THEN ProcessSooner(k, ok) ELSE k, expired)
Prepares(k, expired, ok) == Prepared(k, expired, ok) # Nothing(k)

(* A timer is longer than the time a packet travels or waits to be sent,   *)
(* but for setup.early times.                                              *)
Timer(expired) ==
  LET waiting == net # {} \/ \E e \in Ends : Prepares(cnx[e], FALSE, TRUE)
  IN  IF expired /\ waiting THEN early > 0 /\ early' = early - 1
      ELSE UNCHANGED early

(* The network loses a packet as it is sent.                               *)
Carry(sent) ==
  \/ net' = net \cup sent /\ UNCHANGED losses
  \/ /\ sent # {} /\ losses > 0
     /\ losses' = losses - 1 /\ UNCHANGED net

(* A step that leaves the connection as it was and sends nothing is none.  *)
Prepare(e, expired) ==
  /\ Cardinality({p \in net : p.src = e}) < setup.in_flight
  /\ Timer(expired)
  /\ \E ok \in Accepted(e) :
       LET r == Prepared(cnx[e], expired, ok)
       IN  /\ Prepares(cnx[e], expired, ok)
           /\ cnx' = [cnx EXCEPT ![e] = r.cnx]
           /\ Carry(r.sent)
  /\ UNCHANGED setup
-----------------------------------------------------------------------------
(* The application and the world.                                          *)

(* picoquic_close_ex, from an application that does not close again a      *)
(* connection that is failing: each call would say the failure once more,  *)
(* and one that never stops calling would put off the end for ever.        *)
Close(e) ==
  /\ e \in setup.closing /\ cnx[e].state # "server_none"
  /\ Before(cnx[e], "disconnecting") /\ ~Failing(cnx[e])
  /\ cnx' = [cnx EXCEPT ![e].state =
               IF @ \in {"ready", "server_false_start", "client_ready_start"}
               THEN "disconnecting" ELSE "handshake_failure"]
  /\ UNCHANGED <<net, losses, early, setup>>

(* picoquic_close_immediate.                                               *)
CloseImmediate(e) ==
  /\ e \in setup.closing /\ cnx[e].state # "server_none" /\ Before(cnx[e], "draining")
  /\ cnx' = [cnx EXCEPT ![e].state = "draining"]
  /\ UNCHANGED <<net, losses, early, setup>>

(* picoquic_check_idle_timer: nobody is left to answer.                    *)
IdleTimeout(e) ==
  /\ net = {} /\ cnx[Peer(e)].state = "disconnected"
  /\ cnx[e].state \notin {"server_none", "disconnected"}
  /\ cnx' = [cnx EXCEPT ![e] = Disconnect(@)]
  /\ UNCHANGED <<net, losses, early, setup>>

Next ==
  \/ \E p \in net : Receive(p)
  \/ \E e \in Ends : \/ \E expired \in BOOLEAN : Prepare(e, expired)
                     \/ Close(e) \/ CloseImmediate(e) \/ IdleTimeout(e)

Spec == Init /\ [][Next]_vars

(* The packets that are not lost arrive, the connections are polled, and   *)
(* their timers expire.                                                    *)
Fairness ==
  /\ WF_vars(\E p \in net : Receive(p))
  /\ \A e \in Ends : /\ WF_vars(Prepare(e, FALSE))
                     /\ SF_vars(net = {} /\ Prepare(e, TRUE))
                     /\ SF_vars(IdleTimeout(e))

FairSpec == Spec /\ Fairness
-----------------------------------------------------------------------------
TypeOK ==
  /\ \A e \in Ends : cnx[e].end = e /\ cnx[e].state \in States /\ cnx[e].credit \in 0 .. MaxCredit
  /\ \A p \in net : p.src \in Ends /\ p.space \in Spaces
  /\ setup \in Setup /\ losses \in 0 .. setup.losses /\ early \in 0 .. setup.early

Closing(k) == Failing(k) \/ ~Before(k, "disconnecting")

(* A connection that is ready, at either end, had its peer finish TLS: the *)
(* client drops the keys of the handshake only when the server no longer   *)
(* needs them.                                                             *)
ReadyIsMutual ==
  \A e \in Ends : cnx[e].is_ready > 0 =>
    cnx[e].complete /\ cnx[Peer(e)].complete /\ cnx[e].is_ready = 1

(* A connection has the keys of the packet it is going to close with.      *)
CloseHasKeys ==
  \A e \in Ends :
    /\ Failing(cnx[e]) => FailureSpace(cnx[e]) \in cnx[e].enc
    /\ cnx[e].state \in {"disconnecting", "closing_received", "closing"}
         => "application" \in cnx[e].enc

(* The application hears of the end of each connection, and through the    *)
(* close callback once at most.                                            *)
EndIsReported ==
  \A e \in Ends : /\ cnx[e].closed <= 1
                  /\ cnx[e].state = "disconnected" => cnx[e].informed

(* Whatever is lost, and however little an unvalidated server may send,    *)
(* the two ends complete the handshake and each reads what the other sent, *)
(* the packets that came before their keys included; if one of them closes *)
(* or fails, both contexts come to their end.                              *)
Settles ==
  <>[](\/ /\ \A e \in Ends : cnx[e].state = "ready"
          /\ "Rs" \in cnx["c"].got /\ "Rc" \in cnx["s"].got
       \/ \A e \in Ends : cnx[e].state \in {"disconnected", "server_none"})

(* An end that closed or failed never becomes ready: the reason it gave is *)
(* not dropped.                                                            *)
FailureIsFinal ==
  [][\A e \in Ends : Closing(cnx[e]) => Closing(cnx[e])']_vars
=============================================================================
