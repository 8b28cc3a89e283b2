--------------------------- MODULE HelloExchange ---------------------------
(***************************************************************************)
(* hello_client.c and hello_server.c on one connection: the client opens a *)
(* stream, sends its message and a FIN when it is polled, the server       *)
(* answers in the same way, and the client closes the connection and       *)
(* leaves its packet loop.                                                 *)
(*                                                                         *)
(* The transport delivers what is sent on a stream; a close is sent once   *)
(* and may be lost.  A message is its length: each is cut to the room that *)
(* the packet has left when its end is polled.                             *)
(***************************************************************************)
EXTENDS Integers, FiniteSets

CONSTANTS
  ClientMsg, HelloWorldMsg,   \* lengths of CLIENT_MSG and HELLO_WORLD_MSG
  MaxRoom,                    \* bound: room in a packet
  MaxFaults                   \* bound: failed allocations, lost closes, timeouts

VARIABLES
  client,      \* its connection, hello_client_ctx_t and packet loop
  server,      \* its connection and the contexts of hello_server.c
  net,         \* what is on its way: lengths of messages, closes
  faults

vars == <<client, server, net, faults>>

None == -1

Init ==
  /\ client = [state |-> "connecting", is_active |-> FALSE, msg_sent |-> FALSE, done |-> FALSE,
               answer |-> None, told |-> FALSE, loop |-> "waiting"]
  /\ server = [state |-> "connecting", callback |-> TRUE, srv_ctx |-> "default", heap |-> {},
               stream |-> FALSE, app_stream_ctx |-> FALSE, is_active |-> FALSE,
               hello_sent |-> FALSE, request |-> None]
  /\ net = [request |-> None, answer |-> None, close |-> {}]
  /\ faults = 0

Fault == faults < MaxFaults /\ faults' = faults + 1
Least(m, n) == IF m < n THEN m ELSE n
-----------------------------------------------------------------------------
(* hello_client_callback and hello_client_loop_cb.                         *)

Running == client.loop # "exited"
Receiving == client.loop = "waiting"   \* the loop takes events

(* picoquic_callback_ready                                                 *)
ClientReady ==
  /\ Receiving /\ client.state = "connecting" /\ server.state # "closed"
  /\ client' = [client EXCEPT !.state = "ready", !.is_active = TRUE]
  /\ UNCHANGED <<server, net, faults>>

(* picoquic_callback_stream_fin: the answer is there.                      *)
ClientFin ==
  /\ Receiving /\ client.state = "ready" /\ net.answer # None
  /\ client' = [client EXCEPT !.answer = net.answer, !.done = TRUE, !.state = "disconnecting"]
  /\ UNCHANGED <<server, net, faults>>

(* Mutant: the loop is not told that the connection is gone.               *)
StillWaiting == client' = [client EXCEPT !.state = "closed", !.is_active = FALSE]

(* picoquic_callback_close and its like.                                   *)
ClientClosed == client' = [client EXCEPT !.state = "closed", !.done = TRUE, !.is_active = FALSE]

ClientReceivesClose ==
  /\ Receiving /\ client.state # "closed" /\ "s" \in net.close
  /\ ClientClosed
  /\ UNCHANGED <<server, net, faults>>

(* An idle timeout; it is no fault when the server is gone.                *)
ClientTimesOut ==
  /\ Running /\ client.state # "closed"
  /\ IF server.state = "closed" THEN UNCHANGED faults ELSE Fault
  /\ ClientClosed
  /\ UNCHANGED <<server, net>>

(* One turn of the packet loop: the client polls its stream and sends what *)
(* is due; packet_loop_after_send comes next.                              *)
ClientSends(room) ==
  LET polled == client.state = "ready" /\ client.is_active /\ ~client.msg_sent
      closing == client.state = "disconnecting" /\ ~client.told
  IN  /\ client.loop = "waiting"
      /\ client' = [client EXCEPT !.loop = "sent",
                                  !.msg_sent = @ \/ polled, !.is_active = @ /\ ~polled,
                                  !.told = @ \/ closing]
      /\ net' = [net EXCEPT !.request = IF polled THEN Least(ClientMsg, room) ELSE @,
                            !.close = IF closing THEN @ \cup {"c"} ELSE @]
      /\ UNCHANGED <<server, faults>>

AfterSend ==
  /\ client.loop = "sent"
  /\ client' = [client EXCEPT !.loop = IF client.done THEN "exited" ELSE "waiting"]
  /\ UNCHANGED <<server, net, faults>>
-----------------------------------------------------------------------------
(* hello_server_callback.                                                  *)

(* picoquic_callback_almost_ready: like every event it starts with the     *)
(* context of the connection.  Without memory the connection is closed.    *)
ServerReady ==
  /\ server.state = "connecting"
  /\ \/ /\ server' = [server EXCEPT !.state = "ready", !.srv_ctx = "own", !.heap = {"ctx"}]
        /\ UNCHANGED faults
     \/ Fault /\ server' = [server EXCEPT !.state = "disconnecting"]
  /\ UNCHANGED <<client, net>>

(* picoquic_callback_stream_fin, with the message: the context of the      *)
(* stream is allocated and the stream is to be polled.                     *)
ServerFin ==
  /\ server.state = "ready" /\ net.request # None /\ server.request = None
  /\ \/ /\ server' = [server EXCEPT !.request = net.request, !.heap = @ \cup {"stream"},
                                    !.stream = TRUE, !.app_stream_ctx = TRUE, !.is_active = TRUE]
        /\ UNCHANGED faults
     \/ Fault /\ server' = [server EXCEPT !.request = net.request, !.state = "disconnecting"]
  /\ UNCHANGED <<client, net>>

(* picoquic_callback_prepare_to_send                                       *)
ServerPolled(room) ==
  /\ server.state = "ready" /\ server.is_active
  /\ server' = [server EXCEPT !.is_active = FALSE, !.hello_sent = TRUE]
  /\ net' = [net EXCEPT !.answer = Least(HelloWorldMsg, room)]
  /\ UNCHANGED <<client, faults>>

(* Mutant: the context of the stream is forgotten.                         *)
FreeConnection(x) ==
  [x EXCEPT !.heap = @ \ {"ctx"}, !.stream = FALSE, !.srv_ctx = "none", !.callback = FALSE]

FreeContexts(x) ==
  [x EXCEPT !.heap = @ \ ({"ctx"} \cup (IF x.stream THEN {"stream"} ELSE {})),
            !.stream = FALSE, !.srv_ctx = "none", !.callback = FALSE]

(* picoquic_callback_close and its like.  A connection without context     *)
(* allocates it to free it; if that fails the callback stays.              *)
ServerClosed ==
  LET x == [server EXCEPT !.state = "closed", !.is_active = FALSE]
  IN  \/ server' = FreeContexts(x)
      \/ server.srv_ctx = "default" /\ server' = x

ServerReceivesClose ==
  /\ server.state # "closed" /\ "c" \in net.close
  /\ ServerClosed
  /\ UNCHANGED <<client, net, faults>>

(* An idle timeout; it is no fault when the client is gone.                *)
ServerTimesOut ==
  /\ server.state \in {"connecting", "ready"}
  /\ IF Running /\ client.state # "closed" THEN Fault ELSE UNCHANGED faults
  /\ ServerClosed
  /\ UNCHANGED <<client, net>>

(* What a failed callback leaves: the close is sent, later the connection  *)
(* is disconnected.                                                        *)
ServerDisconnects ==
  /\ server.state = "disconnecting"
  /\ ServerClosed
  /\ net' = [net EXCEPT !.close = @ \cup {"s"}]
  /\ UNCHANGED <<client, faults>>
-----------------------------------------------------------------------------
LoseClose ==
  /\ net.close # {}
  /\ Fault /\ net' = [net EXCEPT !.close = {}]
  /\ UNCHANGED <<client, server>>

Steps ==
  \/ ClientReady \/ ClientFin \/ ClientReceivesClose \/ AfterSend
  \/ \E room \in 0..MaxRoom : ClientSends(room) \/ ServerPolled(room)
  \/ ServerReady \/ ServerFin \/ ServerReceivesClose \/ ServerDisconnects

Next == Steps \/ ClientTimesOut \/ ServerTimesOut \/ LoseClose

Spec == Init /\ [][Next]_vars

(* The loops run, and read what has arrived before a turn ends; a timer of *)
(* a connection whose peer is gone expires.                                *)
Fairness ==
  /\ SF_vars(ClientReady) /\ SF_vars(ClientFin) /\ SF_vars(ClientReceivesClose)
  /\ WF_vars(\E room \in 0..MaxRoom : ClientSends(room)) /\ WF_vars(AfterSend)
  /\ WF_vars(ServerReady) /\ WF_vars(ServerFin) /\ WF_vars(\E room \in 0..MaxRoom : ServerPolled(room))
  /\ WF_vars(ServerReceivesClose) /\ WF_vars(ServerDisconnects)
  /\ WF_vars(ClientTimesOut /\ UNCHANGED faults) /\ WF_vars(ServerTimesOut /\ UNCHANGED faults)

FairSpec == Spec /\ Fairness
-----------------------------------------------------------------------------
TypeOK ==
  /\ client \in [state : {"connecting", "ready", "disconnecting", "closed"}, is_active : BOOLEAN,
                 msg_sent : BOOLEAN, done : BOOLEAN, answer : None..HelloWorldMsg, told : BOOLEAN,
                 loop : {"waiting", "sent", "exited"}]
  /\ server \in [state : {"connecting", "ready", "disconnecting", "closed"}, callback : BOOLEAN,
                 srv_ctx : {"default", "own", "none"}, heap : SUBSET {"ctx", "stream"},
                 stream : BOOLEAN, app_stream_ctx : BOOLEAN, is_active : BOOLEAN,
                 hello_sent : BOOLEAN, request : None..ClientMsg]
  /\ net \in [request : None..ClientMsg, answer : None..HelloWorldMsg, close : SUBSET {"c", "s"}]
  /\ faults \in 0..MaxFaults

(* When its connection is closed the server holds no context any more, and *)
(* no callback can reach one (hello_server_callback).                      *)
NothingLeaks ==
  server.state = "closed" =>
    server.heap = {} /\ (server.app_stream_ctx => ~server.callback)

(* The client leaves its loop and the server closes the connection,        *)
(* whatever is lost or fails; without a fault the client has an answer to  *)
(* a request that the server has read, each perhaps cut to the room of its *)
(* packet, and has sent its close before it left (hello_client_loop_cb,    *)
(* hello_server_callback).                                                 *)
ExchangeEnds ==
  <>[](/\ ~Running /\ server.state = "closed"
       /\ faults = 0 => client.answer # None /\ server.request # None /\ client.told)
=============================================================================
