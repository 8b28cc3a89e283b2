----------------------------- MODULE MCPrograms -----------------------------
(***************************************************************************)
(* Instances for TLC of the programs and of the loop that runs below them: *)
(* the echo server, hello_client with hello_server, or the packet loop in  *)
(* a thread.  The first state chooses one, the others are at rest.         *)
(***************************************************************************)
EXTENDS EchoServer

CONSTANTS ClientMsg, HelloWorldMsg, MaxRoom, MaxFaults,
          RecvMax, SendMax, EventBuf, MaxWakeUps, MaxThreadFaults
VARIABLES program,
          client, server, net, faults,
          app, ctx, pipe, loop, inbox, to_send, fault

Hello == INSTANCE HelloExchange
Thread == INSTANCE NetworkThread WITH MaxFaults <- MaxThreadFaults

helloVars == <<client, server, net, faults>>
threadVars == <<app, ctx, pipe, loop, inbox, to_send, fault>>
allVars == <<program, vars, helloVars, threadVars>>

(* Enough bytes on the first stream to double the buffer twice, one byte   *)
(* on the other.                                                           *)
OneLong == [s \in Streams |-> IF s = 0 THEN MaxBytes ELSE 1]

EchoAtRest ==
  /\ stream = [s \in Streams |-> Deleted]
  /\ heap = [a \in Addresses |-> Free]
  /\ stream_head = Null
  /\ state = "closed"

HelloAtRest ==
  /\ client = [state |-> "closed", is_active |-> FALSE, msg_sent |-> TRUE, done |-> TRUE,
               answer |-> HelloWorldMsg, told |-> TRUE, loop |-> "exited"]
  /\ server = [state |-> "closed", callback |-> FALSE, srv_ctx |-> "none", heap |-> {},
               stream |-> FALSE, app_stream_ctx |-> FALSE, is_active |-> FALSE,
               hello_sent |-> TRUE, request |-> ClientMsg]
  /\ net = [request |-> ClientMsg, answer |-> HelloWorldMsg, close |-> {}]
  /\ faults = 0

(* A thread that was not started is at rest.                               *)
ProgramsInit ==
  /\ Thread!Init
  /\ \/ program = "echo" /\ Init /\ HelloAtRest
     \/ program = "hello" /\ EchoAtRest /\ Hello!Init
     \/ program = "thread" /\ EchoAtRest /\ HelloAtRest

ProgramsNext ==
  /\ UNCHANGED program
  /\ \/ program = "echo" /\ Next /\ UNCHANGED <<helloVars, threadVars>>
     \/ program = "hello" /\ Hello!Next /\ UNCHANGED <<vars, threadVars>>
     \/ program = "thread" /\ Thread!Next /\ UNCHANGED <<vars, helloVars>>

ProgramsSpec ==
  /\ ProgramsInit /\ [][ProgramsNext]_allVars
  /\ Fairness /\ Hello!Fairness /\ Thread!Fairness
-----------------------------------------------------------------------------
(* When its connection is closed the server holds no context any more, and *)
(* no callback can reach one (hello_server_callback).                      *)
NothingLeaks == Hello!NothingLeaks

(* The client leaves its loop and the server closes the connection,        *)
(* whatever is lost or fails; without a fault each has the message of the  *)
(* other, or as much of it as its packet had room for, and the client has  *)
(* sent its close (hello_client_loop_cb, hello_server_callback).           *)
ExchangeEnds == Hello!ExchangeEnds

(* Whatever the loop is doing when another thread deletes it, the deletion *)
(* is not reported as an error (picoquic_packet_loop_v3).                  *)
StopIsClean == Thread!StopIsClean

(* A wake-up is followed by its callback, even if packets never stop       *)
(* arriving (picoquic_wake_up_network_thread).                             *)
WakeUpsAnswered == Thread!WakeUpsAnswered

(* Packets that never stop arriving do not keep the loop from sending what *)
(* is due (picoquic_packet_loop_v3).                                       *)
SendingHasItsTurn == Thread!SendingHasItsTurn

(* The deletion of the thread returns (picoquic_delete_network_thread).    *)
DeletionReturns == Thread!DeletionReturns
=============================================================================
