--------------------------- MODULE NetworkThread ---------------------------
(***************************************************************************)
(* The packet loop of picoquic in a background thread (sockloop.c, with    *)
(* poll): an application thread starts it, wakes it up through a pipe and  *)
(* deletes it, while packets arrive and others become due.                 *)
(*                                                                         *)
(* A step is what the loop does between two accesses to the context that   *)
(* the threads share.  One UDP socket, no QMUX, no optional callbacks.     *)
(***************************************************************************)
EXTENDS Integers

CONSTANTS
  RecvMax,         \* PICOQUIC_PACKET_LOOP_RECV_MAX
  SendMax,         \* PICOQUIC_PACKET_LOOP_SEND_MAX
  EventBuf,        \* bytes of the pipe that one read takes
  MaxWakeUps,      \* bound: calls of picoquic_wake_up_network_thread
  MaxFaults        \* bound: failures of poll or of a receive

VARIABLES
  app,             \* where the application thread is, and its wake-ups
  ctx,             \* the thread context, shared
  pipe,            \* bytes in the pipe, and whether it is closed
  loop,            \* the local variables of the loop
  inbox,           \* a packet waits in the socket
  to_send,         \* packets that are due
  fault            \* failures so far that are not due to the deletion

vars == <<app, ctx, pipe, loop, inbox, to_send, fault>>

(* What a callback of the application returns.                             *)
Result == {"ok", "terminate", "simulate_nat", "error"}

Init ==
  /\ app = [at |-> "start", wake_ups |-> 0, posted |-> FALSE]
  /\ ctx = [wake_up_defined |-> FALSE, is_threaded |-> FALSE, is_ready |-> FALSE,
            should_close |-> FALSE, return_code |-> "ok", freed |-> FALSE]
  /\ pipe = [bytes |-> 0, closed |-> FALSE]
  /\ loop = [at |-> "none", i_poll |-> 0, listed |-> FALSE, events |-> {}, action |-> "none",
             immediate |-> FALSE, nb_immediate |-> 0, sent |-> 0, ret |-> "ok"]
  /\ inbox = FALSE /\ to_send = 0 /\ fault = 0
-----------------------------------------------------------------------------
(* The application thread.                                                 *)

(* picoquic_start_network_thread: no pipe leaves a context without thread, *)
(* no thread deletes the context.                                          *)
StartNetworkThread ==
  /\ app.at = "start"
  /\ UNCHANGED <<pipe, inbox, to_send, fault>>
  /\ \/ /\ app' = [app EXCEPT !.at = "running"]
        /\ ctx' = [ctx EXCEPT !.wake_up_defined = TRUE, !.is_threaded = TRUE]
        /\ loop' = [loop EXCEPT !.at = "starting"]
     \/ app' = [app EXCEPT !.at = "running"] /\ UNCHANGED <<ctx, loop>>
     \/ /\ app' = [app EXCEPT !.at = "delete"]
        /\ ctx' = [ctx EXCEPT !.wake_up_defined = TRUE]
        /\ UNCHANGED loop

WakeUpNetworkThread ==
  /\ app.at = "running" /\ app.wake_ups < MaxWakeUps
  /\ app' = [app EXCEPT !.wake_ups = @ + 1, !.posted = @ \/ ctx.wake_up_defined]
  /\ pipe' = [pipe EXCEPT !.bytes = IF ctx.wake_up_defined THEN @ + 1 ELSE @]
  /\ UNCHANGED <<ctx, loop, inbox, to_send, fault>>

(* picoquic_delete_network_thread, step by step.                           *)
DeleteNetworkThread ==
  /\ app.at = "running"
  /\ app' = [app EXCEPT !.at = "delete"]
  /\ UNCHANGED <<ctx, pipe, loop, inbox, to_send, fault>>

(* Mutant: the flag is not set.                                            *)
CloseUnannounced ==
  /\ app.at = "delete"
  /\ app' = [app EXCEPT !.at = "close"]
  /\ UNCHANGED <<ctx, pipe, loop, inbox, to_send, fault>>

SetShouldClose ==
  /\ app.at = "delete"
  /\ app' = [app EXCEPT !.at = "close"]
  /\ ctx' = [ctx EXCEPT !.should_close = TRUE]
  /\ UNCHANGED <<pipe, loop, inbox, to_send, fault>>

ClosePipe ==
  /\ app.at = "close"
  /\ app' = [app EXCEPT !.at = "undefine"]
  /\ pipe' = [pipe EXCEPT !.closed = ctx.wake_up_defined]
  /\ UNCHANGED <<ctx, loop, inbox, to_send, fault>>

UndefineWakeUp ==
  /\ app.at = "undefine"
  /\ app' = [app EXCEPT !.at = "join"]
  /\ ctx' = [ctx EXCEPT !.wake_up_defined = FALSE]
  /\ UNCHANGED <<pipe, loop, inbox, to_send, fault>>

JoinAndFree ==
  /\ app.at = "join" /\ (ctx.is_threaded => loop.at = "ended")
  /\ app' = [app EXCEPT !.at = "done"]
  /\ ctx' = [ctx EXCEPT !.freed = TRUE]
  /\ UNCHANGED <<pipe, loop, inbox, to_send, fault>>
-----------------------------------------------------------------------------
(* The loop, picoquic_packet_loop_v3.                                      *)

Local == <<app, pipe, inbox, to_send, fault>>   \* what most steps leave alone

(* The sockets may not open.  The result of the "port update" callback     *)
(* replaces that of "ready".                                               *)
OpenSockets ==
  /\ loop.at = "starting"
  /\ \E opened \in BOOLEAN, ready, port_update \in Result :
       LET ret == IF opened THEN port_update ELSE "error"
       IN  /\ loop' = [loop EXCEPT !.at = "top", !.ret = ret]
           /\ ctx' = [ctx EXCEPT !.is_ready = ret = "ok"]
           /\ fault' = IF ret = "ok" THEN fault ELSE fault + 1
  /\ UNCHANGED <<app, pipe, inbox, to_send>>

(* Mutant: the loop looks at the result of the callbacks only.             *)
TopBlind ==
  /\ loop.at = "top" /\ loop.ret = "ok"
  /\ loop' = [loop EXCEPT !.at = "listing", !.immediate = FALSE,
                          !.nb_immediate = IF loop.immediate THEN @ + 1 ELSE 1,
                          !.i_poll = IF ctx.wake_up_defined THEN 1 ELSE 0]
  /\ UNCHANGED <<ctx, Local>>

(* Mutant: the turns that only receive are not counted.                    *)
TopUncounted ==
  /\ loop.at = "top" /\ loop.ret = "ok" /\ ~ctx.should_close
  /\ loop' = [loop EXCEPT !.at = "listing", !.immediate = FALSE, !.nb_immediate = 1,
                          !.i_poll = IF ctx.wake_up_defined THEN 1 ELSE 0]
  /\ UNCHANGED <<ctx, Local>>

(* The head of the loop, up to the first reading of wake_up_defined.       *)
Top ==
  /\ loop.at = "top" /\ loop.ret = "ok" /\ ~ctx.should_close
  /\ loop' = [loop EXCEPT !.at = "listing", !.immediate = FALSE,
                          !.nb_immediate = IF loop.immediate THEN @ + 1 ELSE 1,
                          !.i_poll = IF ctx.wake_up_defined THEN 1 ELSE 0]
  /\ UNCHANGED <<ctx, Local>>

(* picoquic_packet_loop_set_fds: the pipe is the first of the list.        *)
SetFds ==
  /\ loop.at = "listing"
  /\ loop' = [loop EXCEPT !.at = "polling", !.listed = ctx.wake_up_defined]
  /\ UNCHANGED <<ctx, Local>>

Events ==
  (IF loop.listed /\ (pipe.bytes > 0 \/ pipe.closed) THEN {"pipe"} ELSE {})
    \cup (IF inbox THEN {"socket"} ELSE {})

PollReturns ==
  /\ loop.at = "polling" /\ Events # {}
  /\ loop' = [loop EXCEPT !.at = "checking", !.events = Events]
  /\ UNCHANGED <<ctx, Local>>

PollTimesOut ==
  /\ loop.at = "polling" /\ Events = {}
  /\ loop' = [loop EXCEPT !.at = "acting", !.action = "timeout"]
  /\ UNCHANGED <<ctx, Local>>

(* An interrupted poll, or a receive that fails.                           *)
PollFails ==
  /\ loop.at = "polling" /\ fault < MaxFaults
  /\ fault' = fault + 1
  /\ loop' = [loop EXCEPT !.at = "failed"]
  /\ UNCHANGED <<app, ctx, pipe, inbox, to_send>>

(* Mutant: the socket goes first.                                          *)
PipeFirstNot == ctx.wake_up_defined /\ loop.events = {"pipe"}

PipeFirst == ctx.wake_up_defined /\ "pipe" \in loop.events

(* The entries of the sockets are looked for after i_poll; a list without  *)
(* the pipe has them one place before.                                     *)
SocketSeen ==
  "socket" \in loop.events /\ loop.i_poll = (IF loop.listed THEN 1 ELSE 0)

CheckPipe ==
  /\ loop.at = "checking" /\ PipeFirst
  /\ loop' = [loop EXCEPT !.at = "reading"]
  /\ UNCHANGED <<ctx, Local>>

CheckSockets ==
  /\ loop.at = "checking" /\ ~PipeFirst
  /\ loop' = [loop EXCEPT !.at = "acting",
                          !.action = IF SocketSeen THEN "udp_received" ELSE "none"]
  /\ inbox' = (inbox /\ ~SocketSeen)
  /\ UNCHANGED <<app, ctx, pipe, to_send, fault>>

ReadPipe ==
  /\ loop.at = "reading" /\ ~pipe.closed
  /\ pipe' = [pipe EXCEPT !.bytes = IF @ > EventBuf THEN @ - EventBuf ELSE 0]
  /\ loop' = [loop EXCEPT !.at = "acting", !.action = "wake_up"]
  /\ UNCHANGED <<app, ctx, inbox, to_send, fault>>

ReadClosedPipe ==
  /\ loop.at = "reading" /\ pipe.closed
  /\ loop' = [loop EXCEPT !.at = "failed"]
  /\ UNCHANGED <<ctx, Local>>

(* "The interrupt error is expected if the loop is closing."               *)
WaitFailed ==
  /\ loop.at = "failed"
  /\ loop' = [loop EXCEPT !.at = "sending", !.sent = 0,
                          !.ret = IF ctx.should_close THEN "terminate" ELSE "error"]
  /\ UNCHANGED <<ctx, Local>>

(* What follows an action: another look at the sockets, or the sending.    *)
After(ret, immediate) ==
  [loop EXCEPT !.at = IF ret = "ok" /\ immediate THEN "top" ELSE "sending",
               !.immediate = immediate, !.sent = 0, !.ret = ret]

Quiet ==
  /\ loop.at = "acting" /\ loop.action \in {"none", "timeout"}
  /\ loop' = After("ok", FALSE)
  /\ UNCHANGED <<ctx, Local>>

Faulty(r) == fault' = IF r = "error" THEN fault + 1 ELSE fault

(* The callbacks give the connections something to send.                   *)
WakeUp ==
  /\ loop.at = "acting" /\ loop.action = "wake_up"
  /\ app' = [app EXCEPT !.posted = FALSE]
  /\ \E r \in Result : loop' = After(r, FALSE) /\ Faulty(r)
  /\ to_send' \in {to_send, 1}
  /\ UNCHANGED <<ctx, pipe, inbox>>

(* picoquic_packet_loop_udp_received.                                      *)
UdpReceived ==
  /\ loop.at = "acting" /\ loop.action = "udp_received"
  /\ \E r \in Result :
       loop' = After(r, r = "ok" /\ loop.nb_immediate < RecvMax) /\ Faulty(r)
  /\ to_send' \in {to_send, 1}
  /\ UNCHANGED <<app, ctx, pipe, inbox>>

(* Results that make the loop go on to send.                               *)
Sending == loop.at = "sending" /\ loop.ret \in {"ok", "simulate_nat"}

SendNext ==
  /\ Sending /\ loop.sent < SendMax /\ to_send > 0
  /\ loop' = [loop EXCEPT !.sent = @ + 1, !.ret = "ok"]
  /\ to_send' = to_send - 1
  /\ UNCHANGED <<app, ctx, pipe, inbox, fault>>

AfterSend ==
  /\ Sending /\ (loop.sent = SendMax \/ to_send = 0)
  /\ \E r \in Result :
       /\ loop' = [loop EXCEPT !.at = "top", !.ret = r]
       /\ fault' = IF r \in {"error", "simulate_nat"} THEN fault + 1 ELSE fault
  /\ UNCHANGED <<app, ctx, pipe, inbox, to_send>>

NothingSent ==
  /\ loop.at = "sending" /\ ~Sending
  /\ loop' = [loop EXCEPT !.at = "top"]
  /\ UNCHANGED <<ctx, Local>>

LoopEnds ==
  /\ loop.at = "top" /\ (loop.ret # "ok" \/ ctx.should_close)
  /\ loop' = [loop EXCEPT !.at = "ended"]
  /\ ctx' = [ctx EXCEPT !.is_ready = FALSE,
                        !.return_code = IF loop.ret = "terminate" THEN "ok" ELSE loop.ret]
  /\ UNCHANGED Local
-----------------------------------------------------------------------------
(* The network and the timers, while the loop runs.                        *)

PacketArrives ==
  /\ loop.at \notin {"none", "ended"} /\ ~inbox
  /\ inbox' = TRUE
  /\ UNCHANGED <<app, ctx, pipe, loop, to_send, fault>>

PacketIsDue ==
  /\ loop.at = "polling" /\ to_send = 0
  /\ to_send' = 1
  /\ UNCHANGED <<app, ctx, pipe, loop, inbox, fault>>

Deletion == SetShouldClose \/ ClosePipe \/ UndefineWakeUp \/ JoinAndFree

Loop ==
  \/ OpenSockets \/ Top \/ SetFds \/ PollReturns \/ PollTimesOut \/ PollFails
  \/ CheckPipe \/ CheckSockets \/ ReadPipe \/ ReadClosedPipe \/ WaitFailed
  \/ Quiet \/ WakeUp \/ UdpReceived \/ SendNext \/ AfterSend \/ NothingSent \/ LoopEnds

Next ==
  \/ StartNetworkThread \/ WakeUpNetworkThread \/ DeleteNetworkThread \/ Deletion
  \/ Loop \/ PacketArrives \/ PacketIsDue

Spec == Init /\ [][Next]_vars

(* Both threads are scheduled, and poll returns within ten seconds.        *)
Fairness == WF_vars(Deletion) /\ WF_vars(Loop)

FairSpec == Spec /\ Fairness
-----------------------------------------------------------------------------
Application ==
  [at : {"start", "running", "delete", "close", "undefine", "join", "done"},
   wake_ups : Nat, posted : BOOLEAN]

Context ==
  [wake_up_defined : BOOLEAN, is_threaded : BOOLEAN, is_ready : BOOLEAN,
   should_close : BOOLEAN, return_code : Result, freed : BOOLEAN]

LoopState ==
  [at : {"none", "starting", "top", "listing", "polling", "checking", "reading",
         "failed", "acting", "sending", "ended"},
   i_poll : 0..1, listed : BOOLEAN, events : SUBSET {"pipe", "socket"},
   action : {"none", "timeout", "udp_received", "wake_up"},
   immediate : BOOLEAN, nb_immediate : Nat, sent : Nat, ret : Result]

TypeOK ==
  /\ app \in Application /\ ctx \in Context /\ loop \in LoopState
  /\ pipe \in [bytes : Int, closed : BOOLEAN]
  /\ inbox \in BOOLEAN /\ to_send \in Int /\ fault \in Nat

Ended == loop.at \in {"none", "ended"}

(* Whatever the loop is doing when another thread deletes it, reading the  *)
(* closed pipe included, the deletion is not reported as an error.         *)
StopIsClean == loop.at = "ended" /\ ctx.return_code # "ok" => fault > 0

(* A wake-up is followed by its callback, even if packets never stop       *)
(* arriving, unless the loop is ending.                                    *)
WakeUpsAnswered == app.posted ~> (~app.posted \/ ctx.should_close \/ Ended)

(* Endless arrivals do not keep the loop from sending: after RecvMax turns *)
(* that only receive it sends (sockloop.c:2663), unless it ends.           *)
SendingHasItsTurn == (to_send > 0) ~> (loop.at = "sending" \/ Ended)

(* The deletion returns: the loop sees the flag in every state.            *)
DeletionReturns == (app.at = "delete") ~> (app.at = "done")
=============================================================================
