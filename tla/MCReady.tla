------------------------------ MODULE MCReady -------------------------------
(***************************************************************************)
(* Instances for TLC of what changes under a connection that is ready: its *)
(* keys (KeyUpdate) or its path and identifiers (Paths).  The first state  *)
(* chooses one of them, the other stays in its initial state.              *)
(***************************************************************************)
EXTENDS KeyUpdate

CONSTANTS Limit, RepeatMax, Setups
VARIABLES part, path, net, nat, left

Path == INSTANCE Paths WITH end <- path

pathVars == <<path, net, nat, left>>
allVars == <<part, vars, pathVars>>

(* One setup of the path is enough while it is at rest.                    *)
ReadyInit ==
  /\ Init /\ Path!Init
  /\ \/ part = "path"
     \/ part = "keys" /\ left = CHOOSE case \in Setups : TRUE

ReadyNext ==
  /\ UNCHANGED part
  /\ \/ part = "keys" /\ Next /\ UNCHANGED pathVars
     \/ part = "path" /\ Path!Next /\ UNCHANGED vars

ReadySpec == ReadyInit /\ [][ReadyNext]_allVars

(* The path is at work as Paths says, when it is the part that runs.       *)
FairReadySpec ==
  ReadySpec /\ (part = "path" => \A e \in Path!End : Path!Works(e))
-----------------------------------------------------------------------------
Case(moves, returns, renewals, expiries, losses, early, data) ==
  [moves |-> moves, returns |-> returns, renewals |-> renewals, expiries |-> expiries,
   losses |-> losses, early |-> early, data |-> data]

Cases == {Case(1, 0, 0, 0, 1, 0, {"c"}), Case(1, 0, 0, 0, 0, 1, {"c"}), Case(1, 1, 0, 0, 0, 0, {"c"}),
          Case(0, 0, 1, 0, 0, 0, {"c"}), Case(0, 0, 1, 0, 1, 0, {}), Case(0, 0, 0, 1, 0, 0, {})}

MoveAndRenew == {Case(1, 0, 1, 0, 0, 0, {"c"})}
-----------------------------------------------------------------------------
(* An end never sends to an identifier that its peer has deleted           *)
(* (picoquic_remove_not_before_from_stash, picoquic_add_remote_cnxid_to_stash). *)
IdentifiersLive == Path!IdentifiersLive

(* Whatever is lost, late or repeated, neither end sees an error in what   *)
(* the other does (picoquic_find_incoming_path, picoquic_decode_retire_connection_id_frame). *)
NoPeerError == Path!NoPeerError

(* The server ends up sending to where a NAT has taken its client          *)
(* (picoquic_decode_path_response_frame).                                  *)
FollowsClient == Path!FollowsClient

(* Both ends end up with an identifier to spare, unless the addresses of   *)
(* the past use all (picoquic_format_new_local_id_as_needed).              *)
SparesReturn == part = "path" => Path!SparesReturn
=============================================================================
