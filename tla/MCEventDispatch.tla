--------------------------- MODULE MCEventDispatch ---------------------------
(***************************************************************************)
(* An instance of EventDispatch for TLC: two clients and two levels.  The  *)
(* id p of the first client is also the id of calls, of its own or of the  *)
(* other's, which give up a level of p: one of one, one of two, or none.   *)
(***************************************************************************)
EXTENDS EventDispatch, TLC

CONSTANTS p, q, c1, c2, c3

MCUid == {p, q}
MCPriority == -1..1

Req(name, callId, uid, priority) ==
    [name |-> name, callId |-> callId, uid |-> uid, priority |-> priority]

MCProcedure ==
    c1 :> {Req("arbitrationAdd", p, p, 0)}
    @@ c2 :> {Req("arbitrationAdd", q, p, 1), Req("arbitrationAdd", q, NoUid, -1),
              Req("arbitrationRemove", p, p, 0)}
    @@ c3 :> {Req("arbitrationRemove", p, p, 0), Req("arbitrationRemove", q, p, 0),
              Req("arbitrationAdd", q, q, 1), Req("other", q, NoUid, 0)}
=============================================================================
