------------------------- MODULE PriorityArbitration -------------------------
(***************************************************************************)
(* The PriorityArbitrationSystem (priorityarbitrationsystem.cpp).  Clients *)
(* reserve priority levels by remote procedures; while a level is          *)
(* reserved, only the client of the best one (the smallest number) may     *)
(* change settings of the other entities.                                  *)
(*                                                                         *)
(* The ids of clients and calls and the uid parameter of the procedures    *)
(* are all QUuids.  A client chooses the id of a call as freely as its     *)
(* parameters: it may use the id of a client, its own or another's, and    *)
(* use it again.  m_pendingRpcHash holds a call only inside the procedure  *)
(* that answers it, and so is no variable.                                 *)
(***************************************************************************)
EXTENDS Integers, FiniteSetsExt

CONSTANTS
    Uid,        \* the QUuids that are not null
    NoUid,      \* the null one, or a parameter that is no QUuid
    Peer,       \* the clients, by the id the network knows them by
    Priority    \* what clients ask for; a missing or negative value is refused

ASSUME ArbitrationAssumption ==
    /\ Peer \subseteq Uid
    /\ NoUid \notin Uid
    /\ Priority \subseteq Int

VARIABLE m_priorityArbitrationMap   \* level -> the uid it is reserved for

Reserved == DOMAIN m_priorityArbitrationMap

ArbitrationTypeOK ==
    /\ Reserved \in SUBSET {priority \in Priority : priority >= 0}
    /\ m_priorityArbitrationMap \in [Reserved -> Uid]

ArbitrationInit == m_priorityArbitrationMap = <<>>

(* QMap::first(): the value of the smallest key.                           *)
(* Faulty variant: the value of the largest key.                           *)
Highest_Last == m_priorityArbitrationMap[Max(Reserved)]
Highest == m_priorityArbitrationMap[Min(Reserved)]

(* processEvent, the arbitration check of a request to set a component.    *)
Dropped(peer) == Reserved # {} /\ Highest # peer

(* arbitrationAdd.                                                         *)
(* Faulty variant: a level is taken that is reserved already.              *)
AddResult_Again(uid, priority) ==
    IF priority < 0 \/ uid = NoUid THEN "PAS_EINVAL" ELSE "PAS_SUCCESS"

AddResult(uid, priority) ==
    CASE priority < 0          -> "PAS_EINVAL"
      [] priority \in Reserved -> "PAS_UNAVAILABLE"
      [] OTHER                 -> IF uid = NoUid THEN "PAS_EINVAL" ELSE "PAS_SUCCESS"

arbitrationAdd(uid, priority) ==
    m_priorityArbitrationMap' =
       IF AddResult(uid, priority) = "PAS_SUCCESS"
       THEN [level \in Reserved \cup {priority} |->
               IF level = priority THEN uid ELSE m_priorityArbitrationMap[level]]
       ELSE m_priorityArbitrationMap

(* arbitrationRemove gives up the best level of a uid, if the id of the    *)
(* call is that uid; which client sends the call is not looked at.         *)
LevelsOf(uid) == {level \in Reserved : m_priorityArbitrationMap[level] = uid}

RemoveResult(callId, uid) ==
    IF uid # NoUid /\ LevelsOf(uid) # {} /\ callId = uid
    THEN "PAS_SUCCESS" ELSE "PAS_EINVAL"

arbitrationRemove(callId, uid) ==
    m_priorityArbitrationMap' =
       IF RemoveResult(callId, uid) = "PAS_SUCCESS"
       THEN [level \in Reserved \ {Min(LevelsOf(uid))} |-> m_priorityArbitrationMap[level]]
       ELSE m_priorityArbitrationMap
=============================================================================
