--------------------------- MODULE SessionControl ---------------------------
(***************************************************************************)
(* The controller and the module manager behind it, as the events of the   *)
(* controller's entity meet them: a request for a session that finds the   *)
(* gate open is taken, and takes effect if there is such a session; one    *)
(* that finds the gate closed is only noted; the gate opens when the       *)
(* manager says that the session it runs is loaded.                        *)
(*                                                                         *)
(* ZeraModuleManager implements it with the manager itself, EventDispatch  *)
(* with what stands there for the manager.                                 *)
(***************************************************************************)
CONSTANTS SessionName, Session, NoSession

VARIABLES
    session,          \* the one the manager runs
    currentSession,   \* the one the controller has noted
    accepting,        \* the gate
    modulesPaused

ControlInit ==
    /\ session \in Session \cup {NoSession}
    /\ currentSession = NoSession
    /\ accepting = FALSE
    /\ modulesPaused = FALSE

(* The session is loaded.                                                  *)
Announce ==
    /\ accepting' = TRUE
    /\ currentSession' = session
    /\ UNCHANGED <<session, modulesPaused>>

Drop(s) ==
    /\ ~accepting
    /\ currentSession' = s
    /\ UNCHANGED <<session, accepting, modulesPaused>>

Take(s) ==
    /\ accepting
    /\ currentSession' = s
    /\ session' = IF s \in Session THEN s ELSE session
    /\ accepting' = FALSE
    /\ UNCHANGED modulesPaused

Pause ==
    /\ modulesPaused' \in BOOLEAN
    /\ UNCHANGED <<session, currentSession, accepting>>

ControlNext ==
    \/ Announce
    \/ \E s \in SessionName : Drop(s) \/ Take(s)
    \/ Pause

ControlSpec ==
    ControlInit /\ [][ControlNext]_<<session, currentSession, accepting, modulesPaused>>
=============================================================================
