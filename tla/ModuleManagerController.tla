----------------------- MODULE ModuleManagerController -----------------------
(***************************************************************************)
(* The ModuleManagerController (modulemanagercontroller.cpp), the event    *)
(* system of entity 0: clients switch the session and pause the modules by *)
(* setting its components Session and ModulesPaused.                       *)
(*                                                                         *)
(* The components it merely publishes or confirms (Entities,               *)
(* SessionsAvailable, LoggedComponents, Error_Messages, addresses) change  *)
(* none of its decisions and are left out.                                 *)
(***************************************************************************)
CONSTANT SessionName    \* what a client may write to Session

VARIABLES
    currentSession,
    sessionReady,       \* the gate: a request is only passed on while it is open
    modulesPaused

controllerVars == <<currentSession, sessionReady, modulesPaused>>

ControllerInit(none) ==
    /\ currentSession = none
    /\ sessionReady = FALSE
    /\ modulesPaused = FALSE

(* sigModulesLoaded -> initializeEntity: the entity is published again and *)
(* the gate opened.                                                        *)
initializeEntity(path) ==
    /\ sessionReady' = TRUE
    /\ currentSession' = path
    /\ UNCHANGED modulesPaused

(* processEvent, a client sets Session: the request is stored whether or   *)
(* not it is passed on.  What follows the emission of sigChangeSession is  *)
(* afterChangeSession.                                                     *)
requestSession(s) ==
    /\ currentSession' = s
    /\ UNCHANGED <<sessionReady, modulesPaused>>

(* Faulty variant: the gate stays open.                                    *)
afterChangeSession_Open == UNCHANGED controllerVars

afterChangeSession ==
    /\ sessionReady' = FALSE
    /\ UNCHANGED <<currentSession, modulesPaused>>

(* processEvent, a client sets ModulesPaused: sigModulesPausedChanged is   *)
(* emitted when the value is new.                                          *)
pausedChanges(paused) == paused # modulesPaused

storePaused(paused) ==
    /\ modulesPaused' = paused
    /\ UNCHANGED <<currentSession, sessionReady>>
=============================================================================
