---------------------------- MODULE EventDispatch ----------------------------
(***************************************************************************)
(* The way of an event through the program (ModuleEventHandler's           *)
(* customEvent): events are posted to a queue; one after the other is      *)
(* shown to the arbitration system, then to the controller, which confirms *)
(* a request by rewriting it into a notification, handles it and posts     *)
(* another event, or swallows it; the storage keeps what a notification    *)
(* says, and that is what clients see.                                     *)
(*                                                                         *)
(* With nothing reserved the arbitration lets everything pass, and this is *)
(* the program as it is built without DEVICE_ARBITRATION.  Events that     *)
(* change nothing here are left out: requests to fetch, to subscribe and   *)
(* to introspect, which always pass, and those for other entities.         *)
(***************************************************************************)
EXTENDS PriorityArbitration, ModuleManagerController, Sequences

CONSTANTS
    Session,        \* the session files, among the names clients may set
    NoSession,      \* nothing is loaded
    Message,        \* the error messages
    Call,           \* the calls of a run
    Procedure,      \* call -> what its client may call: names and parameters
    MaxQueue,       \* bound on the events that wait
    MaxMessages     \* bound on the error messages of a run

ASSUME DispatchAssumption ==
    /\ Session \subseteq SessionName
    /\ NoSession \notin SessionName
    /\ MaxQueue \in Nat
    /\ MaxMessages \in Nat

VARIABLES
    queue,                  \* the events posted and not handled
    m_notificationMessages,
    published,              \* what the storage holds of the controller's entity
    answer,                 \* call -> the result its client has got
    session,                \* the module manager: the session it runs,
    loading                 \* and whether it has yet to say that it is loaded

vars == <<m_priorityArbitrationMap, controllerVars, queue, m_notificationMessages,
          published, answer, session, loading>>

Code == {"PAS_SUCCESS", "PAS_UNAVAILABLE", "PAS_EINVAL", "unknown"}

(* The result of a call copies what the client sent: the id it chose for   *)
(* the call, and the parameters.                                           *)
Request == [name : {"arbitrationAdd", "arbitrationRemove", "other"},
            callId : Uid, uid : Uid \cup {NoUid}, priority : Priority]
Result == [code : Code, request : Request]
NoResult == [code |-> "none"]

ASSUME ProcedureAssumption == Procedure \in [Call -> SUBSET Request]

(* Requests to set a component of the controller or of the arbitration     *)
(* system (the program's own requests have no peer), calls, and            *)
(* notifications.                                                          *)
Event ==
    [kind : {"Session"}, peer : Peer, session : SessionName]
    \cup [kind : {"ModulesPaused"}, peer : Peer, paused : BOOLEAN]
    \cup [kind : {"Error_Messages"}, peer : Peer \cup {NoUid}, message : Message]
    \cup [kind : {"ClientPriorityList"}]
    \cup [kind : {"Call"}, call : Call, request : Request]
    \cup [kind : {"SessionSet"}, session : SessionName \cup {NoSession}]
    \cup [kind : {"MessagesSet"}, messages : Seq(Message)]
    \cup [kind : {"Result"}, call : Call, result : Result]
    \cup [kind : {"Error"}]

DispatchTypeOK ==
    /\ ArbitrationTypeOK
    /\ currentSession \in SessionName \cup {NoSession}
    /\ sessionReady \in BOOLEAN
    /\ modulesPaused \in BOOLEAN
    /\ queue \in Seq(Event)
    /\ Len(queue) <= MaxQueue
    /\ m_notificationMessages \in Seq(Message)
    /\ published \in [session : SessionName \cup {NoSession}, paused : BOOLEAN,
                      messages : Seq(Message)]
    /\ answer \in [Call -> Result \cup {NoResult}]
    /\ session \in Session \cup {NoSession}
    /\ loading \in BOOLEAN

Waiting(kind) == {i \in DOMAIN queue : queue[i].kind = kind}

(* initOnce has been published before the first client can connect; what   *)
(* the manager loaded until then was announced to nobody.                  *)
Init ==
    /\ ArbitrationInit
    /\ ControllerInit(NoSession)
    /\ queue = <<>>
    /\ m_notificationMessages = <<>>
    /\ published = [session |-> NoSession, paused |-> FALSE, messages |-> <<>>]
    /\ answer = [c \in Call |-> NoResult]
    /\ session \in Session \cup {NoSession}
    /\ loading = TRUE

----------------------------------------------------------------------------
(* What comes from outside the event loop: clients' requests and calls,    *)
(* the logger's errors, the manager.                                       *)
Post(e) ==
    /\ Len(queue) < MaxQueue
    /\ queue' = Append(queue, e)

RoomForMessage ==
    Len(m_notificationMessages) + Cardinality(Waiting("Error_Messages")) < MaxMessages

ClientSets(peer) ==
    /\ \/ \E s \in SessionName :
             Post([kind |-> "Session", peer |-> peer, session |-> s])
       \/ \E paused \in BOOLEAN :
             Post([kind |-> "ModulesPaused", peer |-> peer, paused |-> paused])
       \/ RoomForMessage /\ \E m \in Message :
             Post([kind |-> "Error_Messages", peer |-> peer, message |-> m])
       \/ Post([kind |-> "ClientPriorityList"])
    /\ UNCHANGED <<m_priorityArbitrationMap, controllerVars, m_notificationMessages,
                   published, answer, session, loading>>

(* main's errorReportFunction.                                             *)
ReportError(m) ==
    /\ RoomForMessage
    /\ Post([kind |-> "Error_Messages", peer |-> NoUid, message |-> m])
    /\ UNCHANGED <<m_priorityArbitrationMap, controllerVars, m_notificationMessages,
                   published, answer, session, loading>>

(* A call is on its way as a call or as a result.                          *)
OnItsWay(c) == {i \in Waiting("Call") \cup Waiting("Result") : queue[i].call = c}

ClientCalls(c) ==
    /\ answer[c] = NoResult /\ OnItsWay(c) = {}
    /\ \E request \in Procedure[c] : Post([kind |-> "Call", call |-> c, request |-> request])
    /\ UNCHANGED <<m_priorityArbitrationMap, controllerVars, m_notificationMessages,
                   published, answer, session, loading>>

(* sigModulesLoaded -> initializeEntity.                                   *)
ModulesLoaded ==
    /\ initializeEntity(session)
    /\ Post([kind |-> "SessionSet", session |-> session])
    /\ loading' = FALSE
    /\ UNCHANGED <<m_priorityArbitrationMap, m_notificationMessages, published, answer,
                   session>>

----------------------------------------------------------------------------
(* customEvent: the first event is handled, and a handler posts further    *)
(* ones.                                                                   *)
Handled(posted) == queue' = Tail(queue) \o posted

Setting(e) == e.kind \in {"Session", "ModulesPaused", "Error_Messages"}

(* The arbitration system drops a request and tells the client.            *)
ArbitrationDrops(e) ==
    /\ Setting(e)
    /\ Dropped(e.peer)
    /\ Handled(<<[kind |-> "Error"]>>)
    /\ UNCHANGED <<m_priorityArbitrationMap, controllerVars, m_notificationMessages,
                   published, answer, session, loading>>

(* It swallows requests to set its own components.                         *)
ArbitrationSwallows(e) ==
    /\ e.kind = "ClientPriorityList"
    /\ Handled(<<>>)
    /\ UNCHANGED <<m_priorityArbitrationMap, controllerVars, m_notificationMessages,
                   published, answer, session, loading>>

(* rpcFinished.  Faulty variant: a refused call gets no answer.            *)
rpcFinished_Success(c, code, request) ==
    Handled(IF code = "PAS_SUCCESS"
            THEN <<[kind |-> "Result", call |-> c,
                    result |-> [code |-> code, request |-> request]]>>
            ELSE <<>>)

rpcFinished(c, code, request) ==
    Handled(<<[kind |-> "Result", call |-> c,
               result |-> [code |-> code, request |-> request]]>>)

ArbitrationAdds(e) ==
    /\ e.kind = "Call" /\ e.request.name = "arbitrationAdd"
    /\ arbitrationAdd(e.request.uid, e.request.priority)
    /\ rpcFinished(e.call, AddResult(e.request.uid, e.request.priority), e.request)
    /\ UNCHANGED <<controllerVars, m_notificationMessages, published, answer, session,
                   loading>>

ArbitrationRemoves(e) ==
    /\ e.kind = "Call" /\ e.request.name = "arbitrationRemove"
    /\ arbitrationRemove(e.request.callId, e.request.uid)
    /\ rpcFinished(e.call, RemoveResult(e.request.callId, e.request.uid), e.request)
    /\ UNCHANGED <<controllerVars, m_notificationMessages, published, answer, session,
                   loading>>

(* A procedure it does not have is answered with an error that carries the *)
(* call.                                                                   *)
ArbitrationUnknown(e) ==
    /\ e.kind = "Call" /\ e.request.name = "other"
    /\ Handled(<<[kind |-> "Result", call |-> e.call,
                  result |-> [code |-> "unknown", request |-> e.request]]>>)
    /\ UNCHANGED <<m_priorityArbitrationMap, controllerVars, m_notificationMessages,
                   published, answer, session, loading>>

Passes(e) == Setting(e) /\ ~Dropped(e.peer)

(* The controller swallows a request for the session: what clients see of  *)
(* it changes when the manager says that the session is loaded.  Faulty    *)
(* variant: the request is confirmed as that for ModulesPaused is.         *)
SessionConfirmed_Rewritten(s) == published' = [published EXCEPT !.session = s]
SessionConfirmed(s) == UNCHANGED published

ControllerDropsSession(e) ==
    /\ Passes(e) /\ e.kind = "Session"
    /\ ~sessionReady
    /\ requestSession(e.session)
    /\ SessionConfirmed(e.session)
    /\ Handled(<<>>)
    /\ UNCHANGED <<m_priorityArbitrationMap, m_notificationMessages, answer, session,
                   loading>>

(* While the gate is open it asks the manager, and closes the gate when    *)
(* the emission returns.  The manager may refuse, or take the request; it  *)
(* may say so from inside the emission.  Faulty variant: it refuses as if  *)
(* its lock were held.                                                     *)
ManagerRefuses_Locked(s) ==
    /\ Handled(<<>>)
    /\ UNCHANGED <<session, loading>>

ManagerRefuses(s) ==
    /\ s = session \/ s \notin Session
    /\ Handled(<<>>)
    /\ UNCHANGED <<session, loading>>

ManagerSwitches(s) ==
    /\ s # session /\ s \in Session
    /\ session' = s
    /\ \/ Handled(<<>>) /\ loading' = TRUE
       \/ Handled(<<[kind |-> "SessionSet", session |-> s]>>) /\ loading' = FALSE

ControllerChangesSession(e) ==
    /\ Passes(e) /\ e.kind = "Session"
    /\ sessionReady
    /\ currentSession' = e.session
    /\ ManagerRefuses(e.session) \/ ManagerSwitches(e.session)
    /\ sessionReady' = FALSE
    /\ SessionConfirmed(e.session)
    /\ UNCHANGED <<m_priorityArbitrationMap, modulesPaused, m_notificationMessages, answer>>

(* It confirms a request for ModulesPaused, and the storage, which comes   *)
(* behind it, keeps the value.                                             *)
ControllerPauses(e) ==
    /\ Passes(e) /\ e.kind = "ModulesPaused"
    /\ storePaused(e.paused)
    /\ published' = [published EXCEPT !.paused = e.paused]
    /\ Handled(<<>>)
    /\ UNCHANGED <<m_priorityArbitrationMap, m_notificationMessages, answer, session,
                   loading>>

(* It appends a message and posts all of them.  Faulty variant: it posts   *)
(* what was there before.                                                  *)
handleNotificationMessage_Old(m) ==
    /\ m_notificationMessages' = Append(m_notificationMessages, m)
    /\ Handled(<<[kind |-> "MessagesSet", messages |-> m_notificationMessages]>>)

handleNotificationMessage(m) ==
    /\ m_notificationMessages' = Append(m_notificationMessages, m)
    /\ Handled(<<[kind |-> "MessagesSet", messages |-> m_notificationMessages']>>)

ControllerTakesMessage(e) ==
    /\ Passes(e) /\ e.kind = "Error_Messages"
    /\ handleNotificationMessage(e.message)
    /\ UNCHANGED <<m_priorityArbitrationMap, controllerVars, published, answer, session,
                   loading>>

(* Notifications reach the storage, results and errors the clients.        *)
StorageStores(e) ==
    /\ \/ /\ e.kind = "SessionSet"
          /\ published' = [published EXCEPT !.session = e.session]
       \/ /\ e.kind = "MessagesSet"
          /\ published' = [published EXCEPT !.messages = e.messages]
    /\ Handled(<<>>)
    /\ UNCHANGED <<m_priorityArbitrationMap, controllerVars, m_notificationMessages,
                   answer, session, loading>>

ClientGets(e) ==
    /\ \/ /\ e.kind = "Result"
          /\ answer' = [answer EXCEPT ![e.call] = e.result]
       \/ /\ e.kind = "Error"
          /\ UNCHANGED answer
    /\ Handled(<<>>)
    /\ UNCHANGED <<m_priorityArbitrationMap, controllerVars, m_notificationMessages,
                   published, session, loading>>

customEvent(e) ==
    \/ ArbitrationDrops(e)
    \/ ArbitrationSwallows(e)
    \/ ArbitrationAdds(e)
    \/ ArbitrationRemoves(e)
    \/ ArbitrationUnknown(e)
    \/ ControllerDropsSession(e)
    \/ ControllerChangesSession(e)
    \/ ControllerPauses(e)
    \/ ControllerTakesMessage(e)
    \/ StorageStores(e)
    \/ ClientGets(e)

Dispatch == queue # <<>> /\ customEvent(Head(queue))

Next ==
    \/ Dispatch
    \/ \E peer \in Peer : ClientSets(peer)
    \/ \E c \in Call : ClientCalls(c)
    \/ \E m \in Message : ReportError(m)
    \/ ModulesLoaded

Spec == Init /\ [][Next]_vars

----------------------------------------------------------------------------
(* What clients see of the controller is what it has, or an event that     *)
(* says so is on its way and no later one takes it back: no message that   *)
(* was shown disappears, and the pause is shown at once.                   *)
Extends(later, earlier) ==
    Len(earlier) <= Len(later) /\ \A i \in 1..Len(earlier) : earlier[i] = later[i]

Newest(i, sent) == i \in sent /\ \A j \in sent : j <= i

ShownIsKept ==
    LET sent == Waiting("MessagesSet")
    IN /\ published.paused = modulesPaused
       /\ \/ sent = {} /\ published.messages = m_notificationMessages
          \/ \E i \in sent : Newest(i, sent) /\ queue[i].messages = m_notificationMessages
       /\ \A i \in sent : Extends(queue[i].messages, published.messages)
       /\ \A i, j \in sent : i < j => Extends(queue[j].messages, queue[i].messages)

(* Once the manager has announced a session, what clients see as the       *)
(* session is the one that runs, or the event that says so is the last one *)
(* on its way, whatever requests were dropped or refused meanwhile.        *)
SessionShown ==
    LET sent == Waiting("SessionSet")
    IN ~loading => \/ sent = {} /\ published.session = session
                   \/ \E i \in sent : Newest(i, sent) /\ queue[i].session = session

(* The results of calls that were handled, whether or not they have        *)
(* arrived.                                                                *)
Results(c) ==
    {answer[c]} \cup {queue[i].result : i \in Waiting("Result") \cap OnItsWay(c)}

Success(name) == [code : {"PAS_SUCCESS"}, request : {r \in Request : r.name = name}]

(* The calls that reserved a level for a uid, and those that gave one up.  *)
Succeeded(name, uid) ==
    {c \in Call : \E result \in Results(c) \cap Success(name) : result.request.uid = uid}

Granted(uid) == Succeeded("arbitrationAdd", uid)
GivenUp(uid) == Succeeded("arbitrationRemove", uid)

(* Whoever is told that a level is reserved for a uid can count on it      *)
(* until a call with that uid as its id gives a level of the uid up, and   *)
(* each such call costs the uid one level.  (Nobody is told of the calls   *)
(* of others: a client that uses the uid of another as a call id gives up  *)
(* what is not its own.)                                                   *)
GrantedHolds ==
    /\ \A c \in Call : \A result \in Results(c) \cap Success("arbitrationAdd") :
          GivenUp(result.request.uid) # {}
              \/ /\ result.request.priority \in Reserved
                 /\ m_priorityArbitrationMap[result.request.priority] = result.request.uid
    /\ \A c \in Call : \A result \in Results(c) \cap Success("arbitrationRemove") :
          result.request.callId = result.request.uid
    /\ \A uid \in Uid :
          Cardinality(LevelsOf(uid)) + Cardinality(GivenUp(uid)) = Cardinality(Granted(uid))

(* From the time a client is told that it has the best level until a call  *)
(* with its uid as id gives a level up, no request of another, posted      *)
(* before or after, switches the session, pauses the modules or adds a     *)
(* message.                                                                *)
HighestDecides ==
    [][\A c \in Call :
          /\ answer[c] \in Success("arbitrationAdd")
          /\ answer[c].request.priority = 0
          /\ GivenUp(answer[c].request.uid) = {}
          /\ <<session, modulesPaused, m_notificationMessages>>
                # <<session, modulesPaused, m_notificationMessages>>'
          => Head(queue).peer = answer[c].request.uid]_vars

(* The procedures keep the contract of remote procedures, from the time    *)
(* the client sends the call.                                              *)
Status == [c \in Call |-> IF answer[c] # NoResult THEN "answered"
                          ELSE IF OnItsWay(c) # {} THEN "pending" ELSE "none"]

Contract == INSTANCE RemoteCalls
                WITH Result <- {}, status <- Status, streamed <- [c \in Call |-> {}]

KeepsContract == Contract!Spec

(* With what this module takes for the module manager the controller keeps *)
(* SessionControl, as it does in ZeraModuleManager with the manager        *)
(* itself: a request that passes the gate takes effect whenever there is   *)
(* such a session, and the gate opens on the session that runs.            *)
ControlPart == INSTANCE SessionControl WITH accepting <- sessionReady

KeepsControl == ControlPart!ControlSpec
=============================================================================
