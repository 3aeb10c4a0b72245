------------------------- MODULE EventDispatch_proofs -------------------------
(***************************************************************************)
(* Proofs about the way of an event through the program, for any clients,  *)
(* calls, levels, sessions and messages and a queue of any length.         *)
(***************************************************************************)
EXTENDS EventDispatch, FiniteSetTheorems, TLAPS

(* The smallest of the levels there are.                                   *)
LEMMA Smallest ==
    ASSUME NEW levels \in SUBSET Nat, levels # {}
    PROVE  Min(levels) \in levels /\ \A level \in levels : Min(levels) <= level
<1>1. \E x \in levels : \A y \in levels : ~(<<y, x>> \in OpToRel(<, Nat))
  BY NatLessThanWellFounded, WFMin
<1>2. PICK x \in levels : \A y \in levels : ~(<<y, x>> \in OpToRel(<, Nat))
  BY <1>1
<1>3. ASSUME NEW y \in levels, y < x
      PROVE  FALSE
  <2>1. <<y, x>> \in {ss \in Nat \X Nat : ss[1] < ss[2]}
    BY <1>3
  <2>2. <<y, x>> \in OpToRel(<, Nat)
    BY <2>1, Zenon DEF OpToRel
  <2> QED
    BY <1>2, <2>2
<1>4. x \in levels /\ \A y \in levels : x <= y
  BY <1>3
<1> QED
  BY <1>4, Zenon DEF Min

(***************************************************************************)
(* The queue: an event is posted; the first one is handled and none, or    *)
(* one, is posted.                                                         *)
(***************************************************************************)
Posted(e) ==
    /\ queue' \in Seq(Event)
    /\ Len(queue') = Len(queue) + 1
    /\ \A i \in 1..Len(queue) : queue'[i] = queue[i]
    /\ queue'[Len(queue) + 1] = e

HandledNone ==
    /\ queue' \in Seq(Event)
    /\ Len(queue) > 0
    /\ Len(queue') = Len(queue) - 1
    /\ \A i \in 1..Len(queue') : queue'[i] = queue[i + 1]

HandledOne(e) ==
    /\ queue' \in Seq(Event)
    /\ Len(queue) > 0
    /\ Len(queue') = Len(queue)
    /\ \A i \in 1..(Len(queue) - 1) : queue'[i] = queue[i + 1]
    /\ queue'[Len(queue)] = e

LEMMA PostQueue ==
    ASSUME queue \in Seq(Event), NEW e \in Event, Post(e)
    PROVE  Posted(e)
BY DEF Post, Posted

LEMMA HandleQueue ==
    ASSUME queue \in Seq(Event), queue # <<>>
    PROVE  /\ Head(queue) = queue[1] /\ 1 \in DOMAIN queue
           /\ Handled(<<>>) => HandledNone
           /\ \A e \in Event : Handled(<<e>>) => HandledOne(e)
<1>1. Handled(<<>>) => HandledNone
  BY DEF Handled, HandledNone
<1>2. ASSUME NEW e \in Event, Handled(<<e>>)
      PROVE  HandledOne(e)
  BY <1>2 DEF Handled, HandledOne
<1> QED
  BY <1>1, <1>2

(* Where the events of some kinds are afterwards, when the others posted   *)
(* are of other kinds.                                                     *)
Kept(kinds) ==
    /\ \A k \in 1..Len(queue') : queue'[k].kind \in kinds =>
          k \in 1..Len(queue) /\ queue'[k] = queue[k]
    /\ \A k \in 1..Len(queue) : k \in 1..Len(queue') /\ queue'[k] = queue[k]

Shifted(kinds) ==
    /\ \A k \in 1..Len(queue') : queue'[k].kind \in kinds =>
          k + 1 \in 1..Len(queue) /\ queue'[k] = queue[k + 1]
    /\ \A k \in 1..Len(queue) : k # 1 =>
          k - 1 \in 1..Len(queue') /\ queue'[k - 1] = queue[k]

LEMMA PostKeeps ==
    ASSUME queue \in Seq(Event), NEW kinds, NEW e \in Event, e.kind \notin kinds, Posted(e)
    PROVE  Kept(kinds)
<1>1. Len(queue) \in Nat
  OBVIOUS
<1>2. \A k \in 1..Len(queue') : k = Len(queue) + 1 \/ k \in 1..Len(queue)
  BY <1>1 DEF Posted
<1>3. \A k \in 1..Len(queue) : k \in 1..Len(queue') /\ queue'[k] = queue[k]
  BY <1>1 DEF Posted
<1>4. \A k \in 1..Len(queue') : queue'[k].kind \in kinds => k # Len(queue) + 1
  BY DEF Posted
<1> QED
  BY <1>2, <1>3, <1>4 DEF Kept

LEMMA HandleShifts ==
    ASSUME queue \in Seq(Event), NEW kinds,
           HandledNone \/ \E p \in Event : p.kind \notin kinds /\ HandledOne(p)
    PROVE  Shifted(kinds)
<1>1. Len(queue) \in Nat
  OBVIOUS
<1>2. CASE HandledNone
  <2>1. \A k \in 1..Len(queue') : k + 1 \in 1..Len(queue) /\ queue'[k] = queue[k + 1]
    BY <1>1, <1>2 DEF HandledNone
  <2>2. \A k \in 1..Len(queue) : k # 1 => k - 1 \in 1..Len(queue') /\ (k - 1) + 1 = k
    BY <1>1, <1>2 DEF HandledNone
  <2> QED
    BY <2>1, <2>2 DEF Shifted
<1>3. ASSUME NEW p \in Event, p.kind \notin kinds, HandledOne(p)
      PROVE  Shifted(kinds)
  <2>1. \A k \in 1..(Len(queue) - 1) : k + 1 \in 1..Len(queue) /\ queue'[k] = queue[k + 1]
    BY <1>1, <1>3 DEF HandledOne
  <2>2. \A k \in 1..Len(queue) : k # 1 => k - 1 \in 1..(Len(queue) - 1) /\ (k - 1) + 1 = k
    BY <1>1
  <2>3. \A k \in 1..Len(queue') : k = Len(queue) \/ k \in 1..(Len(queue) - 1)
    BY <1>1, <1>3 DEF HandledOne
  <2>4. \A k \in 1..(Len(queue) - 1) : k \in 1..Len(queue')
    BY <1>1, <1>3 DEF HandledOne
  <2>5. \A k \in 1..Len(queue') : queue'[k].kind \in kinds => k # Len(queue)
    BY <1>3 DEF HandledOne
  <2> QED
    BY <2>1, <2>2, <2>3, <2>4, <2>5 DEF Shifted
<1> QED
  BY <1>2, <1>3

LEMMA EventFields ==
    ASSUME NEW e \in Event
    PROVE  /\ e.kind = "Session" => e.peer \in Peer /\ e.session \in SessionName
           /\ e.kind = "ModulesPaused" => e.paused \in BOOLEAN
           /\ e.kind = "Error_Messages" => e.message \in Message
           /\ e.kind = "Call" => e.call \in Call /\ e.request \in Request
           /\ e.kind = "SessionSet" => e.session \in SessionName \cup {NoSession}
           /\ e.kind = "MessagesSet" => e.messages \in Seq(Message)
           /\ e.kind = "Result" => e.call \in Call /\ e.result \in Result
BY DEF Event

LEMMA EventsMade ==
    /\ \A peer \in Peer, s \in SessionName :
          [kind |-> "Session", peer |-> peer, session |-> s] \in Event
    /\ \A peer \in Peer, paused \in BOOLEAN :
          [kind |-> "ModulesPaused", peer |-> peer, paused |-> paused] \in Event
    /\ \A peer \in Peer \cup {NoUid}, m \in Message :
          [kind |-> "Error_Messages", peer |-> peer, message |-> m] \in Event
    /\ [kind |-> "ClientPriorityList"] \in Event
    /\ [kind |-> "Error"] \in Event
    /\ \A c \in Call, r \in Request :
          [kind |-> "Call", call |-> c, request |-> r] \in Event
    /\ \A s \in SessionName \cup {NoSession} :
          [kind |-> "SessionSet", session |-> s] \in Event
    /\ \A ms \in Seq(Message) : [kind |-> "MessagesSet", messages |-> ms] \in Event
    /\ \A c \in Call, r \in Result :
          [kind |-> "Result", call |-> c, result |-> r] \in Event
BY DEF Event

LEMMA RequestFields ==
    ASSUME NEW r \in Request
    PROVE  /\ r.callId \in Uid /\ r.uid \in Uid \cup {NoUid} /\ r.priority \in Priority
           /\ \A code \in Code : [code |-> code, request |-> r] \in Result
BY DEF Request, Result

(***************************************************************************)
(* The two procedures and the map of reservations.                         *)
(***************************************************************************)
LEMMA AddEffect ==
    ASSUME ArbitrationTypeOK, NEW uid \in Uid \cup {NoUid}, NEW priority \in Priority,
           arbitrationAdd(uid, priority)
    PROVE  /\ ArbitrationTypeOK'
           /\ AddResult(uid, priority) \in Code
           /\ \A level \in Reserved :
                 m_priorityArbitrationMap'[level] = m_priorityArbitrationMap[level]
           /\ IF AddResult(uid, priority) = "PAS_SUCCESS"
              THEN /\ priority \notin Reserved
                   /\ Reserved' = Reserved \cup {priority}
                   /\ m_priorityArbitrationMap'[priority] = uid
              ELSE Reserved' = Reserved
<1>1. AddResult(uid, priority) \in Code
  BY DEF AddResult, Code
<1>2. CASE AddResult(uid, priority) = "PAS_SUCCESS"
  <2>1. /\ m_priorityArbitrationMap' =
              [level \in Reserved \cup {priority} |->
                 IF level = priority THEN uid ELSE m_priorityArbitrationMap[level]]
        /\ priority \notin Reserved /\ uid \in Uid /\ ~(priority < 0)
    BY <1>2 DEF arbitrationAdd, AddResult
  <2>2. priority >= 0
    BY <2>1, ArbitrationAssumption
  <2>3. Reserved' = Reserved \cup {priority}
    BY <2>1 DEF Reserved
  <2>4. /\ \A level \in Reserved :
              m_priorityArbitrationMap'[level] = m_priorityArbitrationMap[level]
        /\ m_priorityArbitrationMap'[priority] = uid
    BY <2>1
  <2>5. m_priorityArbitrationMap' \in [Reserved' -> Uid]
    BY <2>1, <2>3 DEF ArbitrationTypeOK
  <2> QED
    BY <1>1, <1>2, <2>1, <2>2, <2>3, <2>4, <2>5 DEF ArbitrationTypeOK
<1>3. CASE AddResult(uid, priority) # "PAS_SUCCESS"
  <2>1. m_priorityArbitrationMap' = m_priorityArbitrationMap
    BY <1>3 DEF arbitrationAdd
  <2> QED
    BY <1>1, <1>3, <2>1 DEF ArbitrationTypeOK, Reserved
<1> QED
  BY <1>2, <1>3

LEMMA RemoveEffect ==
    ASSUME ArbitrationTypeOK, NEW callId \in Uid, NEW uid \in Uid \cup {NoUid},
           arbitrationRemove(callId, uid)
    PROVE  /\ ArbitrationTypeOK'
           /\ RemoveResult(callId, uid) \in Code
           /\ \A level \in Reserved' :
                 m_priorityArbitrationMap'[level] = m_priorityArbitrationMap[level]
           /\ IF RemoveResult(callId, uid) = "PAS_SUCCESS"
              THEN /\ callId = uid
                   /\ \E best \in LevelsOf(uid) : Reserved' = Reserved \ {best}
              ELSE Reserved' = Reserved
<1>1. /\ RemoveResult(callId, uid) \in Code
      /\ RemoveResult(callId, uid) = "PAS_SUCCESS" => callId = uid
  BY DEF RemoveResult, Code
<1>2. CASE RemoveResult(callId, uid) = "PAS_SUCCESS"
  <2> DEFINE best == Min(LevelsOf(uid))
  <2>1. /\ m_priorityArbitrationMap' =
              [level \in Reserved \ {best} |-> m_priorityArbitrationMap[level]]
        /\ LevelsOf(uid) # {}
    BY <1>2 DEF arbitrationRemove, RemoveResult
  <2>2. LevelsOf(uid) \in SUBSET Nat
    <3>1. ASSUME NEW level \in LevelsOf(uid)
          PROVE  level \in Nat
      <4>1. level \in Priority /\ level >= 0
        BY <3>1 DEF LevelsOf, ArbitrationTypeOK
      <4>2. level \in Int
        BY <4>1, ArbitrationAssumption
      <4> QED
        BY <4>1, <4>2
    <3> QED
      BY <3>1
  <2>3. best \in LevelsOf(uid)
    BY <2>1, <2>2, Smallest
  <2> HIDE DEF best
  <2>5. Reserved' = Reserved \ {best}
    BY <2>1 DEF Reserved
  <2>6. m_priorityArbitrationMap' \in [Reserved' -> Uid]
    BY <2>1, <2>5 DEF ArbitrationTypeOK
  <2>7. \A level \in Reserved' :
           m_priorityArbitrationMap'[level] = m_priorityArbitrationMap[level]
    BY <2>1, <2>5
  <2> QED
    BY <1>1, <1>2, <2>3, <2>5, <2>6, <2>7 DEF ArbitrationTypeOK
<1>3. CASE RemoveResult(callId, uid) # "PAS_SUCCESS"
  <2>1. m_priorityArbitrationMap' = m_priorityArbitrationMap
    BY <1>3 DEF arbitrationRemove
  <2> QED
    BY <1>1, <1>3, <2>1 DEF ArbitrationTypeOK, Reserved
<1> QED
  BY <1>2, <1>3

----------------------------------------------------------------------------
(***************************************************************************)
(* Types.                                                                  *)
(***************************************************************************)
LEMMA InitType == ASSUME Init PROVE DispatchTypeOK
<1>1. ArbitrationTypeOK
  BY DEF Init, ArbitrationInit, ArbitrationTypeOK, Reserved
<1>2. queue \in Seq(Event) /\ Len(queue) <= MaxQueue
  BY DispatchAssumption DEF Init
<1>3. m_notificationMessages \in Seq(Message)
  BY DEF Init
<1>4. published \in [session : SessionName \cup {NoSession}, paused : BOOLEAN,
                     messages : Seq(Message)]
  BY <1>3 DEF Init
<1> QED
  BY <1>1, <1>2, <1>3, <1>4 DEF Init, ControllerInit, DispatchTypeOK

(* What is posted from outside the event loop.                             *)
Shows == {"SessionSet", "MessagesSet", "Result"}

Comes(e) ==
    \/ e.kind \notin Shows \cup {"Call"} /\ UNCHANGED loading
    \/ e.kind = "Call" /\ answer[e.call] = NoResult /\ OnItsWay(e.call) = {} /\ UNCHANGED loading
    \/ e.kind = "SessionSet" /\ e.session = session

LEMMA OutsideStep ==
    ASSUME DispatchTypeOK,
           \/ \E peer \in Peer : ClientSets(peer)
           \/ \E c \in Call : ClientCalls(c)
           \/ \E m \in Message : ReportError(m)
           \/ ModulesLoaded
    PROVE  /\ DispatchTypeOK'
           /\ \E e \in Event : Posted(e) /\ Comes(e)
           /\ UNCHANGED <<m_priorityArbitrationMap, m_notificationMessages, published, answer,
                          session, modulesPaused>>
<1> USE DEF DispatchTypeOK, Comes, Shows
<1>1. ASSUME NEW e \in Event, Post(e),
             UNCHANGED <<m_priorityArbitrationMap, m_notificationMessages, published,
                         answer, session>>,
             currentSession' \in SessionName \cup {NoSession},
             sessionReady' \in BOOLEAN, modulesPaused' \in BOOLEAN, loading' \in BOOLEAN
      PROVE  DispatchTypeOK' /\ Posted(e)
  <2>1. Posted(e)
    BY <1>1, PostQueue
  <2>2. Len(queue') <= MaxQueue
    BY <1>1, <2>1, DispatchAssumption DEF Post, Posted
  <2> QED
    BY <1>1, <2>1, <2>2 DEF Posted, ArbitrationTypeOK, Reserved
<1>2. ASSUME NEW peer \in Peer, ClientSets(peer)
      PROVE  \E e \in Event : /\ Post(e)
                              /\ e.kind \notin {"SessionSet", "MessagesSet", "Result", "Call"}
  <2> DEFINE Quiet(e) == e.kind \notin {"SessionSet", "MessagesSet", "Result", "Call"}
  <2>1. ASSUME NEW s \in SessionName,
               Post([kind |-> "Session", peer |-> peer, session |-> s])
        PROVE  \E e \in Event : Post(e) /\ Quiet(e)
    BY <2>1, EventsMade
  <2>2. ASSUME NEW paused \in BOOLEAN,
               Post([kind |-> "ModulesPaused", peer |-> peer, paused |-> paused])
        PROVE  \E e \in Event : Post(e) /\ Quiet(e)
    BY <2>2, EventsMade
  <2>3. ASSUME NEW m \in Message,
               Post([kind |-> "Error_Messages", peer |-> peer, message |-> m])
        PROVE  \E e \in Event : Post(e) /\ Quiet(e)
    <3>1. [kind |-> "Error_Messages", peer |-> peer, message |-> m] \in Event
      BY EventsMade
    <3> QED
      BY <2>3, <3>1
  <2>4. ASSUME Post([kind |-> "ClientPriorityList"])
        PROVE  \E e \in Event : Post(e) /\ Quiet(e)
    BY <2>4, EventsMade
  <2> QED
    BY <1>2, <2>1, <2>2, <2>3, <2>4 DEF ClientSets
<1>3. ASSUME NEW m \in Message, ReportError(m)
      PROVE  \E e \in Event : /\ Post(e)
                              /\ e.kind \notin {"SessionSet", "MessagesSet", "Result", "Call"}
  <2>1. [kind |-> "Error_Messages", peer |-> NoUid, message |-> m] \in Event
    BY EventsMade
  <2> QED
    BY <1>3, <2>1 DEF ReportError
<1>4. ASSUME NEW c \in Call, ClientCalls(c)
      PROVE  \E e \in Event : /\ Post(e) /\ e.kind = "Call" /\ e.call = c
                              /\ answer[c] = NoResult /\ OnItsWay(c) = {}
  BY <1>4, ProcedureAssumption, EventsMade DEF ClientCalls
<1>5. ASSUME ModulesLoaded
      PROVE  \E e \in Event : Post(e) /\ e.kind = "SessionSet" /\ e.session = session
  BY <1>5, DispatchAssumption, EventsMade DEF ModulesLoaded
<1>6. CASE \E peer \in Peer : ClientSets(peer)
  BY <1>1, <1>2, <1>6 DEF ClientSets, controllerVars
<1>7. CASE \E m \in Message : ReportError(m)
  BY <1>1, <1>3, <1>7 DEF ReportError, controllerVars
<1>8. CASE \E c \in Call : ClientCalls(c)
  <2>1. PICK c \in Call : ClientCalls(c)
    BY <1>8
  <2>2. PICK e \in Event : /\ Post(e) /\ e.kind = "Call" /\ e.call = c
                          /\ answer[c] = NoResult /\ OnItsWay(c) = {}
    BY <2>1, <1>4
  <2>3. UNCHANGED <<m_priorityArbitrationMap, controllerVars, m_notificationMessages,
                    published, answer, session, loading>>
    BY <2>1 DEF ClientCalls
  <2>4. DispatchTypeOK' /\ Posted(e)
    BY <1>1, <2>2, <2>3 DEF controllerVars
  <2> HIDE DEF DispatchTypeOK
  <2> QED
    BY <2>2, <2>3, <2>4 DEF controllerVars
<1>9. CASE ModulesLoaded
  BY <1>1, <1>5, <1>9, DispatchAssumption DEF ModulesLoaded, initializeEntity
<1> QED
  BY <1>6, <1>7, <1>8, <1>9
(* An event is handled.  What each handler posts and leaves.               *)
LEMMA DispatchType ==
    ASSUME DispatchTypeOK, Dispatch
    PROVE  DispatchTypeOK'
<1> DEFINE e == Head(queue)
<1>1. queue \in Seq(Event) /\ queue # <<>> /\ Len(queue) <= MaxQueue
  BY DEF Dispatch, DispatchTypeOK
<1>2. e \in Event /\ e = queue[1]
  BY <1>1
<1>3. /\ Handled(<<>>) => queue' \in Seq(Event) /\ Len(queue') <= MaxQueue
      /\ \A p \in Event : Handled(<<p>>) => queue' \in Seq(Event) /\ Len(queue') <= MaxQueue
  <2>1. /\ Handled(<<>>) => HandledNone
        /\ \A p \in Event : Handled(<<p>>) => HandledOne(p)
    BY <1>1, HandleQueue
  <2> QED
    BY <2>1, <1>1, DispatchAssumption DEF HandledNone, HandledOne
<1>4. customEvent(e)
  BY DEF Dispatch
<1> HIDE DEF e
<1>5. CASE ArbitrationDrops(e)
  <2>1. [kind |-> "Error"] \in Event
    BY EventsMade
  <2> QED
    BY <1>5, <1>3, <2>1 DEF ArbitrationDrops, DispatchTypeOK, ArbitrationTypeOK, Reserved,
                            controllerVars
<1>6. CASE ArbitrationSwallows(e)
  BY <1>6, <1>3 DEF ArbitrationSwallows, DispatchTypeOK, ArbitrationTypeOK, Reserved,
                    controllerVars
<1>7. CASE ArbitrationAdds(e)
  <2> DEFINE code == AddResult(e.request.uid, e.request.priority)
             p == [kind |-> "Result", call |-> e.call,
                   result |-> [code |-> code, request |-> e.request]]
  <2>1. e.call \in Call /\ e.request \in Request
    BY <1>2, <1>7, EventFields DEF ArbitrationAdds
  <2>2. ArbitrationTypeOK' /\ code \in Code
    <3>1. e.request.uid \in Uid \cup {NoUid} /\ e.request.priority \in Priority
      BY <2>1, RequestFields
    <3>2. ArbitrationTypeOK /\ arbitrationAdd(e.request.uid, e.request.priority)
      BY <1>7 DEF ArbitrationAdds, DispatchTypeOK
    <3> QED
      BY <3>1, <3>2, AddEffect
  <2>3. p \in Event
    BY <2>1, <2>2, EventsMade, RequestFields
  <2>4. Handled(<<p>>)
    BY <1>7 DEF ArbitrationAdds, rpcFinished
  <2> HIDE DEF p
  <2> QED
    BY <1>7, <1>3, <2>2, <2>3, <2>4 DEF ArbitrationAdds, DispatchTypeOK, controllerVars
<1>8. CASE ArbitrationRemoves(e)
  <2> DEFINE code == RemoveResult(e.request.callId, e.request.uid)
             p == [kind |-> "Result", call |-> e.call,
                   result |-> [code |-> code, request |-> e.request]]
  <2>1. e.call \in Call /\ e.request \in Request
    BY <1>2, <1>8, EventFields DEF ArbitrationRemoves
  <2>2. ArbitrationTypeOK' /\ code \in Code
    BY <2>1, <1>8, RemoveEffect, RequestFields DEF ArbitrationRemoves, DispatchTypeOK
  <2>3. p \in Event
    BY <2>1, <2>2, EventsMade, RequestFields
  <2>4. Handled(<<p>>)
    BY <1>8 DEF ArbitrationRemoves, rpcFinished
  <2> HIDE DEF p
  <2> QED
    BY <1>8, <1>3, <2>2, <2>3, <2>4 DEF ArbitrationRemoves, DispatchTypeOK, controllerVars
<1>9. CASE ArbitrationUnknown(e)
  <2> DEFINE p == [kind |-> "Result", call |-> e.call,
                   result |-> [code |-> "unknown", request |-> e.request]]
  <2>1. e.call \in Call /\ e.request \in Request
    BY <1>2, <1>9, EventFields DEF ArbitrationUnknown
  <2>2. p \in Event
    BY <2>1, EventsMade, RequestFields DEF Code
  <2>3. Handled(<<p>>)
    BY <1>9 DEF ArbitrationUnknown
  <2> HIDE DEF p
  <2> QED
    BY <1>9, <1>3, <2>2, <2>3 DEF ArbitrationUnknown, DispatchTypeOK, ArbitrationTypeOK,
                                  Reserved, controllerVars
<1>10. CASE ControllerDropsSession(e)
  <2>1. e.session \in SessionName
    BY <1>2, <1>10, EventFields DEF ControllerDropsSession
  <2> QED
    BY <1>10, <1>3, <2>1 DEF ControllerDropsSession, requestSession, SessionConfirmed,
                             DispatchTypeOK, ArbitrationTypeOK, Reserved
<1>11. CASE ControllerChangesSession(e)
  <2>1. e.session \in SessionName /\ [kind |-> "SessionSet", session |-> e.session] \in Event
    BY <1>2, <1>11, EventFields, EventsMade DEF ControllerChangesSession
  <2>2. /\ queue' \in Seq(Event) /\ Len(queue') <= MaxQueue
        /\ session' \in Session \cup {NoSession} /\ loading' \in BOOLEAN
    BY <1>11, <1>3, <2>1 DEF ControllerChangesSession, ManagerRefuses, ManagerSwitches,
                             DispatchTypeOK
  <2> QED
    BY <1>11, <2>1, <2>2 DEF ControllerChangesSession, SessionConfirmed, DispatchTypeOK,
                             ArbitrationTypeOK, Reserved
<1>12. CASE ControllerPauses(e)
  <2>1. e.paused \in BOOLEAN
    BY <1>2, <1>12, EventFields DEF ControllerPauses
  <2>2. published' \in [session : SessionName \cup {NoSession}, paused : BOOLEAN,
                        messages : Seq(Message)]
    BY <1>12, <2>1 DEF ControllerPauses, DispatchTypeOK
  <2> QED
    BY <1>12, <1>3, <2>1, <2>2 DEF ControllerPauses, storePaused, DispatchTypeOK,
                                   ArbitrationTypeOK, Reserved
<1>13. CASE ControllerTakesMessage(e)
  <2>1. e.message \in Message
    BY <1>2, <1>13, EventFields DEF ControllerTakesMessage
  <2>2. m_notificationMessages' \in Seq(Message)
    BY <1>13, <2>1 DEF ControllerTakesMessage, handleNotificationMessage, DispatchTypeOK
  <2>3. [kind |-> "MessagesSet", messages |-> m_notificationMessages'] \in Event
    BY <2>2, EventsMade
  <2> QED
    BY <1>13, <1>3, <2>2, <2>3 DEF ControllerTakesMessage, handleNotificationMessage,
          DispatchTypeOK, ArbitrationTypeOK, Reserved, controllerVars
<1>14. CASE StorageStores(e)
  <2>1. published' \in [session : SessionName \cup {NoSession}, paused : BOOLEAN,
                        messages : Seq(Message)]
    BY <1>2, <1>14, EventFields DEF StorageStores, DispatchTypeOK
  <2> QED
    BY <1>14, <1>3, <2>1 DEF StorageStores, DispatchTypeOK, ArbitrationTypeOK, Reserved,
                             controllerVars
<1>15. CASE ClientGets(e)
  <2>1. answer' \in [Call -> Result \cup {NoResult}]
    BY <1>2, <1>15, EventFields DEF ClientGets, DispatchTypeOK
  <2> QED
    BY <1>15, <1>3, <2>1 DEF ClientGets, DispatchTypeOK, ArbitrationTypeOK, Reserved,
                             controllerVars
<1> QED
  BY <1>4, <1>5, <1>6, <1>7, <1>8, <1>9, <1>10, <1>11, <1>12, <1>13, <1>14, <1>15
     DEF customEvent

LEMMA StutterType ==
    ASSUME DispatchTypeOK, UNCHANGED vars
    PROVE  DispatchTypeOK'
BY DEF DispatchTypeOK, ArbitrationTypeOK, Reserved, vars, controllerVars

(* Every variable holds what it should; the queue holds events only.       *)
THEOREM DispatchTypesCorrect == Spec => []DispatchTypeOK
<1>1. Init => DispatchTypeOK
  BY InitType
<1>2. DispatchTypeOK /\ [Next]_vars => DispatchTypeOK'
  BY DispatchType, OutsideStep, StutterType DEF Next
<1> QED
  BY <1>1, <1>2, PTL DEF Spec
----------------------------------------------------------------------------
(***************************************************************************)
(* The shapes a step of the event loop has, by what is on its way to the   *)
(* storage and to the clients.                                             *)
(***************************************************************************)
(* Nothing that is shown or answered moves.                                *)
Quiet(e) ==
    /\ e.kind \notin Shows \cup {"Call"}
    /\ HandledNone \/ \E p \in Event : p.kind \notin Shows \cup {"Call"} /\ HandledOne(p)
    /\ UNCHANGED <<m_priorityArbitrationMap, m_notificationMessages, answer, session, loading>>
    /\ published'.session = published.session
    /\ published'.messages = published.messages
    /\ published.paused = modulesPaused => published'.paused = modulesPaused'

CodeOf(e) ==
    CASE e.request.name = "arbitrationAdd"    -> AddResult(e.request.uid, e.request.priority)
      [] e.request.name = "arbitrationRemove" -> RemoveResult(e.request.callId, e.request.uid)
      [] OTHER                                -> "unknown"

Answers(e) ==
    /\ e.kind = "Call"
    /\ \E p \in Event : /\ p.kind = "Result" /\ p.call = e.call
                        /\ p.result = [code |-> CodeOf(e), request |-> e.request]
                        /\ HandledOne(p)
    /\ UNCHANGED <<controllerVars, m_notificationMessages, answer, session, loading, published>>

Switches(e) ==
    /\ e.kind = "Session"
    /\ \/ HandledNone /\ loading'
       \/ \E p \in Event : p.kind = "SessionSet" /\ p.session = session' /\ HandledOne(p)
    /\ UNCHANGED <<m_priorityArbitrationMap, modulesPaused, m_notificationMessages, answer,
                   published>>

Notes(e) ==
    /\ e.kind = "Error_Messages"
    /\ \E m \in Message : m_notificationMessages' = Append(m_notificationMessages, m)
    /\ \E p \in Event : p.kind = "MessagesSet" /\ p.messages = m_notificationMessages'
                        /\ HandledOne(p)
    /\ UNCHANGED <<m_priorityArbitrationMap, controllerVars, answer, session, loading, published>>

Stores(e) ==
    /\ \/ e.kind = "SessionSet" /\ published' = [published EXCEPT !.session = e.session]
       \/ e.kind = "MessagesSet" /\ published' = [published EXCEPT !.messages = e.messages]
    /\ HandledNone
    /\ UNCHANGED <<m_priorityArbitrationMap, controllerVars, m_notificationMessages, answer,
                   session, loading>>

Gets(e) ==
    /\ e.kind = "Result"
    /\ answer' = [answer EXCEPT ![e.call] = e.result]
    /\ HandledNone
    /\ UNCHANGED <<m_priorityArbitrationMap, controllerVars, m_notificationMessages, published,
                   session, loading>>

LEMMA DispatchShape ==
    ASSUME DispatchTypeOK, Dispatch
    PROVE  /\ queue[1] \in Event /\ 1 \in DOMAIN queue /\ customEvent(queue[1])
           /\ \/ Quiet(queue[1])
              \/ Answers(queue[1]) /\ ( \/ ArbitrationAdds(queue[1])
                                        \/ ArbitrationRemoves(queue[1])
                                        \/ ArbitrationUnknown(queue[1]))
              \/ Switches(queue[1])
              \/ Notes(queue[1])
              \/ Stores(queue[1])
              \/ Gets(queue[1])
<1> DEFINE e == queue[1]
<1>1. queue \in Seq(Event) /\ queue # <<>>
  BY DEF Dispatch, DispatchTypeOK
<1>2. /\ e \in Event /\ 1 \in DOMAIN queue /\ customEvent(e)
      /\ Handled(<<>>) => HandledNone
      /\ \A p \in Event : Handled(<<p>>) => HandledOne(p)
  <2>1. Head(queue) = e /\ e \in Event /\ 1 \in DOMAIN queue
    BY <1>1
  <2> QED
    BY <1>1, <2>1, HandleQueue DEF Dispatch
<1> HIDE DEF e
<1>5. CASE ArbitrationDrops(e)
  <2>1. [kind |-> "Error"] \in Event
    BY EventsMade
  <2> DEFINE p == [kind |-> "Error"]
  <2>2. HandledOne(p) /\ p.kind \notin Shows \cup {"Call"} /\ p \in Event
    BY <1>5, <1>2, <2>1 DEF ArbitrationDrops, Shows
  <2> HIDE DEF p
  <2> QED
    BY <1>5, <1>2, <2>2 DEF ArbitrationDrops, Setting, Quiet, Shows, controllerVars, e
<1>6. CASE ArbitrationSwallows(e)
  BY <1>6, <1>2 DEF ArbitrationSwallows, Quiet, Shows, controllerVars, e
<1>7. CASE ArbitrationAdds(e)
  <2> DEFINE p == [kind |-> "Result", call |-> e.call,
                   result |-> [code |-> AddResult(e.request.uid, e.request.priority),
                               request |-> e.request]]
  <2>1. e.call \in Call /\ e.request \in Request
    BY <1>2, <1>7, EventFields DEF ArbitrationAdds
  <2>2. p \in Event
    BY <2>1, EventsMade, RequestFields DEF AddResult, Code
  <2>3. HandledOne(p)
    BY <1>2, <1>7, <2>2 DEF ArbitrationAdds, rpcFinished
  <2>4. /\ p.kind = "Result" /\ p.call = e.call
        /\ p.result = [code |-> CodeOf(e), request |-> e.request]
    BY <1>7 DEF ArbitrationAdds, CodeOf
  <2> HIDE DEF p
  <2> QED
    BY <1>7, <2>2, <2>3, <2>4, <1>2 DEF ArbitrationAdds, Answers, e
<1>8. CASE ArbitrationRemoves(e)
  <2> DEFINE p == [kind |-> "Result", call |-> e.call,
                   result |-> [code |-> RemoveResult(e.request.callId, e.request.uid),
                               request |-> e.request]]
  <2>1. e.call \in Call /\ e.request \in Request
    BY <1>2, <1>8, EventFields DEF ArbitrationRemoves
  <2>2. p \in Event
    BY <2>1, EventsMade, RequestFields DEF RemoveResult, Code
  <2>3. HandledOne(p)
    BY <1>2, <1>8, <2>2 DEF ArbitrationRemoves, rpcFinished
  <2>4. /\ p.kind = "Result" /\ p.call = e.call
        /\ p.result = [code |-> CodeOf(e), request |-> e.request]
    BY <1>8 DEF ArbitrationRemoves, CodeOf
  <2> HIDE DEF p
  <2> QED
    BY <1>8, <2>2, <2>3, <2>4, <1>2 DEF ArbitrationRemoves, Answers, e
<1>9. CASE ArbitrationUnknown(e)
  <2> DEFINE p == [kind |-> "Result", call |-> e.call,
                   result |-> [code |-> "unknown", request |-> e.request]]
  <2>1. e.call \in Call /\ e.request \in Request
    BY <1>2, <1>9, EventFields DEF ArbitrationUnknown
  <2>2. p \in Event
    BY <2>1, EventsMade, RequestFields DEF Code
  <2>3. HandledOne(p)
    BY <1>2, <1>9, <2>2 DEF ArbitrationUnknown
  <2>4. /\ p.kind = "Result" /\ p.call = e.call
        /\ p.result = [code |-> CodeOf(e), request |-> e.request]
    BY <1>9 DEF ArbitrationUnknown, CodeOf
  <2> HIDE DEF p
  <2> QED
    BY <1>9, <2>2, <2>3, <2>4, <1>2 DEF ArbitrationUnknown, Answers, e
<1>10. CASE ControllerDropsSession(e)
  BY <1>10, <1>2 DEF ControllerDropsSession, requestSession, SessionConfirmed, Quiet,
                           Shows, e
<1>11. CASE ControllerChangesSession(e)
  <2>1. e.session \in SessionName /\ [kind |-> "SessionSet", session |-> e.session] \in Event
    BY <1>2, <1>11, EventFields, EventsMade DEF ControllerChangesSession
  <2>2. CASE ManagerRefuses(e.session)
    BY <1>11, <2>2, <1>2 DEF ControllerChangesSession, ManagerRefuses, SessionConfirmed,
                             Quiet, Shows, e
  <2>3. CASE ManagerSwitches(e.session)
    BY <1>11, <2>1, <2>3, <1>2 DEF ControllerChangesSession, ManagerSwitches, SessionConfirmed,
                                   Switches, e
  <2> QED
    BY <1>11, <2>2, <2>3 DEF ControllerChangesSession
<1>12. CASE ControllerPauses(e)
  BY <1>12, <1>2 DEF ControllerPauses, storePaused, Quiet, Shows, DispatchTypeOK, e
<1>13. CASE ControllerTakesMessage(e)
  <2>1. e.message \in Message
    BY <1>2, <1>13, EventFields DEF ControllerTakesMessage
  <2>2. m_notificationMessages' \in Seq(Message)
    BY <1>13, <2>1 DEF ControllerTakesMessage, handleNotificationMessage, DispatchTypeOK
  <2>3. [kind |-> "MessagesSet", messages |-> m_notificationMessages'] \in Event
    BY <2>2, EventsMade
  <2> QED
    BY <1>13, <1>2, <2>1, <2>3 DEF ControllerTakesMessage, handleNotificationMessage, Notes, e
<1>14. CASE StorageStores(e)
  BY <1>14, <1>2 DEF StorageStores, Stores, e
<1>15. CASE ClientGets(e)
  BY <1>15, <1>2 DEF ClientGets, Gets, Quiet, Shows, controllerVars, e
<1> QED
  BY <1>2, <1>5, <1>6, <1>7, <1>8, <1>9, <1>10, <1>11, <1>12, <1>13, <1>14, <1>15
     DEF customEvent, e

----------------------------------------------------------------------------
(***************************************************************************)
(* The session clients see.                                                *)
(***************************************************************************)
ShownOrNewest ==
    ~loading =>
        \/ published.session = session /\ \A i \in 1..Len(queue) : queue[i].kind # "SessionSet"
        \/ \E i \in 1..Len(queue) :
              /\ queue[i].kind = "SessionSet" /\ queue[i].session = session
              /\ \A j \in 1..Len(queue) : queue[j].kind = "SessionSet" => j <= i

LEMMA ShownOrNewestIs ==
    ASSUME DispatchTypeOK
    PROVE  SessionShown <=> ShownOrNewest
<1>1. DOMAIN queue = 1..Len(queue)
  BY DEF DispatchTypeOK
<1> QED
  BY <1>1 DEF SessionShown, ShownOrNewest, Newest, Waiting

LEMMA SessionStep ==
    ASSUME DispatchTypeOK, DispatchTypeOK', ShownOrNewest, [Next]_vars
    PROVE  ShownOrNewest'
<1> DEFINE n == Len(queue)
<1>1. n \in Nat /\ queue \in Seq(Event) /\ queue' \in Seq(Event)
  BY DEF DispatchTypeOK
<1>2. ASSUME NEW e \in Event, Posted(e), Comes(e), UNCHANGED <<published, session>>
      PROVE  ShownOrNewest'
  <2>1. CASE e.kind = "SessionSet" /\ e.session = session
    <3>1. /\ queue'[n + 1].kind = "SessionSet" /\ queue'[n + 1].session = session'
          /\ n + 1 \in 1..Len(queue')
          /\ \A j \in 1..Len(queue') : j <= n + 1
      BY <1>1, <1>2, <2>1 DEF Posted
    <3> QED
      BY <3>1 DEF ShownOrNewest
  <2>2. CASE e.kind # "SessionSet" /\ UNCHANGED loading
    <3>1. Len(queue') = n + 1 /\ queue'[n + 1].kind # "SessionSet"
          /\ \A i \in 1..n : queue'[i] = queue[i]
      BY <1>2, <2>2 DEF Posted
    <3> QED
      BY <1>1, <1>2, <2>2, <3>1 DEF ShownOrNewest
  <2> QED
    BY <1>2, <2>1, <2>2 DEF Comes, Shows
<1>3. ASSUME n > 0, queue[1].kind # "SessionSet",
             HandledNone \/ \E p \in Event : p.kind # "SessionSet" /\ HandledOne(p),
             published'.session = published.session, UNCHANGED <<session, loading>>
      PROVE  ShownOrNewest'
  <2>1. Shifted({"SessionSet"})
    BY <1>1, <1>3, HandleShifts
  <2>2. CASE \A i \in 1..n : queue[i].kind # "SessionSet"
    <3>1. \A i \in 1..Len(queue') : queue'[i].kind # "SessionSet"
      BY <2>1, <2>2 DEF Shifted
    <3>2. ~loading => published.session = session
      BY <2>2 DEF ShownOrNewest
    <3> QED
      BY <1>3, <3>1, <3>2 DEF ShownOrNewest
  <2>3. ASSUME NEW i \in 1..n, queue[i].kind = "SessionSet", queue[i].session = session,
               \A j \in 1..n : queue[j].kind = "SessionSet" => j <= i
        PROVE  ShownOrNewest'
    <3>1. i - 1 \in 1..Len(queue') /\ queue'[i - 1] = queue[i]
      BY <1>1, <1>3, <2>1, <2>3 DEF Shifted
    <3>2. \A j \in 1..Len(queue') : queue'[j].kind = "SessionSet" => j <= i - 1
      BY <1>1, <2>1, <2>3 DEF Shifted
    <3> QED
      BY <1>3, <2>3, <3>1, <3>2 DEF ShownOrNewest
  <2> QED
    BY <1>3, <2>2, <2>3 DEF ShownOrNewest
<1>4. ASSUME n > 0, queue[1].kind = "SessionSet", HandledNone,
             published' = [published EXCEPT !.session = queue[1].session],
             UNCHANGED <<session, loading>>
      PROVE  ShownOrNewest'
  <2>1. published'.session = queue[1].session
    BY <1>4 DEF DispatchTypeOK
  <2>2. Shifted({"SessionSet"})
    BY <1>1, <1>4, HandleShifts
  <2>3. CASE loading
    BY <1>4, <2>3 DEF ShownOrNewest
  <2>4. CASE ~loading
    <3>1. PICK i \in 1..n : /\ queue[i].kind = "SessionSet" /\ queue[i].session = session
                            /\ \A j \in 1..n : queue[j].kind = "SessionSet" => j <= i
      BY <1>1, <1>4, <2>4 DEF ShownOrNewest
    <3>2. \A j \in 1..Len(queue') : queue'[j].kind = "SessionSet" => j <= i - 1
      BY <1>1, <2>2, <3>1 DEF Shifted
    <3>3. CASE i = 1
      <4>1. \A j \in 1..Len(queue') : queue'[j].kind # "SessionSet"
        BY <1>1, <3>2, <3>3
      <4> QED
        BY <1>4, <2>1, <3>1, <3>3, <4>1 DEF ShownOrNewest
    <3>4. CASE i # 1
      <4>1. i - 1 \in 1..Len(queue') /\ queue'[i - 1] = queue[i]
        BY <2>2, <3>1, <3>4 DEF Shifted
      <4> QED
        BY <1>4, <3>1, <3>2, <4>1 DEF ShownOrNewest
    <3> QED
      BY <3>3, <3>4
  <2> QED
    BY <2>3, <2>4
<1>5. ASSUME n > 0, Switches(queue[1])
      PROVE  ShownOrNewest'
  <2>1. CASE loading'
    BY <2>1 DEF ShownOrNewest
  <2>2. ASSUME NEW p \in Event, p.kind = "SessionSet", p.session = session', HandledOne(p)
        PROVE  ShownOrNewest'
    <3>1. /\ queue'[n].kind = "SessionSet" /\ queue'[n].session = session'
          /\ n \in 1..Len(queue') /\ \A j \in 1..Len(queue') : j <= n
      BY <1>1, <1>5, <2>2 DEF HandledOne
    <3> QED
      BY <3>1 DEF ShownOrNewest
  <2> QED
    BY <1>5, <2>1, <2>2 DEF Switches
<1>6. CASE Dispatch
  <2>1. n > 0
    BY <1>1, <1>6 DEF Dispatch
  <2>2. CASE Quiet(queue[1])
    BY <1>3, <2>1, <2>2 DEF Quiet, Shows
  <2>3. CASE Answers(queue[1])
    <3>1. PICK p \in Event : p.kind = "Result" /\ HandledOne(p)
      BY <2>3 DEF Answers
    <3> QED
      BY <1>3, <2>1, <2>3, <3>1 DEF Answers
  <2>4. CASE Switches(queue[1])
    BY <1>5, <2>1, <2>4
  <2>5. CASE Notes(queue[1])
    <3>1. PICK p \in Event : p.kind = "MessagesSet" /\ HandledOne(p)
      BY <2>5 DEF Notes
    <3> QED
      BY <1>3, <2>1, <2>5, <3>1 DEF Notes
  <2>6. CASE Stores(queue[1])
    <3>1. CASE queue[1].kind = "SessionSet"
      BY <1>4, <2>1, <2>6, <3>1 DEF Stores
    <3>2. CASE queue[1].kind = "MessagesSet"
      <4>1. published'.session = published.session
        BY <2>6, <3>2 DEF Stores, DispatchTypeOK
      <4> QED
        BY <1>3, <2>1, <2>6, <3>2, <4>1 DEF Stores
    <3> QED
      BY <2>6, <3>1, <3>2 DEF Stores
  <2>7. CASE Gets(queue[1])
    BY <1>3, <2>1, <2>7 DEF Gets
  <2> QED
    BY <1>6, DispatchShape, <2>2, <2>3, <2>4, <2>5, <2>6, <2>7
<1>7. CASE UNCHANGED vars
  BY <1>7 DEF vars, ShownOrNewest
<1> QED
  BY <1>2, <1>6, <1>7, OutsideStep DEF Next

(* Whatever requests are dropped or refused, clients see the session that  *)
(* runs, or the event that says so is the last one on its way.             *)
THEOREM SessionShownCorrect == Spec => []SessionShown
<1>1. Init => ShownOrNewest
  BY DEF Init, ShownOrNewest
<1>2. DispatchTypeOK /\ DispatchTypeOK' /\ ShownOrNewest /\ [Next]_vars => ShownOrNewest'
  BY SessionStep
<1>3. DispatchTypeOK /\ ShownOrNewest => SessionShown
  BY ShownOrNewestIs
<1> QED
  BY <1>1, <1>2, <1>3, DispatchTypesCorrect, PTL DEF Spec

----------------------------------------------------------------------------
(***************************************************************************)
(* The messages clients see, and the pause.                                *)
(***************************************************************************)
Sent(i) == i \in 1..Len(queue) /\ queue[i].kind = "MessagesSet"

KeptAndShown ==
    /\ published.paused = modulesPaused
    /\ \/ published.messages = m_notificationMessages /\ \A i \in 1..Len(queue) : ~Sent(i)
       \/ \E i \in 1..Len(queue) :
             /\ Sent(i) /\ queue[i].messages = m_notificationMessages
             /\ \A j \in 1..Len(queue) : Sent(j) => j <= i
    /\ \A i \in 1..Len(queue) : Sent(i) => Extends(queue[i].messages, published.messages)
    /\ \A i, j \in 1..Len(queue) :
          Sent(i) /\ Sent(j) /\ i < j => Extends(queue[j].messages, queue[i].messages)

LEMMA KeptAndShownIs ==
    ASSUME DispatchTypeOK
    PROVE  ShownIsKept <=> KeptAndShown
<1>1. DOMAIN queue = 1..Len(queue)
  BY DEF DispatchTypeOK
<1> QED
  BY <1>1 DEF ShownIsKept, KeptAndShown, Newest, Waiting, Sent

LEMMA ExtendsItself ==
    ASSUME NEW S, NEW s \in Seq(S)
    PROVE  Extends(s, s)
BY DEF Extends

LEMMA ExtendsAppended ==
    ASSUME NEW S, NEW s \in Seq(S), NEW x \in S, NEW t \in Seq(S), Extends(s, t)
    PROVE  Extends(Append(s, x), t)
BY DEF Extends

LEMMA MessagesStep ==
    ASSUME DispatchTypeOK, DispatchTypeOK', KeptAndShown, [Next]_vars
    PROVE  KeptAndShown'
<1> DEFINE n == Len(queue)
<1>1. /\ n \in Nat /\ queue \in Seq(Event) /\ queue' \in Seq(Event)
      /\ m_notificationMessages \in Seq(Message) /\ published.messages \in Seq(Message)
  BY DEF DispatchTypeOK
<1>2. ASSUME NEW e \in Event, Posted(e), Comes(e),
             UNCHANGED <<published, m_notificationMessages, modulesPaused>>
      PROVE  KeptAndShown'
  <2>1. Kept({"MessagesSet"})
    BY <1>1, <1>2, PostKeeps DEF Comes, Shows
  <2>2. \A i \in 1..Len(queue') : Sent(i)' => i \in 1..n /\ Sent(i) /\ queue'[i] = queue[i]
    BY <2>1 DEF Kept, Sent
  <2>3. \A i \in 1..n : Sent(i) => i \in 1..Len(queue') /\ Sent(i)' /\ queue'[i] = queue[i]
    BY <2>1 DEF Kept, Sent
  <2> HIDE DEF Sent
  <2>4. \/ published'.messages = m_notificationMessages' /\ \A i \in 1..Len(queue') : ~Sent(i)'
        \/ \E i \in 1..Len(queue') :
              /\ Sent(i)' /\ queue'[i].messages = m_notificationMessages'
              /\ \A j \in 1..Len(queue') : Sent(j)' => j <= i
    BY <1>2, <2>2, <2>3 DEF KeptAndShown
  <2>5. \A i \in 1..Len(queue') : Sent(i)' => Extends(queue'[i].messages, published'.messages)
    BY <1>2, <2>2 DEF KeptAndShown
  <2>6. \A i, j \in 1..Len(queue') :
           Sent(i)' /\ Sent(j)' /\ i < j => Extends(queue'[j].messages, queue'[i].messages)
    BY <2>2 DEF KeptAndShown
  <2> QED
    BY <1>2, <2>4, <2>5, <2>6 DEF KeptAndShown
<1>3. ASSUME n > 0, queue[1].kind # "MessagesSet",
             HandledNone \/ \E p \in Event : p.kind # "MessagesSet" /\ HandledOne(p),
             published'.messages = published.messages, published'.paused = modulesPaused',
             UNCHANGED m_notificationMessages
      PROVE  KeptAndShown'
  <2>1. Shifted({"MessagesSet"})
    BY <1>1, <1>3, HandleShifts
  <2>2. \A i \in 1..Len(queue') :
           Sent(i)' => i + 1 \in 1..n /\ Sent(i + 1) /\ queue'[i] = queue[i + 1]
    BY <2>1 DEF Shifted, Sent
  <2>3. \A i \in 1..n :
           Sent(i) => i - 1 \in 1..Len(queue') /\ Sent(i - 1)' /\ queue'[i - 1] = queue[i]
    BY <1>3, <2>1 DEF Shifted, Sent
  <2>4. CASE published.messages = m_notificationMessages /\ \A i \in 1..n : ~Sent(i)
    <3>1. \A i \in 1..Len(queue') : ~Sent(i)'
      BY <2>2, <2>4
    <3> QED
      BY <1>3, <2>4, <3>1 DEF KeptAndShown
  <2>5. ASSUME NEW k \in 1..n, Sent(k), queue[k].messages = m_notificationMessages,
               \A j \in 1..n : Sent(j) => j <= k
        PROVE  KeptAndShown'
    <3>1. \A j \in 1..Len(queue') : Sent(j)' => j <= k - 1
      BY <1>1, <2>2, <2>5
    <3>2. /\ k - 1 \in 1..Len(queue') /\ Sent(k - 1)'
          /\ queue'[k - 1].messages = m_notificationMessages'
      BY <1>3, <2>3, <2>5
    <3>3. \A i \in 1..Len(queue') : Sent(i)' => Extends(queue'[i].messages, published'.messages)
      BY <1>3, <2>2 DEF KeptAndShown
    <3>4. \A i, j \in 1..Len(queue') :
             Sent(i)' /\ Sent(j)' /\ i < j => Extends(queue'[j].messages, queue'[i].messages)
      <4>1. ASSUME NEW i \in 1..Len(queue'), NEW j \in 1..Len(queue'), Sent(i)', Sent(j)', i < j
            PROVE  Extends(queue'[j].messages, queue'[i].messages)
        <5>1. /\ i + 1 \in 1..n /\ Sent(i + 1) /\ queue'[i] = queue[i + 1]
              /\ j + 1 \in 1..n /\ Sent(j + 1) /\ queue'[j] = queue[j + 1]
          BY <2>2, <4>1
        <5>2. i + 1 < j + 1
          BY <1>1, <4>1
        <5> QED
          BY <5>1, <5>2 DEF KeptAndShown
      <4> QED
        BY <4>1
    <3> QED
      BY <1>3, <3>1, <3>2, <3>3, <3>4 DEF KeptAndShown
  <2> QED
    BY <2>4, <2>5 DEF KeptAndShown
<1>4. ASSUME n > 0, Notes(queue[1])
      PROVE  KeptAndShown'
  <2>1. PICK m \in Message : m_notificationMessages' = Append(m_notificationMessages, m)
    BY <1>4 DEF Notes
  <2>2. PICK p \in Event : /\ p.kind = "MessagesSet" /\ p.messages = m_notificationMessages'
                          /\ HandledOne(p)
    BY <1>4 DEF Notes
  <2>3. /\ Len(queue') = n /\ queue'[n] = p /\ Sent(n)'
        /\ \A i \in 1..(n - 1) : queue'[i] = queue[i + 1] /\ (Sent(i)' <=> Sent(i + 1))
    BY <1>1, <1>4, <2>2 DEF HandledOne, Sent, Notes
  <2>4. Extends(m_notificationMessages, published.messages)
    BY <1>1, ExtendsItself DEF KeptAndShown
  <2>5. \A i \in 1..n : Sent(i) => Extends(m_notificationMessages, queue[i].messages)
    <3>1. ASSUME NEW i \in 1..n, Sent(i)
          PROVE  Extends(m_notificationMessages, queue[i].messages)
      <4>1. PICK k \in 1..n : /\ Sent(k) /\ queue[k].messages = m_notificationMessages
                              /\ \A j \in 1..n : Sent(j) => j <= k
        BY <3>1 DEF KeptAndShown
      <4>2. CASE i = k
        BY <1>1, <4>1, <4>2, ExtendsItself
      <4>3. CASE i # k
        BY <3>1, <4>1, <4>3 DEF KeptAndShown
      <4> QED
        BY <4>2, <4>3
    <3> QED
      BY <3>1
  <2>6. Extends(m_notificationMessages', published.messages)
    BY <1>1, <2>1, <2>4, ExtendsAppended
  <2>7. \A i \in 1..n : Sent(i) => Extends(m_notificationMessages', queue[i].messages)
    <3>1. ASSUME NEW i \in 1..n, Sent(i)
          PROVE  Extends(m_notificationMessages', queue[i].messages)
      <4>1. queue[i].messages \in Seq(Message)
        BY <1>1, <3>1, EventFields DEF Sent
      <4> QED
        BY <1>1, <2>1, <2>5, <3>1, <4>1, ExtendsAppended
    <3> QED
      BY <3>1
  <2>8. published' = published /\ published'.paused = modulesPaused'
    BY <1>4 DEF Notes, controllerVars, KeptAndShown
  <2>9. \A i \in 1..n : Sent(i)' => Extends(queue'[i].messages, published'.messages)
    BY <1>1, <2>2, <2>3, <2>6, <2>8 DEF KeptAndShown
  <2>10. \A i, j \in 1..n :
            Sent(i)' /\ Sent(j)' /\ i < j => Extends(queue'[j].messages, queue'[i].messages)
    <3>1. ASSUME NEW i \in 1..n, NEW j \in 1..n, Sent(i)', Sent(j)', i < j
          PROVE  Extends(queue'[j].messages, queue'[i].messages)
      <4>1. i \in 1..(n - 1) /\ i + 1 \in 1..n /\ Sent(i + 1) /\ queue'[i] = queue[i + 1]
        BY <1>1, <2>3, <3>1
      <4>2. CASE j = n
        BY <2>2, <2>3, <2>7, <4>1, <4>2
      <4>3. CASE j # n
        BY <1>1, <2>3, <3>1, <4>1, <4>3 DEF KeptAndShown
      <4> QED
        BY <4>2, <4>3
    <3> QED
      BY <3>1
  <2>11. /\ n \in 1..Len(queue') /\ queue'[n].messages = m_notificationMessages'
         /\ \A j \in 1..Len(queue') : j <= n
    BY <1>1, <1>4, <2>2, <2>3
  <2> QED
    BY <2>3, <2>8, <2>9, <2>10, <2>11 DEF KeptAndShown
<1>5. ASSUME n > 0, queue[1].kind = "MessagesSet", HandledNone,
             published' = [published EXCEPT !.messages = queue[1].messages],
             UNCHANGED <<m_notificationMessages, modulesPaused>>
      PROVE  KeptAndShown'
  <2>1. /\ published'.messages = queue[1].messages /\ published'.paused = modulesPaused'
        /\ Sent(1) /\ 1 \in 1..n
    BY <1>1, <1>5 DEF DispatchTypeOK, KeptAndShown, Sent
  <2>2. Shifted({"MessagesSet"})
    BY <1>1, <1>5, HandleShifts
  <2>3. \A i \in 1..Len(queue') :
           Sent(i)' => i + 1 \in 1..n /\ Sent(i + 1) /\ queue'[i] = queue[i + 1] /\ 1 < i + 1
    BY <1>1, <2>2 DEF Shifted, Sent
  <2>4. PICK k \in 1..n : /\ Sent(k) /\ queue[k].messages = m_notificationMessages
                          /\ \A j \in 1..n : Sent(j) => j <= k
    BY <2>1 DEF KeptAndShown
  <2>5. \A j \in 1..Len(queue') : Sent(j)' => j <= k - 1
    BY <1>1, <2>3, <2>4
  <2>6. \/ /\ published'.messages = m_notificationMessages'
           /\ \A i \in 1..Len(queue') : ~Sent(i)'
        \/ \E i \in 1..Len(queue') :
              /\ Sent(i)' /\ queue'[i].messages = m_notificationMessages'
              /\ \A j \in 1..Len(queue') : Sent(j)' => j <= i
    <3>1. CASE k = 1
      <4>1. \A i \in 1..Len(queue') : ~Sent(i)'
        BY <1>1, <2>5, <3>1
      <4> QED
        BY <1>5, <2>1, <2>4, <3>1, <4>1
    <3>2. CASE k # 1
      <4>1. /\ k - 1 \in 1..Len(queue') /\ Sent(k - 1)'
            /\ queue'[k - 1].messages = m_notificationMessages'
        BY <1>5, <2>2, <2>4, <3>2 DEF Shifted, Sent
      <4> QED
        BY <2>5, <4>1
    <3> QED
      BY <3>1, <3>2
  <2>7. \A i \in 1..Len(queue') : Sent(i)' => Extends(queue'[i].messages, published'.messages)
    BY <2>1, <2>3 DEF KeptAndShown
  <2>8. \A i, j \in 1..Len(queue') :
           Sent(i)' /\ Sent(j)' /\ i < j => Extends(queue'[j].messages, queue'[i].messages)
    <3>1. ASSUME NEW i \in 1..Len(queue'), NEW j \in 1..Len(queue'), Sent(i)', Sent(j)', i < j
          PROVE  Extends(queue'[j].messages, queue'[i].messages)
      <4>1. /\ i + 1 \in 1..n /\ Sent(i + 1) /\ queue'[i] = queue[i + 1]
            /\ j + 1 \in 1..n /\ Sent(j + 1) /\ queue'[j] = queue[j + 1]
        BY <2>3, <3>1
      <4>2. i + 1 < j + 1
        BY <1>1, <3>1
      <4> QED
        BY <4>1, <4>2 DEF KeptAndShown
    <3> QED
      BY <3>1
  <2> QED
    BY <2>1, <2>6, <2>7, <2>8 DEF KeptAndShown
<1>6. CASE Dispatch
  <2>1. n > 0
    BY <1>1, <1>6 DEF Dispatch
  <2>2. CASE Quiet(queue[1])
    BY <1>3, <2>1, <2>2 DEF Quiet, Shows, KeptAndShown
  <2>3. CASE Answers(queue[1])
    <3>1. PICK p \in Event : p.kind = "Result" /\ HandledOne(p)
      BY <2>3 DEF Answers
    <3> QED
      BY <1>3, <2>1, <2>3, <3>1 DEF Answers, controllerVars, KeptAndShown
  <2>4. CASE Switches(queue[1])
    <3>1. HandledNone \/ \E p \in Event : p.kind # "MessagesSet" /\ HandledOne(p)
      BY <2>4 DEF Switches
    <3> QED
      BY <1>3, <2>1, <2>4, <3>1 DEF Switches, KeptAndShown
  <2>5. CASE Notes(queue[1])
    BY <1>4, <2>1, <2>5
  <2>6. CASE Stores(queue[1])
    <3>1. CASE queue[1].kind = "MessagesSet"
      BY <1>5, <2>1, <2>6, <3>1 DEF Stores, controllerVars
    <3>2. CASE queue[1].kind = "SessionSet"
      <4>1. published'.messages = published.messages /\ published'.paused = published.paused
        BY <2>6, <3>2 DEF Stores, DispatchTypeOK
      <4> QED
        BY <1>3, <2>1, <2>6, <3>2, <4>1 DEF Stores, controllerVars, KeptAndShown
    <3> QED
      BY <2>6, <3>1, <3>2 DEF Stores
  <2>7. CASE Gets(queue[1])
    BY <1>3, <2>1, <2>7 DEF Gets, controllerVars, KeptAndShown
  <2> QED
    BY <1>6, DispatchShape, <2>2, <2>3, <2>4, <2>5, <2>6, <2>7
<1>7. CASE UNCHANGED vars
  BY <1>7 DEF vars, controllerVars, KeptAndShown, Sent
<1> QED
  BY <1>2, <1>6, <1>7, OutsideStep DEF Next

(* No message that was shown disappears, and all of them are shown or on   *)
(* their way; the pause is shown at once.                                  *)
THEOREM ShownIsKeptCorrect == Spec => []ShownIsKept
<1>1. Init => KeptAndShown
  <2> SUFFICES ASSUME Init PROVE KeptAndShown
    OBVIOUS
  <2>1. 1..Len(queue) = {}
    BY DEF Init
  <2>2. /\ published.paused = modulesPaused
        /\ published.messages = m_notificationMessages
    BY DEF Init, ControllerInit
  <2> QED
    BY <2>1, <2>2 DEF KeptAndShown
<1>2. DispatchTypeOK /\ DispatchTypeOK' /\ KeptAndShown /\ [Next]_vars => KeptAndShown'
  BY MessagesStep
<1>3. DispatchTypeOK /\ KeptAndShown => ShownIsKept
  BY KeptAndShownIs
<1> QED
  BY <1>1, <1>2, <1>3, DispatchTypesCorrect, PTL DEF Spec

----------------------------------------------------------------------------
(***************************************************************************)
(* Calls: each is on its way once, as a call or as a result, and not any   *)
(* more when it is answered.                                               *)
(***************************************************************************)
Carries(i, c) ==
    i \in 1..Len(queue) /\ queue[i].kind \in {"Call", "Result"} /\ queue[i].call = c

CallsOnce ==
    \A c \in Call :
        /\ \A i, j \in 1..Len(queue) : Carries(i, c) /\ Carries(j, c) => i = j
        /\ answer[c] # NoResult => \A i \in 1..Len(queue) : ~Carries(i, c)

LEMMA OnTheWay ==
    ASSUME DispatchTypeOK, NEW c \in Call
    PROVE  OnItsWay(c) = {} <=> \A i \in 1..Len(queue) : ~Carries(i, c)
<1>1. DOMAIN queue = 1..Len(queue)
  BY DEF DispatchTypeOK
<1> QED
  BY <1>1 DEF OnItsWay, Waiting, Carries

LEMMA CallsStep ==
    ASSUME DispatchTypeOK, DispatchTypeOK', CallsOnce, [Next]_vars
    PROVE  CallsOnce'
<1> DEFINE n == Len(queue)
<1>1. n \in Nat /\ queue \in Seq(Event) /\ queue' \in Seq(Event)
  BY DEF DispatchTypeOK
<1>2. ASSUME NEW e \in Event, Posted(e), Comes(e), UNCHANGED answer
      PROVE  CallsOnce'
  <2>1. /\ \A i \in 1..Len(queue') : i = n + 1 \/ i \in 1..n
        /\ \A c \in Call : \A i \in 1..n : Carries(i, c)' => Carries(i, c)
        /\ queue'[n + 1] = e
    BY <1>1, <1>2 DEF Posted, Carries
  <2>2. ASSUME NEW c \in Call, NEW k \in 1..Len(queue'), k \notin 1..n, Carries(k, c)'
        PROVE  answer[c] = NoResult /\ \A i \in 1..n : ~Carries(i, c)
    <3>1. e.kind = "Call" /\ e.call = c
      BY <1>2, <2>1, <2>2 DEF Comes, Shows, Carries
    <3> QED
      BY <1>2, <2>2, <3>1, OnTheWay DEF Comes, Shows
  <2>3. ASSUME NEW c \in Call, NEW i \in 1..Len(queue'), NEW j \in 1..Len(queue'),
               Carries(i, c)', Carries(j, c)'
        PROVE  i = j
    BY <2>1, <2>2, <2>3 DEF CallsOnce
  <2>4. ASSUME NEW c \in Call, answer'[c] # NoResult, NEW i \in 1..Len(queue'), Carries(i, c)'
        PROVE  FALSE
    BY <1>2, <2>1, <2>2, <2>4 DEF CallsOnce
  <2> QED
    BY <2>3, <2>4 DEF CallsOnce
<1>3. ASSUME n > 0, queue[1].kind \notin {"Call", "Result"},
             HandledNone \/ \E p \in Event : p.kind \notin {"Call", "Result"} /\ HandledOne(p),
             UNCHANGED answer
      PROVE  CallsOnce'
  <2>1. Shifted({"Call", "Result"})
    BY <1>1, <1>3, HandleShifts
  <2>2. \A c \in Call : \A i \in 1..Len(queue') :
           Carries(i, c)' => i \in Nat /\ i + 1 \in 1..n /\ Carries(i + 1, c)
    BY <1>1, <2>1 DEF Shifted, Carries
  <2> QED
    BY <1>3, <2>2 DEF CallsOnce
<1>4. ASSUME n > 0, Answers(queue[1])
      PROVE  CallsOnce'
  <2>1. PICK p \in Event : p.kind = "Result" /\ p.call = queue[1].call /\ HandledOne(p)
    BY <1>4 DEF Answers
  <2>2. /\ Len(queue') = n /\ queue'[n] = p
        /\ \A c \in Call, i \in 1..(n - 1) : Carries(i, c)' => i + 1 \in 1..n /\ Carries(i + 1, c)
        /\ \A c \in Call : Carries(n, c)' => Carries(1, c)
        /\ UNCHANGED answer
    BY <1>1, <1>4, <2>1 DEF HandledOne, Carries, Answers
  <2>3. \A i \in 1..n : i \in Nat /\ (i = n \/ i \in 1..(n - 1)) /\ 1 \in 1..n /\ i + 1 # 1
    BY <1>1
  <2> QED
    BY <1>1, <2>2, <2>3 DEF CallsOnce
<1>5. ASSUME n > 0, Gets(queue[1])
      PROVE  CallsOnce'
  <2>1. queue[1].call \in Call /\ Carries(1, queue[1].call)
    BY <1>1, <1>5, EventFields DEF Gets, Carries
  <2>2. /\ \A c \in Call, i \in 1..Len(queue') :
              Carries(i, c)' => i + 1 \in 1..n /\ Carries(i + 1, c)
        /\ \A c \in Call : c # queue[1].call => answer'[c] = answer[c]
    BY <1>1, <1>5 DEF Gets, HandledNone, Carries, DispatchTypeOK
  <2>3. \A i \in 1..Len(queue') : i \in Nat /\ i + 1 # 1 /\ 1 \in 1..n
    BY <1>1, <1>5
  <2> QED
    BY <1>1, <2>1, <2>2, <2>3 DEF CallsOnce
<1>6. CASE Dispatch
  <2>1. n > 0
    BY <1>1, <1>6 DEF Dispatch
  <2>2. CASE Quiet(queue[1])
    BY <1>3, <2>1, <2>2 DEF Quiet, Shows
  <2>3. CASE Switches(queue[1])
    <3>1. HandledNone \/ \E p \in Event : p.kind = "SessionSet" /\ HandledOne(p)
      BY <2>3 DEF Switches
    <3> QED
      BY <1>3, <2>1, <2>3, <3>1 DEF Switches
  <2>4. CASE Notes(queue[1])
    <3>1. \E p \in Event : p.kind = "MessagesSet" /\ HandledOne(p)
      BY <2>4 DEF Notes
    <3> QED
      BY <1>3, <2>1, <2>4, <3>1 DEF Notes
  <2>5. CASE Stores(queue[1])
    BY <1>3, <2>1, <2>5 DEF Stores
  <2> QED
    BY <1>4, <1>5, <1>6, DispatchShape, <2>1, <2>2, <2>3, <2>4, <2>5
<1>7. CASE UNCHANGED vars
  BY <1>7 DEF vars, CallsOnce, Carries
<1> QED
  BY <1>2, <1>6, <1>7, OutsideStep DEF Next

LEMMA CallsInvariant == Spec => []CallsOnce
<1>1. Init => CallsOnce
  BY DEF Init, CallsOnce
<1>2. DispatchTypeOK /\ DispatchTypeOK' /\ CallsOnce /\ [Next]_vars => CallsOnce'
  BY CallsStep
<1> QED
  BY <1>1, <1>2, DispatchTypesCorrect, PTL DEF Spec

----------------------------------------------------------------------------
(***************************************************************************)
(* Reservations.                                                           *)
(***************************************************************************)
LEMMA ResultsAre ==
    ASSUME DispatchTypeOK, NEW c \in Call, NEW r
    PROVE  r \in Results(c) <=>
             \/ r = answer[c]
             \/ \E i \in 1..Len(queue) : /\ queue[i].kind = "Result" /\ queue[i].call = c
                                         /\ queue[i].result = r
<1>1. DOMAIN queue = 1..Len(queue)
  BY DEF DispatchTypeOK
<1> QED
  BY <1>1 DEF Results, OnItsWay, Waiting

LEMMA SuccessFields ==
    ASSUME NEW name, NEW r \in Success(name)
    PROVE  r.code = "PAS_SUCCESS" /\ r.request.name = name /\ r # NoResult
BY DEF Success, NoResult

(* No result is lost, and one comes only when a call is handled.           *)
Holds(i, c, r) ==
    i \in 1..Len(queue) /\ queue[i].kind = "Result" /\ queue[i].call = c /\ queue[i].result = r

Given(e) == [code |-> CodeOf(e), request |-> e.request]

LEMMA ResultsMove ==
    ASSUME DispatchTypeOK, DispatchTypeOK', CallsOnce, [Next]_vars,
           NEW c \in Call, NEW given, Given(queue[1]) = given
    PROVE  /\ \A r \in Results(c) : r # NoResult => r \in Results(c)'
           /\ \A r \in Results(c)' : \/ r \in Results(c)
                                     \/ /\ Dispatch /\ Answers(queue[1]) /\ c = queue[1].call
                                        /\ r = given
           /\ Dispatch /\ Answers(queue[1]) /\ c = queue[1].call => given \in Results(c)'
<1> DEFINE n == Len(queue)
           Same == \A r : r \in Results(c) <=> r \in Results(c)'
<1>1. n \in Nat /\ queue \in Seq(Event) /\ queue' \in Seq(Event)
  BY DEF DispatchTypeOK
<1>2. /\ \A r : r \in Results(c) <=> r = answer[c] \/ \E i \in 1..n : Holds(i, c, r)
      /\ \A r : r \in Results(c)' <=>
                   r = answer'[c] \/ \E i \in 1..Len(queue') : Holds(i, c, r)'
  <2>1. \A r : r \in Results(c) <=> r = answer[c] \/ \E i \in 1..n : Holds(i, c, r)
    BY ResultsAre DEF Holds
  <2>2. DOMAIN queue' = 1..Len(queue')
    BY <1>1
  <2>3. \A r : r \in Results(c)' <=>
                  r = answer'[c] \/ \E i \in 1..Len(queue') : Holds(i, c, r)'
    BY <2>2 DEF Results, OnItsWay, Waiting, Holds
  <2> QED
    BY <2>1, <2>3
<1>3. ASSUME NEW e \in Event, Posted(e), Comes(e), UNCHANGED answer
      PROVE  Same
  <2>1. Kept({"Result"})
    BY <1>1, <1>3, PostKeeps DEF Comes, Shows
  <2>2. /\ \A r : \A i \in 1..n : Holds(i, c, r) => i \in 1..Len(queue') /\ Holds(i, c, r)'
        /\ \A r : \A i \in 1..Len(queue') : Holds(i, c, r)' => i \in 1..n /\ Holds(i, c, r)
    BY <2>1 DEF Kept, Holds
  <2> QED
    BY <1>2, <1>3, <2>2
<1>4. ASSUME n > 0, queue[1].kind # "Result",
             HandledNone \/ \E p \in Event : p.kind # "Result" /\ HandledOne(p),
             UNCHANGED answer
      PROVE  Same
  <2>1. Shifted({"Result"})
    BY <1>1, <1>4, HandleShifts
  <2>2. \A r : \A i \in 1..n : Holds(i, c, r) => i - 1 \in 1..Len(queue') /\ Holds(i - 1, c, r)'
    BY <1>4, <2>1 DEF Shifted, Holds
  <2>3. \A r : \A i \in 1..Len(queue') : Holds(i, c, r)' => i + 1 \in 1..n /\ Holds(i + 1, c, r)
    BY <2>1 DEF Shifted, Holds
  <2> QED
    BY <1>2, <1>4, <2>2, <2>3
<1>5. ASSUME n > 0, Answers(queue[1])
      PROVE  /\ \A r \in Results(c) : r \in Results(c)'
             /\ \A r \in Results(c)' : r \in Results(c) \/ (c = queue[1].call /\ r = given)
             /\ c = queue[1].call => given \in Results(c)'
  <2>1. PICK p \in Event : /\ p.kind = "Result" /\ p.call = queue[1].call /\ p.result = given
                          /\ HandledOne(p)
    BY <1>5 DEF Answers, Given
  <2>2. /\ Len(queue') = n /\ queue'[n] = p /\ n \in 1..n
        /\ \A i \in 1..(n - 1) : queue'[i] = queue[i + 1]
        /\ queue[1].kind = "Call" /\ UNCHANGED answer
    BY <1>1, <1>5, <2>1 DEF HandledOne, Answers
  <2>3. \A i \in 1..n :
           i = 1 \/ (i - 1 \in 1..(n - 1) /\ i - 1 \in 1..n /\ i = (i - 1) + 1)
    BY <1>1
  <2>4. \A i \in 1..n : i = n \/ (i \in 1..(n - 1) /\ i + 1 \in 1..n)
    BY <1>1
  <2>5. \A r : \A i \in 1..n : Holds(i, c, r) => i - 1 \in 1..n /\ Holds(i - 1, c, r)'
    BY <2>2, <2>3 DEF Holds
  <2>6. \A r : \A i \in 1..n : Holds(i, c, r)' =>
           \/ (i + 1 \in 1..n /\ Holds(i + 1, c, r))
           \/ (c = queue[1].call /\ r = given)
    <3>1. ASSUME NEW i \in 1..n, NEW r, Holds(i, c, r)', i # n
          PROVE  i + 1 \in 1..n /\ Holds(i + 1, c, r)
      BY <2>2, <2>4, <3>1 DEF Holds
    <3>2. ASSUME NEW r, Holds(n, c, r)'
          PROVE  c = queue[1].call /\ r = given
      BY <2>1, <2>2, <3>2 DEF Holds
    <3> QED
      BY <2>2, <3>1, <3>2 DEF Holds
  <2>7. c = queue[1].call => Holds(n, c, given)'
    BY <2>1, <2>2 DEF Holds
  <2>8. \A r \in Results(c) : r \in Results(c)'
    BY <1>2, <2>2, <2>5
  <2>9. \A r \in Results(c)' : r \in Results(c) \/ (c = queue[1].call /\ r = given)
    BY <1>2, <2>2, <2>6
  <2>10. c = queue[1].call => given \in Results(c)'
    BY <1>2, <2>2, <2>7
  <2> QED
    BY <2>8, <2>9, <2>10
<1>6. ASSUME n > 0, Gets(queue[1])
      PROVE  /\ \A r \in Results(c) : r # NoResult => r \in Results(c)'
             /\ \A r \in Results(c)' : r \in Results(c)
  <2>1. Shifted({"Result"}) /\ 1 \in 1..n
    BY <1>1, <1>6, HandleShifts DEF Gets
  <2>2. /\ \A r : Holds(1, c, r) <=> c = queue[1].call /\ r = queue[1].result
        /\ answer'[c] = IF c = queue[1].call THEN queue[1].result ELSE answer[c]
    BY <1>6, <2>1 DEF Gets, DispatchTypeOK, Holds
  <2>3. c = queue[1].call => answer[c] = NoResult
    <3>1. c = queue[1].call => Carries(1, c) /\ 1 \in 1..n
      BY <1>6, <2>1 DEF Gets, Carries
    <3> QED
      BY <3>1 DEF CallsOnce
  <2>4. \A r : \A i \in 1..n : 
           Holds(i, c, r) => i = 1 \/ (i - 1 \in 1..Len(queue') /\ Holds(i - 1, c, r)')
    BY <2>1 DEF Shifted, Holds
  <2>5. \A r : \A i \in 1..Len(queue') : Holds(i, c, r)' => i + 1 \in 1..n /\ Holds(i + 1, c, r)
    BY <2>1 DEF Shifted, Holds
  <2>6. \A r \in Results(c) : r # NoResult => r \in Results(c)'
    BY <1>2, <2>2, <2>3, <2>4
  <2>7. \A r \in Results(c)' : r \in Results(c)
    BY <1>2, <2>1, <2>2, <2>5
  <2> QED
    BY <2>6, <2>7
<1>7. CASE Dispatch
  <2>1. n > 0
    BY <1>1, <1>7 DEF Dispatch
  <2>2. CASE Quiet(queue[1])
    <3>1. Same
      BY <1>4, <2>1, <2>2 DEF Quiet, Shows
    <3> QED
      BY <2>2, <3>1 DEF Quiet, Answers
  <2>3. CASE Switches(queue[1])
    <3>1. HandledNone \/ \E p \in Event : p.kind = "SessionSet" /\ HandledOne(p)
      BY <2>3 DEF Switches
    <3>2. Same
      BY <1>4, <2>1, <2>3, <3>1 DEF Switches
    <3> QED
      BY <2>3, <3>2 DEF Switches, Answers
  <2>4. CASE Notes(queue[1])
    <3>1. \E p \in Event : p.kind = "MessagesSet" /\ HandledOne(p)
      BY <2>4 DEF Notes
    <3>2. Same
      BY <1>4, <2>1, <2>4, <3>1 DEF Notes
    <3> QED
      BY <2>4, <3>2 DEF Notes, Answers
  <2>5. CASE Stores(queue[1])
    <3>1. Same
      BY <1>4, <2>1, <2>5 DEF Stores
    <3> QED
      BY <2>5, <3>1 DEF Stores, Answers
  <2>6. CASE Answers(queue[1])
    BY <1>5, <1>7, <2>1, <2>6
  <2>7. CASE Gets(queue[1])
    BY <1>6, <2>1, <2>7 DEF Gets, Answers
  <2> QED
    BY <1>7, DispatchShape, <2>2, <2>3, <2>4, <2>5, <2>6, <2>7
<1>8. CASE UNCHANGED vars /\ ~Dispatch
  <2>1. Same
    BY <1>8 DEF vars, Results, OnItsWay, Waiting
  <2> QED
    BY <1>8, <2>1
<1>9. CASE ~UNCHANGED vars /\ ~Dispatch
  <2>1. Same
    BY <1>3, <1>9, OutsideStep DEF Next
  <2> QED
    BY <1>9, <2>1
<1> QED
  BY <1>7, <1>8, <1>9

(* The call that is handled reserves a level for a uid, or gives one up.   *)
Succeeds(name, uid) ==
    /\ Dispatch /\ Answers(queue[1])
    /\ CodeOf(queue[1]) = "PAS_SUCCESS"
    /\ queue[1].request.name = name
    /\ queue[1].request.uid = uid

LEMMA Handling ==
    ASSUME DispatchTypeOK, Dispatch, Answers(queue[1])
    PROVE  /\ queue[1].call \in Call /\ queue[1].request \in Request
           /\ queue[1].request.callId \in Uid
           /\ queue[1].request.uid \in Uid \cup {NoUid}
           /\ queue[1].request.priority \in Priority
           /\ \/ ArbitrationAdds(queue[1]) /\ queue[1].request.name = "arbitrationAdd"
              \/ ArbitrationRemoves(queue[1]) /\ queue[1].request.name = "arbitrationRemove"
              \/ ArbitrationUnknown(queue[1]) /\ queue[1].request.name = "other"
<1>1. queue[1] \in Event /\ queue[1].kind = "Call"
  BY DispatchShape DEF Answers
<1>2. queue[1].call \in Call /\ queue[1].request \in Request
  BY <1>1, EventFields
<1>3. ArbitrationAdds(queue[1]) \/ ArbitrationRemoves(queue[1]) \/ ArbitrationUnknown(queue[1])
  BY <1>1, DispatchShape DEF Quiet, Switches, Notes, Stores, Gets
<1> QED
  BY <1>2, <1>3, RequestFields
     DEF ArbitrationAdds, ArbitrationRemoves, ArbitrationUnknown

(* The calls that succeeded: the one that is handled joins them, and was   *)
(* not among them.                                                         *)
LEMMA SucceededStep ==
    ASSUME DispatchTypeOK, DispatchTypeOK', CallsOnce, [Next]_vars, NEW name, NEW uid
    PROVE  IF Succeeds(name, uid)
           THEN /\ queue[1].call \notin Succeeded(name, uid)
                /\ Succeeded(name, uid)' = Succeeded(name, uid) \cup {queue[1].call}
           ELSE Succeeded(name, uid)' = Succeeded(name, uid)
<1> DEFINE Says(r) == r \in Success(name) /\ r.request.uid = uid
<1>1. PICK given : given = Given(queue[1])
  OBVIOUS
<1>2. \A r : Says(r) => r # NoResult
  BY SuccessFields
<1>3. /\ \A c : c \in Succeeded(name, uid) <=> c \in Call /\ \E r \in Results(c) : Says(r)
      /\ \A c : c \in Succeeded(name, uid)' <=> c \in Call /\ \E r \in Results(c)' : Says(r)
  <2>1. \A c : c \in Succeeded(name, uid) <=> c \in Call /\ \E r \in Results(c) : Says(r)
    BY DEF Succeeded
  <2>2. \A c : c \in Succeeded(name, uid)' <=> c \in Call /\ \E r \in Results(c)' : Says(r)
    BY DEF Succeeded, Success, Request
  <2> QED
    BY <2>1, <2>2
<1>4. ASSUME Dispatch, Answers(queue[1])
      PROVE  Says(given) <=> Succeeds(name, uid)
  BY <1>1, <1>4, Handling DEF Success, Given, Succeeds
<1> HIDE DEF Says
<1>5. ASSUME NEW c \in Call
      PROVE  /\ c \in Succeeded(name, uid) => c \in Succeeded(name, uid)'
             /\ c \in Succeeded(name, uid)' /\ c \notin Succeeded(name, uid)
                   => Succeeds(name, uid) /\ c = queue[1].call
             /\ Succeeds(name, uid) /\ c = queue[1].call => c \in Succeeded(name, uid)'
  <2>1. /\ \A r \in Results(c) : r # NoResult => r \in Results(c)'
        /\ \A r \in Results(c)' : \/ r \in Results(c)
                                  \/ /\ Dispatch /\ Answers(queue[1]) /\ c = queue[1].call
                                     /\ r = given
        /\ Dispatch /\ Answers(queue[1]) /\ c = queue[1].call => given \in Results(c)'
    BY <1>1, ResultsMove
  <2>2. Succeeds(name, uid) => Dispatch /\ Answers(queue[1])
    BY DEF Succeeds
  <2> QED
    BY <1>2, <1>3, <1>4, <2>1, <2>2
<1>6. ASSUME Succeeds(name, uid)
      PROVE  queue[1].call \in Call /\ queue[1].call \notin Succeeded(name, uid)
  <2>1. PICK c \in Call : c = queue[1].call
    BY <1>6, Handling DEF Succeeds
  <2>2. 1 \in 1..Len(queue) /\ queue[1].kind = "Call"
    <3>1. 1 \in DOMAIN queue
      BY <1>6, DispatchShape DEF Succeeds
    <3> QED
      BY <1>6, <3>1 DEF Succeeds, Answers, DispatchTypeOK
  <2>3. Carries(1, c)
    BY <2>1, <2>2 DEF Carries
  <2>4. answer[c] = NoResult
    BY <2>2, <2>3 DEF CallsOnce
  <2>5. ~\E i \in 1..Len(queue) : queue[i].kind = "Result" /\ queue[i].call = c
    <3> SUFFICES ASSUME NEW i \in 1..Len(queue), queue[i].kind = "Result", queue[i].call = c
                 PROVE  FALSE
      OBVIOUS
    <3>1. Carries(i, c)
      BY DEF Carries
    <3>2. i = 1
      BY <2>2, <2>3, <3>1 DEF CallsOnce
    <3> QED
      BY <2>2, <3>2
  <2>6. \A r \in Results(c) : r = NoResult
    BY <2>4, <2>5, ResultsAre
  <2> QED
    BY <1>2, <1>3, <2>1, <2>6
<1>7. Succeeded(name, uid) \subseteq Call /\ Succeeded(name, uid)' \subseteq Call
  BY <1>3
<1> QED
  BY <1>5, <1>6, <1>7

(* The levels of a uid: one comes, one goes, or they stay.                 *)
LEMMA LevelsStep ==
    ASSUME DispatchTypeOK, [Next]_vars, NEW uid \in Uid
    PROVE  /\ Succeeds("arbitrationAdd", uid) =>
                 \E level \in Reserved' \ LevelsOf(uid) :
                    /\ level = queue[1].request.priority
                    /\ LevelsOf(uid)' = LevelsOf(uid) \cup {level}
           /\ Succeeds("arbitrationRemove", uid) =>
                 /\ queue[1].request.callId = uid
                 /\ \E level \in LevelsOf(uid) : LevelsOf(uid)' = LevelsOf(uid) \ {level}
           /\ ~Succeeds("arbitrationAdd", uid) /\ ~Succeeds("arbitrationRemove", uid) =>
                 LevelsOf(uid)' = LevelsOf(uid)
<1> DEFINE e == queue[1]
           map == m_priorityArbitrationMap
<1>0. /\ LevelsOf(uid) = {level \in Reserved : map[level] = uid}
      /\ LevelsOf(uid)' = {level \in Reserved' : map'[level] = uid}
  BY DEF LevelsOf
<1>1. CASE UNCHANGED m_priorityArbitrationMap /\ ~(Dispatch /\ Answers(e))
  BY <1>1 DEF Succeeds, LevelsOf, Reserved
<1>2. CASE Dispatch /\ Answers(e)
  <2>1. /\ e.request.callId \in Uid /\ e.request.uid \in Uid \cup {NoUid}
        /\ e.request.priority \in Priority
        /\ \/ ArbitrationAdds(e) /\ e.request.name = "arbitrationAdd"
           \/ ArbitrationRemoves(e) /\ e.request.name = "arbitrationRemove"
           \/ ArbitrationUnknown(e) /\ e.request.name = "other"
    BY <1>2, Handling
  <2>2. CASE ArbitrationAdds(e) /\ e.request.name = "arbitrationAdd"
    <3> DEFINE u == e.request.uid
               level == e.request.priority
    <3>1. CodeOf(e) = AddResult(u, level)
      BY <2>2 DEF CodeOf
    <3>2. /\ \A l \in Reserved : map'[l] = map[l]
          /\ IF AddResult(u, level) = "PAS_SUCCESS"
             THEN /\ level \notin Reserved
                  /\ Reserved' = Reserved \cup {level}
                  /\ map'[level] = u
             ELSE Reserved' = Reserved
      BY <2>1, <2>2, AddEffect DEF ArbitrationAdds, DispatchTypeOK
    <3>3. /\ Succeeds("arbitrationAdd", uid) <=> AddResult(u, level) = "PAS_SUCCESS" /\ u = uid
          /\ ~Succeeds("arbitrationRemove", uid)
      BY <1>2, <2>2, <3>1 DEF Succeeds
    <3> HIDE DEF u, level, e, map
    <3>4. CASE AddResult(u, level) = "PAS_SUCCESS"
      BY <1>0, <3>2, <3>3, <3>4 DEF level, e
    <3>5. CASE AddResult(u, level) # "PAS_SUCCESS"
      BY <1>0, <3>2, <3>3, <3>5
    <3> QED
      BY <3>4, <3>5
  <2>3. CASE ArbitrationRemoves(e) /\ e.request.name = "arbitrationRemove"
    <3> DEFINE u == e.request.uid
               id == e.request.callId
    <3>1. CodeOf(e) = RemoveResult(id, u)
      BY <2>3 DEF CodeOf
    <3>2. /\ \A l \in Reserved' : map'[l] = map[l]
          /\ IF RemoveResult(id, u) = "PAS_SUCCESS"
             THEN id = u /\ \E best \in LevelsOf(u) : Reserved' = Reserved \ {best}
             ELSE Reserved' = Reserved
      BY <2>1, <2>3, RemoveEffect DEF ArbitrationRemoves, DispatchTypeOK
    <3>3. /\ Succeeds("arbitrationRemove", uid) <=> RemoveResult(id, u) = "PAS_SUCCESS" /\ u = uid
          /\ ~Succeeds("arbitrationAdd", uid)
      BY <1>2, <2>3, <3>1 DEF Succeeds
    <3>4. LevelsOf(u) = {l \in Reserved : map[l] = u}
      BY DEF LevelsOf
    <3> HIDE DEF u, id, e, map
    <3>5. CASE RemoveResult(id, u) = "PAS_SUCCESS"
      BY <1>0, <3>2, <3>3, <3>4, <3>5 DEF id, e
    <3>6. CASE RemoveResult(id, u) # "PAS_SUCCESS"
      BY <1>0, <3>2, <3>3, <3>6
    <3> QED
      BY <3>5, <3>6
  <2>4. CASE ArbitrationUnknown(e) /\ e.request.name = "other"
    BY <2>4 DEF ArbitrationUnknown, Succeeds, LevelsOf, Reserved
  <2> QED
    BY <2>1, <2>2, <2>3, <2>4
<1>3. CASE Dispatch /\ ~Answers(e)
  BY <1>1, <1>3, DispatchShape DEF Quiet, Switches, Notes, Stores, Gets
<1>4. CASE UNCHANGED vars /\ ~Dispatch
  BY <1>1, <1>4 DEF vars
<1>5. CASE ~Dispatch /\ ~UNCHANGED vars
  BY <1>1, <1>5, OutsideStep DEF Next
<1> QED
  BY <1>2, <1>3, <1>4, <1>5

(* The parts of GrantedHolds.                                              *)
GrantedOrGivenUp ==
    \A c \in Call : \A result \in Results(c) \cap Success("arbitrationAdd") :
       GivenUp(result.request.uid) # {}
           \/ /\ result.request.priority \in Reserved
              /\ m_priorityArbitrationMap[result.request.priority] = result.request.uid

GivenUpById ==
    \A c \in Call : \A result \in Results(c) \cap Success("arbitrationRemove") :
       result.request.callId = result.request.uid

Counted(uid) ==
    /\ IsFiniteSet(LevelsOf(uid)) /\ IsFiniteSet(GivenUp(uid)) /\ IsFiniteSet(Granted(uid))
    /\ Cardinality(LevelsOf(uid)) + Cardinality(GivenUp(uid)) = Cardinality(Granted(uid))

GrantedInv == GrantedOrGivenUp /\ GivenUpById /\ \A uid \in Uid : Counted(uid)

(* A uid that a success speaks of is one.                                  *)
LEMMA GrantedUid ==
    ASSUME DispatchTypeOK, Dispatch, Answers(queue[1]), CodeOf(queue[1]) = "PAS_SUCCESS",
           queue[1].request.name \in {"arbitrationAdd", "arbitrationRemove"}
    PROVE  queue[1].request.uid \in Uid
BY Handling DEF CodeOf, AddResult, RemoveResult

LEMMA GrantedOrGivenUpStep ==
    ASSUME DispatchTypeOK, DispatchTypeOK', CallsOnce, GrantedOrGivenUp, [Next]_vars,
           \A uid \in Uid : Counted(uid)
    PROVE  GrantedOrGivenUp'
<1> SUFFICES ASSUME NEW c \in Call, NEW r \in Results(c)' \cap Success("arbitrationAdd")
             PROVE  \/ GivenUp(r.request.uid)' # {}
                    \/ /\ r.request.priority \in Reserved'
                       /\ m_priorityArbitrationMap'[r.request.priority] = r.request.uid
  BY DEF GrantedOrGivenUp, Success, Request
<1> DEFINE e == queue[1]
           uid == r.request.uid
           level == r.request.priority
<1>0. LevelsOf(uid)' = {l \in Reserved' : m_priorityArbitrationMap'[l] = uid}
  BY DEF LevelsOf
<1>1. CASE r \in Results(c)
  <2>1. GivenUp(uid) # {} \/ (level \in Reserved /\ m_priorityArbitrationMap[level] = uid)
    BY <1>1 DEF GrantedOrGivenUp
  <2>2. CASE GivenUp(uid) # {} \/ Succeeds("arbitrationRemove", uid)
    BY <2>2, SucceededStep DEF GivenUp
  <2>3. CASE /\ level \in Reserved /\ m_priorityArbitrationMap[level] = uid
             /\ ~Succeeds("arbitrationRemove", uid)
    <3>1. level \in LevelsOf(uid) /\ uid \in Uid
      BY <2>3 DEF LevelsOf, DispatchTypeOK, ArbitrationTypeOK
    <3>2. level \in LevelsOf(uid)'
      BY <2>3, <3>1, LevelsStep
    <3> QED
      BY <1>0, <3>2
  <2> QED
    BY <2>1, <2>2, <2>3
<1>2. CASE r \notin Results(c)
  <2>1. Dispatch /\ Answers(e) /\ r = [code |-> CodeOf(e), request |-> e.request]
    <3>1. PICK given : given = Given(e)
      OBVIOUS
    <3> QED
      BY <1>2, <3>1, ResultsMove DEF Given
  <2>2. r.request = e.request /\ CodeOf(e) = "PAS_SUCCESS" /\ e.request.name = "arbitrationAdd"
    BY <2>1, SuccessFields
  <2>3. uid \in Uid /\ Succeeds("arbitrationAdd", uid)
    BY <2>1, <2>2, GrantedUid DEF Succeeds
  <2>4. level \in LevelsOf(uid)'
    BY <2>2, <2>3, LevelsStep
  <2> QED
    BY <1>0, <2>4
<1> QED
  BY <1>1, <1>2

LEMMA GivenUpByIdStep ==
    ASSUME DispatchTypeOK, DispatchTypeOK', CallsOnce, GivenUpById, [Next]_vars
    PROVE  GivenUpById'
<1> SUFFICES ASSUME NEW c \in Call, NEW r \in Results(c)' \cap Success("arbitrationRemove")
             PROVE  r.request.callId = r.request.uid
  BY DEF GivenUpById, Success, Request
<1> DEFINE e == queue[1]
<1>1. CASE r \in Results(c)
  BY <1>1 DEF GivenUpById
<1>2. CASE r \notin Results(c)
  <2>1. Dispatch /\ Answers(e) /\ r = [code |-> CodeOf(e), request |-> e.request]
    <3>1. PICK given : given = Given(e)
      OBVIOUS
    <3> QED
      BY <1>2, <3>1, ResultsMove DEF Given
  <2>2. r.request = e.request /\ CodeOf(e) = "PAS_SUCCESS" /\ e.request.name = "arbitrationRemove"
    BY <2>1, SuccessFields
  <2>3. r.request.uid \in Uid /\ Succeeds("arbitrationRemove", r.request.uid)
    BY <2>1, <2>2, GrantedUid DEF Succeeds
  <2> QED
    BY <2>2, <2>3, LevelsStep
<1> QED
  BY <1>1, <1>2

(* A level more and a call more that has reserved one; a level less and a  *)
(* call more that has given one up; or neither.                            *)
LEMMA CountedStep ==
    ASSUME DispatchTypeOK, DispatchTypeOK', CallsOnce, [Next]_vars,
           NEW uid \in Uid, Counted(uid)
    PROVE  Counted(uid)'
<1> DEFINE call == queue[1].call
<1>1. /\ Cardinality(LevelsOf(uid)) \in Nat
      /\ Cardinality(GivenUp(uid)) \in Nat
      /\ Cardinality(Granted(uid)) \in Nat
  BY FS_CardinalityType DEF Counted
<1>2. ~(Succeeds("arbitrationAdd", uid) /\ Succeeds("arbitrationRemove", uid))
  BY DEF Succeeds
<1>3. CASE Succeeds("arbitrationAdd", uid)
  <2>1. Granted(uid)' = Granted(uid) \cup {call} /\ call \notin Granted(uid)
    BY <1>3, SucceededStep DEF Granted
  <2>2. GivenUp(uid)' = GivenUp(uid)
    BY <1>2, <1>3, SucceededStep DEF GivenUp
  <2>3. PICK level : level \notin LevelsOf(uid) /\ LevelsOf(uid)' = LevelsOf(uid) \cup {level}
    BY <1>3, LevelsStep
  <2>4. /\ IsFiniteSet(LevelsOf(uid)')
        /\ Cardinality(LevelsOf(uid)') = Cardinality(LevelsOf(uid)) + 1
    BY <2>3, FS_AddElement DEF Counted
  <2>5. /\ IsFiniteSet(Granted(uid)')
        /\ Cardinality(Granted(uid)') = Cardinality(Granted(uid)) + 1
    BY <2>1, FS_AddElement DEF Counted
  <2> QED
    BY <1>1, <2>2, <2>4, <2>5 DEF Counted
<1>4. CASE Succeeds("arbitrationRemove", uid)
  <2>1. GivenUp(uid)' = GivenUp(uid) \cup {call} /\ call \notin GivenUp(uid)
    BY <1>4, SucceededStep DEF GivenUp
  <2>2. Granted(uid)' = Granted(uid)
    BY <1>2, <1>4, SucceededStep DEF Granted
  <2>3. PICK level \in LevelsOf(uid) : LevelsOf(uid)' = LevelsOf(uid) \ {level}
    BY <1>4, LevelsStep
  <2>4. /\ IsFiniteSet(LevelsOf(uid)')
        /\ Cardinality(LevelsOf(uid)') = Cardinality(LevelsOf(uid)) - 1
    BY <2>3, FS_RemoveElement DEF Counted
  <2>5. /\ IsFiniteSet(GivenUp(uid)')
        /\ Cardinality(GivenUp(uid)') = Cardinality(GivenUp(uid)) + 1
    BY <2>1, FS_AddElement DEF Counted
  <2> QED
    BY <1>1, <2>2, <2>4, <2>5 DEF Counted
<1>5. CASE ~Succeeds("arbitrationAdd", uid) /\ ~Succeeds("arbitrationRemove", uid)
  <2>1. GivenUp(uid)' = GivenUp(uid) /\ Granted(uid)' = Granted(uid)
    BY <1>5, SucceededStep DEF GivenUp, Granted
  <2>2. LevelsOf(uid)' = LevelsOf(uid)
    BY <1>5, LevelsStep
  <2> QED
    BY <2>1, <2>2 DEF Counted
<1> QED
  BY <1>3, <1>4, <1>5

LEMMA GrantedInit == ASSUME Init PROVE GrantedInv
<1>1. \A c \in Call : \A r \in Results(c) : r = NoResult
  BY InitType, ResultsAre DEF Init
<1>2. \A name, uid : Succeeded(name, uid) = {}
  BY <1>1, SuccessFields DEF Succeeded
<1>3. \A uid \in Uid : LevelsOf(uid) = {}
  BY DEF Init, ArbitrationInit, LevelsOf, Reserved
<1>4. \A uid \in Uid : Counted(uid)
  BY <1>2, <1>3, FS_EmptySet DEF Counted, Granted, GivenUp
<1> QED
  BY <1>1, <1>4, SuccessFields DEF GrantedInv, GrantedOrGivenUp, GivenUpById

(* Whoever was told that a level is reserved for a uid can count on it     *)
(* until a call with that uid as its id gives one up; no level is lost and *)
(* none is given up twice.                                                 *)
THEOREM GrantedHoldsCorrect == Spec => []GrantedHolds
<1>1. Init => GrantedInv
  BY GrantedInit
<1>2. DispatchTypeOK /\ DispatchTypeOK' /\ CallsOnce /\ GrantedInv /\ [Next]_vars => GrantedInv'
  BY GrantedOrGivenUpStep, GivenUpByIdStep, CountedStep DEF GrantedInv
<1>3. GrantedInv => GrantedHolds
  BY DEF GrantedInv, GrantedHolds, GrantedOrGivenUp, GivenUpById, Counted
<1> QED
  BY <1>1, <1>2, <1>3, DispatchTypesCorrect, CallsInvariant, PTL DEF Spec

(* While the best level is a client's and no call with its uid as id has   *)
(* given a level up, no request of another switches the session, pauses    *)
(* the modules or adds a message.                                          *)
THEOREM HighestDecidesCorrect == Spec => HighestDecides
<1>1. ASSUME DispatchTypeOK, GrantedHolds, [Next]_vars, NEW c \in Call,
             answer[c] \in Success("arbitrationAdd"), answer[c].request.priority = 0,
             GivenUp(answer[c].request.uid) = {},
             <<session, modulesPaused, m_notificationMessages>>
                # <<session, modulesPaused, m_notificationMessages>>'
      PROVE  Head(queue).peer = answer[c].request.uid
  <2> DEFINE uid == answer[c].request.uid
             e == Head(queue)
  <2>1. 0 \in Reserved /\ m_priorityArbitrationMap[0] = uid
    BY <1>1 DEF GrantedHolds, Results
  <2>2. Min(Reserved) = 0
    <3>1. Reserved \in SUBSET Nat
      <4>1. ASSUME NEW level \in Reserved
            PROVE  level \in Nat
        <5>1. level \in Int /\ level >= 0
          BY <1>1, ArbitrationAssumption DEF DispatchTypeOK, ArbitrationTypeOK
        <5> QED
          BY <5>1
      <4> QED
        BY <4>1
    <3>2. Min(Reserved) \in Reserved /\ Min(Reserved) <= 0
      BY <2>1, <3>1, Smallest
    <3>3. Min(Reserved) \in Nat
      BY <3>1, <3>2, Zenon
    <3> QED
      BY <3>2, <3>3
  <2>3. Highest = uid /\ Reserved # {}
    BY <2>1, <2>2 DEF Highest
  <2>4. customEvent(e)
    BY <1>1, OutsideStep DEF Next, Dispatch, vars, controllerVars
  <2>5. Passes(e)
    BY <1>1, <2>4 DEF customEvent, ArbitrationDrops, ArbitrationSwallows, ArbitrationAdds,
          ArbitrationRemoves, ArbitrationUnknown, ControllerDropsSession,
          ControllerChangesSession, ControllerPauses, ControllerTakesMessage, StorageStores,
          ClientGets, controllerVars
  <2> QED
    BY <2>3, <2>5 DEF Passes, Dropped
<1>2. DispatchTypeOK /\ GrantedHolds /\ [Next]_vars
         => [\A c \in Call :
               /\ answer[c] \in Success("arbitrationAdd")
               /\ answer[c].request.priority = 0
               /\ GivenUp(answer[c].request.uid) = {}
               /\ <<session, modulesPaused, m_notificationMessages>>
                     # <<session, modulesPaused, m_notificationMessages>>'
               => Head(queue).peer = answer[c].request.uid]_vars
  BY <1>1
<1> QED
  BY <1>2, DispatchTypesCorrect, GrantedHoldsCorrect, PTL DEF Spec, HighestDecides

----------------------------------------------------------------------------
(***************************************************************************)
(* The contract of remote procedures.                                      *)
(***************************************************************************)
Pending(c) == \E i \in 1..Len(queue) : Carries(i, c)

StatusOf(answered, pending) ==
    IF answered THEN "answered" ELSE IF pending THEN "pending" ELSE "none"

LEMMA StatusIs ==
    ASSUME DispatchTypeOK, DispatchTypeOK'
    PROVE  /\ Status = [c \in Call |-> StatusOf(answer[c] # NoResult, Pending(c))]
           /\ Status' = [c \in Call |-> StatusOf(answer'[c] # NoResult, Pending(c)')]
<1>1. DOMAIN queue = 1..Len(queue) /\ DOMAIN queue' = 1..Len(queue')
  BY DEF DispatchTypeOK
<1>2. \A c \in Call : (OnItsWay(c) # {} <=> Pending(c)) /\ (OnItsWay(c)' # {} <=> Pending(c)')
  BY <1>1 DEF OnItsWay, Waiting, Carries, Pending
<1> QED
  BY <1>2 DEF Status, StatusOf

LEMMA ContractStep ==
    ASSUME DispatchTypeOK, DispatchTypeOK', CallsOnce, [Next]_vars
    PROVE  [Contract!Next]_(Contract!callsVars)
<1> DEFINE n == Len(queue)
<1>1. n \in Nat /\ queue \in Seq(Event) /\ queue' \in Seq(Event)
  BY DEF DispatchTypeOK
<1>2. /\ Status = [c \in Call |-> StatusOf(answer[c] # NoResult, Pending(c))]
      /\ Status' = [c \in Call |-> StatusOf(answer'[c] # NoResult, Pending(c)')]
  BY StatusIs
<1>3. ASSUME UNCHANGED answer, \A c \in Call : Pending(c)' <=> Pending(c)
      PROVE  UNCHANGED Contract!callsVars
  BY <1>2, <1>3 DEF Contract!callsVars, StatusOf
<1>4. ASSUME NEW e \in Event, Posted(e), Comes(e), UNCHANGED answer
      PROVE  [Contract!Next]_(Contract!callsVars)
  <2>1. CASE e.kind # "Call"
    <3>1. Kept({"Call", "Result"})
      BY <1>1, <1>4, <2>1, PostKeeps DEF Comes, Shows
    <3>2. \A c \in Call : Pending(c)' <=> Pending(c)
      BY <3>1 DEF Kept, Pending, Carries
    <3> QED
      BY <1>3, <1>4, <3>2
  <2>2. CASE e.kind = "Call"
    <3> DEFINE d == e.call
    <3>1. d \in Call /\ answer[d] = NoResult /\ OnItsWay(d) = {}
      BY <1>4, <2>2, EventFields DEF Comes, Shows
    <3>2. ~Pending(d)
      BY <3>1, OnTheWay DEF Pending
    <3>3. Pending(d)'
      <4>1. n + 1 \in 1..Len(queue') /\ queue'[n + 1] = e
        BY <1>1, <1>4 DEF Posted
      <4> QED
        BY <2>2, <4>1 DEF Pending, Carries
    <3>4. ASSUME NEW c \in Call, c # d
          PROVE  Pending(c)' <=> Pending(c)
      <4>1. /\ \A i \in 1..Len(queue') : i = n + 1 \/ i \in 1..n
            /\ \A i \in 1..n : i \in 1..Len(queue') /\ queue'[i] = queue[i]
            /\ queue'[n + 1] = e
        BY <1>1, <1>4 DEF Posted
      <4> QED
        BY <3>4, <4>1 DEF Pending, Carries
    <3> HIDE DEF d
    <3>5. Contract!Take(d)
      BY <1>2, <1>4, <3>1, <3>2, <3>3, <3>4 DEF Contract!Take, StatusOf
    <3> QED
      BY <3>1, <3>5 DEF Contract!Next
  <2> QED
    BY <2>1, <2>2
<1>5. ASSUME n > 0, queue[1].kind \notin {"Call", "Result"},
             HandledNone \/ \E p \in Event : p.kind \notin {"Call", "Result"} /\ HandledOne(p),
             UNCHANGED answer
      PROVE  UNCHANGED Contract!callsVars
  <2>1. Shifted({"Call", "Result"})
    BY <1>1, <1>5, HandleShifts
  <2>2. \A c \in Call : Pending(c)' <=> Pending(c)
    BY <1>5, <2>1 DEF Shifted, Pending, Carries
  <2> QED
    BY <1>3, <1>5, <2>2
<1>6. ASSUME n > 0, Answers(queue[1])
      PROVE  UNCHANGED Contract!callsVars
  <2>1. PICK p \in Event : p.kind = "Result" /\ p.call = queue[1].call /\ HandledOne(p)
    BY <1>6 DEF Answers
  <2>2. /\ Len(queue') = n /\ queue'[n] = p /\ n \in 1..n /\ 1 \in 1..n
        /\ \A i \in 1..(n - 1) : queue'[i] = queue[i + 1]
        /\ queue[1].kind = "Call" /\ UNCHANGED answer
    BY <1>1, <1>6, <2>1 DEF HandledOne, Answers
  <2>3. \A i \in 1..n :
           i = 1 \/ (i - 1 \in 1..(n - 1) /\ i - 1 \in 1..n /\ i = (i - 1) + 1)
    BY <1>1
  <2>4. \A i \in 1..n : i = n \/ (i \in 1..(n - 1) /\ i + 1 \in 1..n)
    BY <1>1
  <2>5. ASSUME NEW c \in Call, Pending(c)
        PROVE  Pending(c)'
    <3>1. PICK i \in 1..n : Carries(i, c)
      BY <2>5 DEF Pending
    <3>2. CASE i = 1
      BY <2>1, <2>2, <3>1, <3>2 DEF Pending, Carries
    <3>3. CASE i # 1
      <4>1. i - 1 \in 1..(n - 1) /\ i - 1 \in 1..Len(queue') /\ (i - 1) + 1 = i
        BY <2>2, <2>3, <3>3
      <4>2. queue'[i - 1] = queue[i]
        BY <2>2, <4>1
      <4> QED
        BY <3>1, <4>1, <4>2 DEF Pending, Carries
    <3> QED
      BY <3>2, <3>3
  <2>6. ASSUME NEW c \in Call, Pending(c)'
        PROVE  Pending(c)
    <3>1. PICK i \in 1..n : Carries(i, c)'
      BY <2>2, <2>6 DEF Pending
    <3>2. CASE i = n
      BY <2>1, <2>2, <3>1, <3>2 DEF Pending, Carries
    <3>3. CASE i # n
      BY <2>2, <2>4, <3>1, <3>3 DEF Pending, Carries
    <3> QED
      BY <3>2, <3>3
  <2> QED
    BY <1>3, <2>2, <2>5, <2>6
<1>7. ASSUME n > 0, Gets(queue[1])
      PROVE  Contract!Next
  <2> DEFINE d == queue[1].call
  <2>1. d \in Call /\ queue[1].result \in Result /\ Carries(1, d) /\ 1 \in 1..n
    BY <1>1, <1>7, EventFields DEF Gets, Carries
  <2>2. answer[d] = NoResult /\ Pending(d)
    BY <2>1 DEF CallsOnce, Pending
  <2>3. answer'[d] # NoResult
    <3>1. answer'[d] = queue[1].result
      BY <1>7, <2>1 DEF Gets, DispatchTypeOK
    <3>2. queue[1].result.code # NoResult.code
      BY <2>1 DEF Result, Code, NoResult
    <3> QED
      BY <3>1, <3>2
  <2>4. Shifted({"Call", "Result"})
    BY <1>1, <1>7, HandleShifts DEF Gets
  <2>5. ASSUME NEW c \in Call, c # d
        PROVE  answer'[c] = answer[c] /\ (Pending(c)' <=> Pending(c))
    <3>1. answer'[c] = answer[c]
      BY <1>7, <2>5 DEF Gets, DispatchTypeOK
    <3>2. Pending(c) => Pending(c)'
      BY <2>4, <2>5 DEF Shifted, Pending, Carries
    <3>3. Pending(c)' => Pending(c)
      BY <2>4 DEF Shifted, Pending, Carries
    <3> QED
      BY <3>1, <3>2, <3>3
  <2> HIDE DEF d
  <2>6. Contract!Answer(d)
    BY <1>2, <2>1, <2>2, <2>3, <2>5 DEF Contract!Answer, StatusOf
  <2> QED
    BY <2>1, <2>6 DEF Contract!Next
<1>8. CASE Dispatch
  <2>1. n > 0
    BY <1>1, <1>8 DEF Dispatch
  <2>2. CASE Quiet(queue[1])
    BY <1>5, <2>1, <2>2 DEF Quiet, Shows
  <2>3. CASE Switches(queue[1])
    <3>1. HandledNone \/ \E p \in Event : p.kind = "SessionSet" /\ HandledOne(p)
      BY <2>3 DEF Switches
    <3> QED
      BY <1>5, <2>1, <2>3, <3>1 DEF Switches
  <2>4. CASE Notes(queue[1])
    <3>1. \E p \in Event : p.kind = "MessagesSet" /\ HandledOne(p)
      BY <2>4 DEF Notes
    <3> QED
      BY <1>5, <2>1, <2>4, <3>1 DEF Notes
  <2>5. CASE Stores(queue[1])
    BY <1>5, <2>1, <2>5 DEF Stores
  <2> QED
    BY <1>6, <1>7, <1>8, DispatchShape, <2>1, <2>2, <2>3, <2>4, <2>5
<1>9. CASE UNCHANGED vars
  BY <1>3, <1>9 DEF vars, Pending, Carries
<1> QED
  BY <1>4, <1>8, <1>9, OutsideStep DEF Next

(* The procedures of the arbitration system keep the contract of remote    *)
(* procedures: a call is taken once and answered once.                     *)
THEOREM DispatchContractKept == Spec => KeepsContract
<1>1. Init => Contract!Init
  <2> SUFFICES ASSUME Init PROVE Contract!Init
    OBVIOUS
  <2>1. \A c \in Call : answer[c] = NoResult /\ OnItsWay(c) = {}
    BY DEF Init, OnItsWay, Waiting
  <2>2. Status = [c \in Call |-> "none"]
    BY <2>1 DEF Status
  <2> QED
    BY <2>2 DEF Contract!Init
<1>2. DispatchTypeOK /\ DispatchTypeOK' /\ CallsOnce /\ [Next]_vars
         => [Contract!Next]_(Contract!callsVars)
  BY ContractStep
<1> QED
  BY <1>1, <1>2, DispatchTypesCorrect, CallsInvariant, PTL DEF Spec, KeepsContract, Contract!Spec

----------------------------------------------------------------------------
(***************************************************************************)
(* The controller and the manager.                                         *)
(***************************************************************************)
controlPartVars == <<session, currentSession, sessionReady, modulesPaused>>

LEMMA ControlStep ==
    ASSUME DispatchTypeOK, [Next]_vars
    PROVE  [ControlPart!ControlNext]_controlPartVars
<1>1. ASSUME NEW e \in Event, ControllerDropsSession(e)
      PROVE  ControlPart!ControlNext
  <2>1. e.session \in SessionName
    BY <1>1, EventFields DEF ControllerDropsSession
  <2>2. ControlPart!Drop(e.session)
    BY <1>1 DEF ControllerDropsSession, requestSession, ControlPart!Drop
  <2> QED
    BY <2>1, <2>2 DEF ControlPart!ControlNext
<1>2. ASSUME NEW e \in Event, ControllerChangesSession(e)
      PROVE  ControlPart!ControlNext
  <2>1. e.session \in SessionName
    BY <1>2, EventFields DEF ControllerChangesSession
  <2>2. session' = IF e.session \in Session THEN e.session ELSE session
    BY <1>2 DEF ControllerChangesSession, ManagerRefuses, ManagerSwitches
  <2>3. ControlPart!Take(e.session)
    BY <1>2, <2>2 DEF ControllerChangesSession, ControlPart!Take
  <2> QED
    BY <2>1, <2>3 DEF ControlPart!ControlNext
<1>3. ASSUME NEW e \in Event, ControllerPauses(e)
      PROVE  ControlPart!ControlNext
  <2>1. modulesPaused' \in BOOLEAN
    BY <1>3, EventFields DEF ControllerPauses, storePaused
  <2> QED
    BY <1>3, <2>1
    DEF ControllerPauses, storePaused, ControlPart!Pause, ControlPart!ControlNext
<1>4. ASSUME NEW e \in Event, customEvent(e)
      PROVE  [ControlPart!ControlNext]_controlPartVars
  <2>1. CASE \/ ArbitrationDrops(e) \/ ArbitrationSwallows(e) \/ ArbitrationAdds(e)
             \/ ArbitrationRemoves(e) \/ ArbitrationUnknown(e)
             \/ ControllerTakesMessage(e) \/ StorageStores(e) \/ ClientGets(e)
    BY <2>1
    DEF ArbitrationDrops, ArbitrationSwallows, ArbitrationAdds, ArbitrationRemoves,
        ArbitrationUnknown, ControllerTakesMessage, StorageStores, ClientGets,
        controllerVars, controlPartVars
  <2> QED
    BY <1>1, <1>2, <1>3, <1>4, <2>1 DEF customEvent
<1>5. CASE Dispatch
  BY <1>4, <1>5, DispatchShape
<1>6. CASE ModulesLoaded
  BY <1>6
  DEF ModulesLoaded, initializeEntity, ControlPart!Announce, ControlPart!ControlNext
<1>7. CASE \/ \E peer \in Peer : ClientSets(peer)
           \/ \E c \in Call : ClientCalls(c)
           \/ \E m \in Message : ReportError(m)
           \/ UNCHANGED vars
  BY <1>7 DEF ClientSets, ClientCalls, ReportError, vars, controllerVars, controlPartVars
<1> QED
  BY <1>5, <1>6, <1>7 DEF Next

(* The controller keeps SessionControl here as it does with the manager    *)
(* itself (ControlKept of SessionLifecycle_proofs).                        *)
THEOREM DispatchControlKept == Spec => KeepsControl
<1>1. Init => ControlPart!ControlInit
  BY DEF Init, ControllerInit, ControlPart!ControlInit
<1>2. DispatchTypeOK /\ [Next]_vars => [ControlPart!ControlNext]_controlPartVars
  BY ControlStep
<1> QED
  BY <1>1, <1>2, DispatchTypesCorrect, PTL
  DEF Spec, KeepsControl, ControlPart!ControlSpec, controlPartVars
=============================================================================
