------------------------ MODULE SessionLifecycle_proofs ------------------------
(***************************************************************************)
(* The program implements SessionLifecycle and SessionControl, for every   *)
(* set of sessions, modules, licenses and serial numbers: with the         *)
(* invariant of ZeraModuleManager_proofs every step of the program is a    *)
(* step of the life of a session, and one of the interface to clients, or  *)
(* is not seen there.                                                      *)
(***************************************************************************)
EXTENDS ZeraModuleManager_proofs

(* What the refinement shows of the program.                               *)
Up == In({"activating", "failed"})
Down == In({"stopping"})
Open == sessionReady /\ control # "changeSession"

lifecycleVars == <<sessionPath, moduleList, Up, Down, Open>>

(* The modules named by Up and Down are in the list, and not both.         *)
LEMMA UpAndDown ==
    ASSUME ManagerInv
    PROVE  /\ Up \subseteq moduleList
           /\ Down \subseteq moduleList
           /\ ~moduleStartLock => Up = {} /\ Down = {}
           /\ Up # {} => Down = {}
           /\ Down # {} => Up = {}
BY DEF ManagerInv, ListIsAlive, LockHasHolder, SessionsDoNotMix, In, Up, Down

(* While the lock is held, and while modules wait, the gate is closed.     *)
LEMMA ClosedWhileBusy ==
    ASSUME IInv, moduleStartLock \/ deferredStartList # <<>>
    PROVE  ~Open
BY DEF IInv, GateOpenOnlyWhenSettled, Open

(* A module was started, and the list is as SessionLifecycle has it.       *)
OneStarted(list) ==
    \E e \in Entry \ list :
        /\ e.session = sessionPath
        /\ \A f \in list : f.session = sessionPath
        /\ Up' = {e}
        /\ moduleList' = list \cup {e}
        /\ sigModulesLoaded' = FALSE

NoneStarted(list) == Up' = {} /\ moduleList' = list

LEMMA StartSeen ==
    ASSUME NEW from, NEW d, NEW list, NEW ph,
           Quiet(d, list, ph), Result(from, d, list, ph)
    PROVE  /\ Down' = {}
           /\ OneStarted(list) \/ NoneStarted(list)
<1>1. CASE Nothing(list, ph)
  <2>1. phase' = ph /\ moduleList' = list
    BY <1>1 DEF Nothing
  <2>2. Up' = {} /\ Down' = {}
    BY <2>1 DEF Quiet, Up, Down, In
  <2> QED
    BY <2>1, <2>2 DEF NoneStarted
<1>2. ASSUME NEW e \in Entry \ list,
             e.session = sessionPath, sigModulesLoaded' = FALSE,
             moduleList' = list \cup {e}, phase' = [ph EXCEPT ![e] = "activating"]
      PROVE  Down' = {} /\ OneStarted(list)
  <2>1. /\ phase'[e] = "activating"
        /\ \A f \in Entry : f # e => phase'[f] \in {"absent", "active"}
    BY <1>2 DEF Quiet
  <2>2. Up' = {e} /\ Down' = {}
    BY <2>1 DEF Up, Down, In
  <2> QED
    BY <1>2, <2>2 DEF Quiet, OneStarted
<1> QED
  BY <1>1, <1>2 DEF Result, OneOf

----------------------------------------------------------------------------
(***************************************************************************)
(* The steps of SessionLifecycle in terms of the program.                  *)
(***************************************************************************)
(* Nothing was coming up or going down.                                    *)
LEMMA QuietStep ==
    ASSUME Up = {}, Down = {}, Down' = {}, UNCHANGED sessionPath,
           \/ OneStarted(moduleList) /\ ~Open /\ ~Open'
           \/ NoneStarted(moduleList) /\ (Open => Open')
    PROVE  Lifecycle!LifecycleNext
<1>1. CASE OneStarted(moduleList) /\ ~Open /\ ~Open'
  <2>1. Lifecycle!Begin
    BY <1>1
    DEF Lifecycle!Begin, Lifecycle!StartOne, OneStarted, Up, Down, Open
  <2> QED
    BY <2>1 DEF Lifecycle!LifecycleNext
<1>2. CASE NoneStarted(moduleList) /\ (Open => Open')
  <2>1. Lifecycle!Settle
    BY <1>2, Zenon
    DEF Lifecycle!Settle, Lifecycle!StartNone, NoneStarted, Up, Down, Open
  <2> QED
    BY <2>1 DEF Lifecycle!LifecycleNext
<1> QED
  BY <1>1, <1>2

(* A module came up, and the next one may.                                 *)
LEMMA FinishStep ==
    ASSUME Up # {}, Down = {}, Down' = {}, UNCHANGED sessionPath, ~Open,
           \/ OneStarted(moduleList) /\ ~Open'
           \/ NoneStarted(moduleList)
    PROVE  Lifecycle!LifecycleNext
<1>1. CASE OneStarted(moduleList) /\ ~Open'
  <2>1. Lifecycle!Finish
    BY <1>1
    DEF Lifecycle!Finish, Lifecycle!StartOne, OneStarted, Up, Down, Open
  <2> QED
    BY <2>1 DEF Lifecycle!LifecycleNext
<1>2. CASE NoneStarted(moduleList)
  <2>1. Lifecycle!Finish
    BY <1>2, Zenon
    DEF Lifecycle!Finish, Lifecycle!StartNone, NoneStarted, Up, Down, Open
  <2> QED
    BY <2>1 DEF Lifecycle!LifecycleNext
<1> QED
  BY <1>1, <1>2

(* A module is gone, and with the last one of a session the next may come  *)
(* up.                                                                     *)
LEMMA RetireStep ==
    ASSUME NEW e \in Entry, e \in Down, Up = {}, Down' = Down \ {e},
           UNCHANGED sessionPath, ~Open,
           \/ OneStarted(moduleList \ {e}) /\ ~Open' /\ Down' = {}
           \/ NoneStarted(moduleList \ {e}) /\ (Down' # {} => ~Open')
    PROVE  Lifecycle!LifecycleNext
<1>1. CASE OneStarted(moduleList \ {e}) /\ ~Open' /\ Down' = {}
  <2>1. Lifecycle!Retire(e)
    BY <1>1
    DEF Lifecycle!Retire, Lifecycle!StartOne, OneStarted, Up, Down, Open
  <2> QED
    BY <2>1 DEF Lifecycle!LifecycleNext
<1>2. CASE NoneStarted(moduleList \ {e}) /\ (Down' # {} => ~Open')
  <2>1. Lifecycle!Retire(e)
    BY <1>2, Zenon
    DEF Lifecycle!Retire, Lifecycle!StartNone, NoneStarted, Up, Down, Open
  <2> QED
    BY <2>1 DEF Lifecycle!LifecycleNext
<1> QED
  BY <1>1, <1>2

----------------------------------------------------------------------------
(***************************************************************************)
(* The actions of the program.                                             *)
(***************************************************************************)
(* What SessionLifecycle sees depends on this much of the state.           *)
LEMMA Unseen ==
    ASSUME UNCHANGED <<sessionPath, moduleList, phase>>, Open' <=> Open
    PROVE  UNCHANGED lifecycleVars
<1>1. UNCHANGED <<Up, Down>>
  BY DEF Up, Down, In
<1>2. Open' = Open
  BY DEF Open
<1> QED
  BY <1>1, <1>2 DEF lifecycleVars

(* Steps in which the manager takes no part, and those that leave the      *)
(* modules as they are.                                                    *)
LEMMA UnseenSteps ==
    ASSUME IInv,
           \/ EnterEventLoop \/ SessionChanged \/ AddSubsystems \/ MonthPasses
           \/ \E s \in SessionName : DropSession(s)
           \/ \E serial \in Serial : PublishSerial(serial)
           \/ \E paused \in BOOLEAN : SetPaused(paused)
           \/ \E e \in Entry : AddEventSystem(e)
           \/ UNCHANGED vars
    PROVE  UNCHANGED lifecycleVars
<1>1. UNCHANGED <<sessionPath, moduleList, phase>>
  BY DEF EnterEventLoop, SessionChanged, AddSubsystems, MonthPasses, DropSession,
         PublishSerial, SetPaused, AddEventSystem, ManagerSilent, setModulesPaused,
         onModuleEventSystemAdded, vars, managerVars
<1>2. Open' <=> Open
  BY DEF IInv, ControlInv, Open, EnterEventLoop, SessionChanged, AddSubsystems,
         MonthPasses, DropSession, PublishSerial, SetPaused, AddEventSystem,
         afterChangeSession, requestSession, storePaused, vars, controllerVars
<1> QED
  BY <1>1, <1>2, Unseen

(* A failed module is still coming up.                                     *)
LEMMA FailsUnseen ==
    ASSUME IInv, NEW e \in Entry, Fails(e)
    PROVE  UNCHANGED lifecycleVars
<1>1. /\ phase[e] = "activating" /\ phase' = [phase EXCEPT ![e] = "failed"]
      /\ UNCHANGED <<sessionPath, moduleList>>
      /\ UNCHANGED controllerVars /\ UNCHANGED control
  BY DEF Fails, moduleFails, NoStart
<1>2. phase'[e] = "failed" /\ \A f \in Entry : f # e => phase'[f] = phase[f]
  BY <1>1 DEF IInv, ManagerInv
<1>3. UNCHANGED <<Up, Down>>
  BY <1>1, <1>2 DEF Up, Down, In
<1>4. Open' = Open
  BY <1>1 DEF Open, controllerVars
<1> QED
  BY <1>1, <1>3, <1>4 DEF lifecycleVars

(* A request that passes the gate is refused or switches the session.      *)
LEMMA SetSessionSeen ==
    ASSUME IInv, NEW s \in SessionName, SetSession(s)
    PROVE  Lifecycle!LifecycleNext
<1>1. control = "eventLoop" /\ sessionReady /\ control' = "changeSession"
  BY DEF SetSession
<1>2. Open /\ ~Open'
  BY <1>1 DEF Open
<1>3. ~moduleStartLock /\ Up = {} /\ Down = {} /\ moduleList' = moduleList
  BY <1>2, UpAndDown, ClosedWhileBusy DEF IInv, SetSession, changeSessionFile
<1>4. CASE ~SwitchesTo(s)
  <2>1. UNCHANGED <<sessionPath, phase>>
    BY <1>4 DEF SetSession, changeSessionFile
  <2>2. UNCHANGED <<Up, Down>>
    BY <2>1 DEF Up, Down, In
  <2>3. Lifecycle!Refuse
    BY <1>2, <1>3, <2>1, <2>2, Zenon DEF Lifecycle!Refuse, Up, Down, Open
  <2> QED
    BY <2>3 DEF Lifecycle!LifecycleNext
<1>5. CASE SwitchesTo(s)
  <2>1. /\ s \in Session /\ s # sessionPath /\ sessionPath' = s
        /\ phase' = [e \in Entry |-> IF e \in moduleList THEN "stopping" ELSE phase[e]]
    BY <1>5 DEF SetSession, changeSessionFile, SwitchesTo
  <2>2. moduleList \subseteq Entry /\ Up' = {} /\ Down' = moduleList
    BY <1>3, <2>1 DEF IInv, ManagerInv, Up, Down, In
  <2>3. Lifecycle!Switch(s)
    BY <1>2, <1>3, <2>1, <2>2, Zenon DEF Lifecycle!Switch, Up, Down, Open
  <2> QED
    BY <2>1, <2>3 DEF Lifecycle!LifecycleNext
<1> QED
  BY <1>4, <1>5

(* Handlers of the event loop that end in onModuleStartNext.               *)
LEMMA NextSeen ==
    ASSUME IInv, NEW list, NEW ph,
           Quiet(deferredStartList, list, ph),
           serialNumberInitialized,
           onModuleStartNext(deferredStartList, list, ph),
           ControllerReacts,
           control \in {"eventLoop", "serialStart"},
           control' = "eventLoop"
    PROVE  /\ Down' = {}
           /\ \/ OneStarted(list) /\ ~Open /\ ~Open'
              \/ NoneStarted(list) /\ (Open => Open')
<1>1. /\ Result(Elements(deferredStartList), deferredStartList, list, ph)
      /\ deferredStartList = <<>> => sigModulesLoaded'
  BY NextStarted DEF IInv, OtherTypes, LicenseTypeOK
<1>2. Down' = {} /\ (OneStarted(list) \/ NoneStarted(list))
  BY <1>1, StartSeen
<1>3. CASE OneStarted(list)
  <2>1. sigModulesLoaded' = FALSE
    BY <1>3 DEF OneStarted
  <2>2. ~Open
    BY <1>1, <2>1, ClosedWhileBusy
  <2>3. UNCHANGED controllerVars
    BY <2>1 DEF ControllerReacts
  <2>4. ~Open'
    BY <2>2, <2>3 DEF Open, controllerVars
  <2> QED
    BY <1>2, <1>3, <2>2, <2>4
<1>4. CASE NoneStarted(list)
  <2>1. Open => Open'
    BY DEF Open, ControllerReacts, initializeEntity, controllerVars
  <2> QED
    BY <1>2, <1>4, <2>1
<1> QED
  BY <1>2, <1>3, <1>4

LEMMA ActivatedSeen ==
    ASSUME IInv, NEW e \in Entry, Activated(e)
    PROVE  Lifecycle!LifecycleNext
<1> DEFINE ph == [phase EXCEPT ![e] = "active"]
<1>1. /\ control = "eventLoop" /\ control' = "eventLoop" /\ phase[e] = "activating"
      /\ delayedModuleStartNext(FALSE, ph)
      /\ sessionPath' = sessionPath
      /\ ControllerReacts
  BY DEF Activated, moduleActivated
<1>2. Quiet(deferredStartList, moduleList, ph) /\ moduleStartLock
  BY <1>1, QuietWhenActivated DEF IInv
<1>3. ~Open
  BY <1>2, ClosedWhileBusy
<1>4. Up # {} /\ Down = {}
  <2>1. e \in Up
    BY <1>1 DEF Up, In
  <2> QED
    BY <2>1, UpAndDown DEF IInv
<1>5. /\ Down' = {}
      /\ (OneStarted(moduleList) /\ ~Open') \/ NoneStarted(moduleList)
  <2>1. CASE serialNumberInitialized
    <3>1. onModuleStartNext(deferredStartList, moduleList, ph)
      BY <1>1, <1>2, <2>1 DEF delayedModuleStartNext
    <3> HIDE DEF ph
    <3> QED
      BY <1>1, <1>2, <2>1, <3>1, NextSeen
  <2>2. CASE ~serialNumberInitialized
    <3>1. phase' = ph /\ moduleList' = moduleList
      BY <1>1, <2>2 DEF delayedModuleStartNext, NoStart
    <3> HIDE DEF ph
    <3>2. Up' = {} /\ Down' = {}
      BY <1>2, <3>1 DEF Quiet, Up, Down, In
    <3> QED
      BY <3>1, <3>2 DEF NoneStarted
  <2> QED
    BY <2>1, <2>2
<1> QED
  BY <1>1, <1>3, <1>4, <1>5, FinishStep

LEMMA DeactivatedSeen ==
    ASSUME IInv, NEW e \in Entry, Deactivated(e)
    PROVE  Lifecycle!LifecycleNext
<1> DEFINE list == moduleList \ {e}
           ph == [phase EXCEPT ![e] = "absent"]
<1>1. /\ control = "eventLoop" /\ control' = "eventLoop" /\ phase[e] = "stopping"
      /\ checkModuleList(list, ph)
      /\ sessionPath' = sessionPath
      /\ ControllerReacts
  BY DEF Deactivated, onModuleDelete
<1>2. e \in Down /\ Up = {} /\ Down \subseteq moduleList
  <2>1. e \in Down
    BY <1>1 DEF Down, In
  <2> QED
    BY <2>1, UpAndDown DEF IInv
<1>3. ~Open
  <2>1. moduleStartLock
    BY <1>2, UpAndDown DEF IInv, ManagerInv
  <2> QED
    BY <2>1, ClosedWhileBusy
<1>4. CASE list = {}
  <2>1. serialNumberInitialized
    BY <1>1 DEF IInv, SerialBeforeSwitch, In
  <2>2. Quiet(deferredStartList, list, ph)
    BY <1>1, <1>4, QuietWhenGone DEF IInv
  <2>3. onModuleStartNext(deferredStartList, list, ph)
    BY <1>1, <1>4 DEF checkModuleList
  <2>4. Down \ {e} = {}
    BY <1>2, <1>4
  <2> HIDE DEF list, ph
  <2>5. /\ Down' = {}
        /\ \/ OneStarted(list) /\ ~Open /\ ~Open'
           \/ NoneStarted(list)
    BY <1>1, <2>1, <2>2, <2>3, NextSeen
  <2> QED
    BY <1>1, <1>2, <1>3, <2>4, <2>5, RetireStep DEF list
<1>5. CASE list # {}
  <2>1. /\ moduleList' = list /\ phase' = ph /\ sigModulesLoaded' = FALSE
    BY <1>1, <1>5 DEF checkModuleList, NoStart
  <2>2. phase'[e] = "absent" /\ \A f \in Entry : f # e => phase'[f] = phase[f]
    BY <2>1 DEF IInv, ManagerInv
  <2>3. Up' = {} /\ Down' = Down \ {e}
    BY <1>1, <1>2, <2>2 DEF Up, Down, In
  <2>4. ~Open'
    BY <1>1, <1>3, <2>1 DEF Open, ControllerReacts, controllerVars
  <2>5. NoneStarted(list)
    BY <2>1, <2>3 DEF NoneStarted
  <2> QED
    BY <1>1, <1>2, <1>3, <2>3, <2>4, <2>5, RetireStep
<1> QED
  BY <1>4, <1>5

LEMMA DestroyedSeen ==
    ASSUME IInv, Destroyed
    PROVE  Lifecycle!LifecycleNext \/ UNCHANGED lifecycleVars
<1>1. /\ control = "eventLoop" /\ control' = "eventLoop" /\ destroying > 0
      /\ checkModuleList(moduleList, phase)
      /\ sessionPath' = sessionPath
      /\ ControllerReacts
  BY DEF Destroyed, moduleDestroyed
<1>2. CASE moduleList = {}
  <2>1. serialNumberInitialized
    BY <1>1 DEF IInv, SerialBeforeSwitch
  <2>2. ~moduleStartLock
    BY <1>2, QuietWhenEmpty DEF IInv
  <2>3. Quiet(deferredStartList, moduleList, phase)
    BY <2>2, QuietWhenFree DEF IInv
  <2>4. onModuleStartNext(deferredStartList, moduleList, phase)
    BY <1>1, <1>2 DEF checkModuleList
  <2>5. /\ Down' = {}
        /\ \/ OneStarted(moduleList) /\ ~Open /\ ~Open'
           \/ NoneStarted(moduleList) /\ (Open => Open')
    BY <1>1, <2>1, <2>3, <2>4, NextSeen
  <2>6. Up = {} /\ Down = {}
    BY <2>2, UpAndDown DEF IInv
  <2> QED
    BY <1>1, <2>5, <2>6, QuietStep
<1>3. CASE moduleList # {}
  <2>1. UNCHANGED <<moduleList, phase>> /\ sigModulesLoaded' = FALSE
    BY <1>1, <1>3 DEF checkModuleList, NoStart
  <2>2. Open' <=> Open
    BY <1>1, <2>1 DEF Open, ControllerReacts, controllerVars
  <2> QED
    BY <1>1, <2>1, <2>2, Unseen
<1> QED
  BY <1>2, <1>3

LEMMA SerialStartSeen ==
    ASSUME IInv, SerialStart
    PROVE  Lifecycle!LifecycleNext \/ UNCHANGED lifecycleVars
<1>1. /\ control = "serialStart" /\ control' = "eventLoop"
      /\ delayedModuleStartNext(moduleStartLock, phase)
      /\ sessionPath' = sessionPath
      /\ ControllerReacts
  BY DEF SerialStart, serialNumberSignalled
<1>2. serialNumberInitialized
  BY <1>1 DEF IInv, ControlInv
<1>3. CASE ~moduleStartLock
  <2>1. Quiet(deferredStartList, moduleList, phase)
    BY <1>3, QuietWhenFree DEF IInv
  <2>2. onModuleStartNext(deferredStartList, moduleList, phase)
    BY <1>1, <1>2, <1>3 DEF delayedModuleStartNext
  <2>3. /\ Down' = {}
        /\ \/ OneStarted(moduleList) /\ ~Open /\ ~Open'
           \/ NoneStarted(moduleList) /\ (Open => Open')
    BY <1>1, <1>2, <2>1, <2>2, NextSeen
  <2>4. Up = {} /\ Down = {}
    BY <1>3, UpAndDown DEF IInv
  <2> QED
    BY <1>1, <2>3, <2>4, QuietStep
<1>4. CASE moduleStartLock
  <2>1. UNCHANGED <<moduleList, phase>> /\ sigModulesLoaded' = FALSE
    BY <1>1, <1>4 DEF delayedModuleStartNext, NoStart
  <2>2. Open' <=> Open
    BY <1>1, <2>1 DEF Open, ControllerReacts, controllerVars
  <2> QED
    BY <1>1, <2>1, <2>2, Unseen
<1> QED
  BY <1>3, <1>4

(* While the loader's loop runs the gate does not count as open.           *)
LEMMA LoadSessionSeen ==
    ASSUME IInv, LoadSession
    PROVE  Lifecycle!LifecycleNext \/ UNCHANGED lifecycleVars
<1> DEFINE e == Head(loading)
<1>1. /\ loading # <<>> /\ UNCHANGED <<sessionPath, control>>
      /\ ControllerReacts
      /\ \/ startModule(e)
         \/ NoStart(deferredStartList, moduleList, phase, moduleStartLock)
  BY DEF LoadSession, LoadNext
<1>2. control \in {"startup", "changeSession"}
  BY <1>1 DEF IInv, ControlInv
<1>3. ~Open /\ ~Open'
  BY <1>1, <1>2 DEF Open, ControllerReacts, controllerVars, IInv, ControlInv
<1>4. e \in Entry /\ e.session = sessionPath /\ phase[e] = "absent"
  <2>1. e \in Entry /\ e \in Elements(loading)
    BY <1>1, HeadTail DEF IInv, ManagerInv, QueueInFileOrder
  <2> QED
    BY <2>1 DEF IInv, ManagerInv, SessionsDoNotMix, QueueInFileOrder
<1>5. e \notin Elements(deferredStartList)
  <2>1. e \in Entry /\ e \in Elements(loading)
    BY <1>1, HeadTail DEF IInv, ManagerInv, QueueInFileOrder
  <2>2. e.pos \in Nat
    BY <2>1, EntryType
  <2> QED
    BY <2>1, <2>2 DEF IInv, ManagerInv, QueueInFileOrder
<1> HIDE DEF e
<1>6. ASSUME ~moduleStartLock, NEW from,
             Result(from, deferredStartList, moduleList, phase)
      PROVE  Lifecycle!LifecycleNext
  <2>1. Quiet(deferredStartList, moduleList, phase)
    BY <1>6, QuietWhenFree DEF IInv
  <2>2. Down' = {} /\ (OneStarted(moduleList) \/ NoneStarted(moduleList))
    BY <1>6, <2>1, StartSeen
  <2>3. Up = {} /\ Down = {}
    BY <1>6, UpAndDown DEF IInv
  <2> QED
    BY <1>1, <1>3, <2>2, <2>3, QuietStep
<1>7. CASE ~moduleStartLock /\ StartStartable(e, deferredStartList, moduleList, phase)
  <2>1. Quiet(deferredStartList, moduleList, phase)
    BY <1>7, QuietWhenFree DEF IInv
  <2>2. Result({e}, deferredStartList, moduleList, phase)
    BY <1>4, <1>5, <1>7, <2>1, Started DEF IInv, OtherTypes, LicenseTypeOK
  <2> QED
    BY <1>6, <1>7, <2>2
<1>8. CASE /\ ~moduleStartLock /\ serialNumberInitialized
           /\ onModuleStartNext(deferredStartList, moduleList, phase)
  <2>1. Quiet(deferredStartList, moduleList, phase)
    BY <1>8, QuietWhenFree DEF IInv
  <2>2. Result(Elements(deferredStartList), deferredStartList, moduleList, phase)
    BY <1>8, <2>1, NextStarted DEF IInv, OtherTypes, LicenseTypeOK
  <2> QED
    BY <1>6, <1>8, <2>2
<1>9. CASE UNCHANGED <<moduleList, phase>>
  BY <1>1, <1>3, <1>9, Unseen
<1> QED
  BY <1>1, <1>7, <1>8, <1>9 DEF startModule, NoStart

(* Every step of the program is one of SessionLifecycle, or not seen there.*)
LEMMA NextSeenAsLifecycle ==
    ASSUME IInv, [Next]_vars
    PROVE  [Lifecycle!LifecycleNext]_lifecycleVars
<1>1. CASE UNCHANGED vars
  BY <1>1, UnseenSteps
<1>2. CASE Client
  BY <1>2, SetSessionSeen, UnseenSteps DEF Client
<1>3. CASE Program
  BY <1>3, LoadSessionSeen, SerialStartSeen, UnseenSteps DEF Program
<1>4. ASSUME NEW e \in Entry, Module(e)
      PROVE  [Lifecycle!LifecycleNext]_lifecycleVars
  BY <1>4, ActivatedSeen, DeactivatedSeen, FailsUnseen, UnseenSteps DEF Module
<1>5. CASE Destroyed
  BY <1>5, DestroyedSeen
<1>6. CASE (\E serial \in Serial : PublishSerial(serial)) \/ MonthPasses
  BY <1>6, UnseenSteps
<1> QED
  BY <1>1, <1>2, <1>3, <1>4, <1>5, <1>6 DEF Next

(* The lock, the queue, the loader's loop and the gate together keep what  *)
(* SessionLifecycle promises: the modules of one session at a time, one    *)
(* coming up after the other, and another session only when nothing moves. *)
THEOREM LifecycleKept == Spec => KeepsLifecycle
<1>1. Init => Lifecycle!LifecycleInit
  <2> SUFFICES ASSUME Init PROVE Lifecycle!LifecycleInit
    OBVIOUS
  <2>1. IInv /\ moduleList = {} /\ control = "startup" /\ ~sessionReady
    BY InitIInv DEF Init, ControllerInit
  <2>2. sessionPath \in Session \cup {NoSession} /\ Up = {} /\ Down = {} /\ Open = FALSE
    BY <2>1, UpAndDown DEF IInv, OtherTypes, Open
  <2> QED
    BY <2>1, <2>2, Zenon DEF Lifecycle!LifecycleInit, Up, Down, Open
<1>2. IInv /\ [Next]_vars
         => [Lifecycle!LifecycleNext]_<<sessionPath, moduleList, In({"activating", "failed"}),
                In({"stopping"}), sessionReady /\ control # "changeSession">>
  BY NextSeenAsLifecycle DEF lifecycleVars, Up, Down, Open
<1> QED
  BY <1>1, <1>2, Invariance, PTL DEF Spec, KeepsLifecycle, Lifecycle!LifecycleSpec

----------------------------------------------------------------------------
(***************************************************************************)
(* The program implements SessionControl.                                  *)
(***************************************************************************)
controlPartVars == <<sessionPath, currentSession, Open, modulesPaused>>

(* While the controller is inside the emission and the loader's loop runs, *)
(* the session that is loaded is the one the controller has noted: an      *)
(* announcement from within tells clients nothing new.                     *)
LoadsWhatIsNoted ==
    control = "changeSession" /\ loading # <<>> => currentSession = sessionPath

LEMMA StepLoadsNoted ==
    ASSUME IInv, LoadsWhatIsNoted, [Next]_vars
    PROVE  LoadsWhatIsNoted'
<1>1. ASSUME NEW s \in SessionName, SetSession(s)
      PROVE  LoadsWhatIsNoted'
  BY <1>1
  DEF SetSession, requestSession, changeSessionFile, IInv, ControlInv, LoadsWhatIsNoted
<1>2. CASE LoadSession
  BY <1>2
  DEF LoadSession, LoadNext, ControllerReacts, initializeEntity, controllerVars,
      LoadsWhatIsNoted
<1>3. CASE UNCHANGED vars
  BY <1>3 DEF vars, managerVars, controllerVars, LoadsWhatIsNoted
<1>4. CASE \/ EnterEventLoop \/ SessionChanged \/ AddSubsystems \/ SerialStart
           \/ Destroyed \/ MonthPasses \/ \E serial \in Serial : PublishSerial(serial)
           \/ \E s \in SessionName : DropSession(s)
           \/ \E paused \in BOOLEAN : SetPaused(paused)
           \/ \E e \in Entry : Module(e)
  <2>1. control' # "changeSession"
    BY <1>4
    DEF EnterEventLoop, SessionChanged, AddSubsystems, SerialStart, Destroyed,
        MonthPasses, PublishSerial, DropSession, SetPaused, Module, AddEventSystem,
        Activated, Fails, Deactivated
  <2> QED
    BY <2>1 DEF LoadsWhatIsNoted
<1> QED
  BY <1>1, <1>2, <1>3, <1>4 DEF Next, Client, Program

(* A request that passes the gate is taken at once: the lock is free, so   *)
(* it takes effect whenever there is such a session.                       *)
LEMMA SetSessionTaken ==
    ASSUME IInv, NEW s \in SessionName, SetSession(s)
    PROVE  ControlPart!Take(s)
<1>1. Open /\ ~Open'
  BY DEF SetSession, Open
<1>2. ~moduleStartLock
  BY <1>1, ClosedWhileBusy
<1>3. sessionPath' = IF s \in Session THEN s ELSE sessionPath
  BY <1>2 DEF SetSession, changeSessionFile, SwitchesTo
<1>4. currentSession' = s /\ UNCHANGED modulesPaused
  BY DEF SetSession, requestSession
<1> QED
  BY <1>1, <1>3, <1>4, Zenon DEF ControlPart!Take, Open

LEMMA DropSessionNoted ==
    ASSUME NEW s \in SessionName, DropSession(s)
    PROVE  ControlPart!Drop(s)
<1>1. ~Open /\ ~Open'
  BY DEF DropSession, requestSession, Open
<1>2. currentSession' = s /\ UNCHANGED <<modulesPaused, sessionPath>>
  BY DEF DropSession, requestSession, ManagerSilent
<1>3. Open' = Open
  BY <1>1 DEF Open
<1> QED
  BY <1>1, <1>2, <1>3, Zenon DEF ControlPart!Drop, Open

LEMMA PauseNoted ==
    ASSUME NEW paused \in BOOLEAN, SetPaused(paused)
    PROVE  ControlPart!Pause
<1>1. modulesPaused' \in BOOLEAN /\ UNCHANGED <<currentSession, sessionPath>>
  BY DEF SetPaused, storePaused, setModulesPaused
<1>2. UNCHANGED <<sessionReady, control>>
  BY DEF SetPaused, storePaused
<1> QED
  BY <1>1, <1>2 DEF ControlPart!Pause

(* The controller reacts in the event loop: the gate opens on the session  *)
(* the manager runs, or nothing is seen.                                   *)
LEMMA ReactionSeen ==
    ASSUME ControllerReacts, UNCHANGED sessionPath,
           control \in {"eventLoop", "serialStart"}, control' = "eventLoop"
    PROVE  ControlPart!Announce \/ UNCHANGED controlPartVars
<1>1. CASE sigModulesLoaded'
  <2>1. /\ Open' = TRUE
        /\ currentSession' = sessionPath /\ UNCHANGED modulesPaused
    BY <1>1 DEF ControllerReacts, initializeEntity, Open
  <2> QED
    BY <2>1, Zenon DEF ControlPart!Announce, Open
<1>2. CASE ~sigModulesLoaded'
  BY <1>2 DEF ControllerReacts, controllerVars, controlPartVars, Open
<1> QED
  BY <1>1, <1>2

LEMMA ControlUnseenSteps ==
    ASSUME IInv, LoadsWhatIsNoted,
           \/ EnterEventLoop \/ SessionChanged \/ AddSubsystems \/ MonthPasses
           \/ LoadSession
           \/ \E serial \in Serial : PublishSerial(serial)
           \/ \E e \in Entry : AddEventSystem(e) \/ Fails(e)
           \/ UNCHANGED vars
    PROVE  UNCHANGED controlPartVars
<1>1. UNCHANGED <<sessionPath, modulesPaused>>
  BY DEF EnterEventLoop, SessionChanged, AddSubsystems, MonthPasses, LoadSession, LoadNext,
         PublishSerial, AddEventSystem, Fails, ManagerSilent, onModuleEventSystemAdded,
         moduleFails, ControllerReacts, initializeEntity, afterChangeSession, vars,
         managerVars, controllerVars
<1>2. UNCHANGED currentSession
  <2>1. CASE LoadSession
    BY <2>1 DEF LoadSession, LoadNext, ControllerReacts, initializeEntity, controllerVars,
                IInv, ControlInv, LoadsWhatIsNoted
  <2>2. CASE ~LoadSession
    BY <2>2
    DEF EnterEventLoop, SessionChanged, AddSubsystems, MonthPasses, PublishSerial,
        AddEventSystem, Fails, afterChangeSession, vars, controllerVars
  <2> QED
    BY <2>1, <2>2
<1>3. Open' = Open
  <2>1. CASE LoadSession
    BY <2>1 DEF LoadSession, LoadNext, ControllerReacts, controllerVars, Open, IInv, ControlInv
  <2>2. CASE ~LoadSession
    BY <2>2
    DEF EnterEventLoop, SessionChanged, AddSubsystems, MonthPasses, PublishSerial,
        AddEventSystem, Fails, afterChangeSession, vars, controllerVars, Open, IInv,
        ControlInv
  <2> QED
    BY <2>1, <2>2
<1> QED
  BY <1>1, <1>2, <1>3 DEF controlPartVars

LEMMA NextSeenAsControl ==
    ASSUME IInv, LoadsWhatIsNoted, [Next]_vars
    PROVE  [ControlPart!ControlNext]_controlPartVars
<1>1. CASE Client
  BY <1>1, SetSessionTaken, DropSessionNoted, PauseNoted
  DEF Client, ControlPart!ControlNext
<1>2. CASE \/ SerialStart \/ Destroyed
           \/ \E e \in Entry : Activated(e) \/ Deactivated(e)
  <2>1. /\ ControllerReacts /\ UNCHANGED sessionPath
        /\ control \in {"eventLoop", "serialStart"} /\ control' = "eventLoop"
    BY <1>2
    DEF SerialStart, Destroyed, Activated, Deactivated, serialNumberSignalled,
        moduleDestroyed, moduleActivated, onModuleDelete
  <2> QED
    BY <2>1, ReactionSeen DEF ControlPart!ControlNext
<1>3. CASE \/ EnterEventLoop \/ SessionChanged \/ AddSubsystems \/ MonthPasses
           \/ LoadSession
           \/ \E serial \in Serial : PublishSerial(serial)
           \/ \E e \in Entry : AddEventSystem(e) \/ Fails(e)
           \/ UNCHANGED vars
  BY <1>3, ControlUnseenSteps
<1> QED
  BY <1>1, <1>2, <1>3 DEF Next, Program, Module

(* What clients of the controller's entity meet is SessionControl: however *)
(* many handlers run until the emission returns, a request that passes the *)
(* gate is taken in one step, and the gate opens only on the session that  *)
(* runs.                                                                   *)
THEOREM ControlKept == Spec => KeepsControl
<1>1. Init => ControlPart!ControlInit /\ LoadsWhatIsNoted
  <2> SUFFICES ASSUME Init PROVE ControlPart!ControlInit /\ LoadsWhatIsNoted
    OBVIOUS
  <2>1. /\ sessionPath \in Session \cup {NoSession}
        /\ currentSession = NoSession /\ modulesPaused = FALSE
        /\ Open = FALSE /\ control = "startup"
    BY DEF Init, ControllerInit, Open
  <2> QED
    BY <2>1, Zenon DEF ControlPart!ControlInit, LoadsWhatIsNoted, Open
<1>2. IInv /\ LoadsWhatIsNoted /\ [Next]_vars => LoadsWhatIsNoted'
  BY StepLoadsNoted
<1>3. IInv /\ LoadsWhatIsNoted /\ [Next]_vars
         => [ControlPart!ControlNext]_<<sessionPath, currentSession,
                sessionReady /\ control # "changeSession", modulesPaused>>
  BY NextSeenAsControl DEF controlPartVars, Open
<1> QED
  BY <1>1, <1>2, <1>3, Invariance, PTL DEF Spec, KeepsControl, ControlPart!ControlSpec
=============================================================================
