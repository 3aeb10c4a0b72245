-------------------------- MODULE ZeraModuleManager --------------------------
(***************************************************************************)
(* The program as main.cpp wires it: the license system, the module        *)
(* manager with its modules, the controller, and the two systems that are  *)
(* added once they are found licensed (customer data and data logger).     *)
(*                                                                         *)
(* One thread runs an event loop; a handler that emits a signal runs the   *)
(* slots of the other components before it goes on.  `control' says which  *)
(* such call is in progress, and the actions of the event loop wait for    *)
(* "eventLoop", so a handler that takes several steps here is not          *)
(* interleaved with another:                                               *)
(*   startup        main is inside changeSessionFile for the default       *)
(*                  session; the signals between controller and manager    *)
(*                  are not connected yet                                  *)
(*   changeSession  the controller is inside emit sigChangeSession         *)
(*   serialSignal   the license system is inside emit                      *)
(*                  sigSerialNumberInitialized, whose slots are main's     *)
(*                  (here) and then the manager's (serialStart)            *)
(***************************************************************************)
EXTENDS ModuleManager, ModuleManagerController

CONSTANTS
    DefaultSession,     \* the session main.cpp starts with
    ConditionalSystem   \* names of the systems added once licensed

ASSUME MainAssumption ==
    /\ Session \subseteq SessionName
    /\ DefaultSession \in SessionName
    /\ NoSession \notin SessionName
    /\ ConditionalSystem \subseteq System

VARIABLES
    control,
    subsystems          \* the conditional systems added to the event handler

vars == <<licenseVars, managerVars, controllerVars, control, subsystems>>

Control == {"startup", "eventLoop", "changeSession", "serialSignal", "serialStart"}

TypeOK ==
    /\ LicenseTypeOK
    /\ ManagerTypeOK
    /\ currentSession \in SessionName \cup {NoSession}
    /\ sessionReady \in BOOLEAN
    /\ modulesPaused \in BOOLEAN
    /\ control \in Control
    /\ subsystems \subseteq ConditionalSystem

(* main: changeSessionFile for the default session, when a plugin was      *)
(* found and the file exists, before the event loop runs.                  *)
Init ==
    /\ LicenseInit
    /\ IF FactoryTable # {} /\ DefaultSession \in Session
       THEN sessionPath = DefaultSession /\ loading = Entries(DefaultSession)
       ELSE sessionPath = NoSession /\ loading = <<>>
    /\ moduleStartLock = FALSE
    /\ deferredStartList = <<>>
    /\ moduleList = {}
    /\ phase = [e \in Entry |-> "absent"]
    /\ destroying = 0
    /\ moduleSystems = {}
    /\ pausedModules = {}
    /\ sigModulesLoaded = FALSE
    /\ ControllerInit(NoSession)
    /\ control = "startup"
    /\ subsystems = {}

(* sigModulesLoaded runs initializeEntity before the emitting handler goes *)
(* on, once main has connected them.                                       *)
ControllerReacts ==
    IF sigModulesLoaded' /\ control # "startup"
    THEN initializeEntity(sessionPath)
    ELSE UNCHANGED controllerVars

----------------------------------------------------------------------------
(* loadSession goes on, called by main or by the controller's signal.      *)
LoadSession ==
    /\ LoadNext
    /\ ControllerReacts
    /\ UNCHANGED <<control, subsystems>>

(* main connects the signals and enters the event loop.                    *)
EnterEventLoop ==
    /\ control = "startup"
    /\ loading = <<>>
    /\ control' = "eventLoop"
    /\ ManagerSilent
    /\ UNCHANGED <<licenseVars, controllerVars, subsystems>>

(* A client sets Session while the gate is open: sigChangeSession.         *)
SetSession(s) ==
    /\ control = "eventLoop"
    /\ sessionReady
    /\ requestSession(s)
    /\ changeSessionFile(s)
    /\ control' = "changeSession"
    /\ UNCHANGED subsystems

(* The emission returns and the gate is closed.                            *)
SessionChanged ==
    /\ control = "changeSession"
    /\ loading = <<>>
    /\ afterChangeSession
    /\ control' = "eventLoop"
    /\ ManagerSilent
    /\ UNCHANGED <<licenseVars, subsystems>>

(* A client sets Session while the gate is closed.                         *)
DropSession(s) ==
    /\ control = "eventLoop"
    /\ ~sessionReady
    /\ requestSession(s)
    /\ ManagerSilent
    /\ UNCHANGED <<licenseVars, control, subsystems>>

(* A client sets ModulesPaused.                                            *)
SetPaused(paused) ==
    /\ control = "eventLoop"
    /\ pausedChanges(paused)
    /\ storePaused(paused)
    /\ setModulesPaused(paused)
    /\ UNCHANGED <<control, subsystems>>

(* The signals of the modules.                                             *)
AddEventSystem(e) ==
    /\ control = "eventLoop"
    /\ onModuleEventSystemAdded(e)
    /\ UNCHANGED <<controllerVars, control, subsystems>>

Activated(e) ==
    /\ control = "eventLoop"
    /\ moduleActivated(e)
    /\ ControllerReacts
    /\ UNCHANGED <<control, subsystems>>

Fails(e) ==
    /\ control = "eventLoop"
    /\ moduleFails(e)
    /\ UNCHANGED <<controllerVars, control, subsystems>>

Deactivated(e) ==
    /\ control = "eventLoop"
    /\ onModuleDelete(e)
    /\ ControllerReacts
    /\ UNCHANGED <<control, subsystems>>

Destroyed ==
    /\ control = "eventLoop"
    /\ moduleDestroyed
    /\ ControllerReacts
    /\ UNCHANGED <<control, subsystems>>

(***************************************************************************)
(* The status module publishes PAR_SerialNr.  The event is posted, so it   *)
(* may be handled when the module is being stopped already.  The slots of  *)
(* sigSerialNumberInitialized run in the order they were connected.        *)
(***************************************************************************)
Publishing(e) ==
    /\ NameOf(e) = StatusModule
    /\ \/ e \in moduleSystems /\ phase[e] \in {"activating", "active"}
       \/ phase[e] = "stopping"

PublishSerial(serial) ==
    /\ control = "eventLoop"
    /\ \E e \in Entry : Publishing(e)
    /\ SetDeviceSerial(serial)
    /\ control' = "serialSignal"
    /\ ManagerSilent
    /\ UNCHANGED <<controllerVars, subsystems>>

(* Main asks again for each conditional system.                            *)
AskForSubsystems == Remember(ConditionalSystem)

AddSubsystems ==
    /\ control = "serialSignal"
    /\ control' = "serialStart"
    /\ subsystems' = subsystems \cup {c \in ConditionalSystem : IsSystemLicensed(c)}
    /\ AskForSubsystems
    /\ ManagerSilent
    /\ UNCHANGED <<licenseRest, controllerVars>>

SerialStart ==
    /\ control = "serialStart"
    /\ control' = "eventLoop"
    /\ serialNumberSignalled
    /\ ControllerReacts
    /\ UNCHANGED subsystems

(* The clock of the device moves on between two events.                    *)
MonthPasses ==
    /\ control = "eventLoop"
    /\ NextMonth
    /\ ManagerSilent
    /\ UNCHANGED <<controllerVars, control, subsystems>>

----------------------------------------------------------------------------
Client ==
    \/ \E s \in SessionName : SetSession(s) \/ DropSession(s)
    \/ \E paused \in BOOLEAN : SetPaused(paused)

Program ==
    \/ LoadSession
    \/ EnterEventLoop
    \/ SessionChanged
    \/ AddSubsystems
    \/ SerialStart

Module(e) ==
    \/ AddEventSystem(e)
    \/ Activated(e)
    \/ Fails(e)
    \/ Deactivated(e)

Next ==
    \/ Client
    \/ Program
    \/ \E e \in Entry : Module(e)
    \/ Destroyed
    \/ \E serial \in Serial : PublishSerial(serial)
    \/ MonthPasses

Spec == Init /\ [][Next]_vars

(***************************************************************************)
(* Fairness.  The event loop runs every handler to its end.  Posted and    *)
(* deferred-delete events wait in a queue, so other events are handled     *)
(* before them but not forever: strong fairness.  A module that was        *)
(* started or told to stop says so in the end, and the status module       *)
(* publishes a first serial.  Clients and the clock owe nothing.           *)
(***************************************************************************)
FirstSerial == ~serialNumberInitialized /\ \E serial \in Serial : PublishSerial(serial)

ModuleProgress ==
    \E e \in Entry : AddEventSystem(e) \/ Activated(e) \/ Deactivated(e)

Fairness ==
    /\ WF_vars(Program)
    /\ SF_vars(Destroyed)
    /\ SF_vars(FirstSerial)
    /\ SF_vars(ModuleProgress)

FairSpec == Spec /\ Fairness

----------------------------------------------------------------------------
(***************************************************************************)
(* Safety.                                                                 *)
(***************************************************************************)
In(phases) == {e \in Entry : phase[e] \in phases}

(* Modules come up one at a time (the purpose of m_moduleStartLock).       *)
OneModuleAtATime ==
    \A e, f \in In({"activating", "failed"}) : e = f

(* The lock is held exactly while some module still owes the signal that   *)
(* releases it: it is never lost, and never held for nobody.               *)
LockHasHolder ==
    moduleStartLock <=> In({"activating", "failed", "stopping"}) # {}

(* The old modules are gone before a new one is created (the comment of    *)
(* checkModuleList), and what runs, waits or is still to be loaded belongs *)
(* to the session that was chosen last.                                    *)
SessionsDoNotMix ==
    /\ In({"stopping"}) # {} => In({"activating", "active", "failed"}) = {}
    /\ \A e \in In({"activating", "active", "failed"}) : e.session = sessionPath
    /\ \A e \in Elements(deferredStartList) \cup Elements(loading) :
          e.session = sessionPath

(* Modules wait in the order of the session file, none twice, and none     *)
(* that is alive.                                                          *)
InFileOrder(q) == \A i, j \in DOMAIN q : i < j => q[i].pos < q[j].pos

QueueInFileOrder ==
    /\ InFileOrder(deferredStartList)
    /\ InFileOrder(loading)
    /\ \A e \in Elements(deferredStartList), f \in Elements(loading) : e.pos < f.pos
    /\ \A e \in Elements(deferredStartList) \cup Elements(loading) : phase[e] = "absent"

(* A request that passes the gate finds the manager settled: the           *)
(* Q_ASSERT(false) of changeSessionFile is out of reach, no module of the  *)
(* old session is left in the queue, and the session shown is the one that *)
(* runs.                                                                   *)
GateOpenOnlyWhenSettled ==
    sessionReady /\ control # "changeSession" =>
        /\ ~moduleStartLock
        /\ deferredStartList = <<>>
        /\ currentSession = sessionPath

(* The event handler holds no event system of a module that is being       *)
(* destroyed.                                                              *)
NoDanglingEventSystem ==
    moduleSystems \subseteq In({"activating", "active", "failed"})

(* Without a serial number no session is ever left, so the turn that       *)
(* onModuleStartNext takes then never runs.                                *)
SerialBeforeSwitch ==
    ~serialNumberInitialized => /\ ~sessionReady
                                /\ destroying = 0
                                /\ In({"stopping"}) = {}

(* Whatever modules came and went while the modules were paused, when      *)
(* ModulesPaused is taken back no module is left paused, not even one that *)
(* is being stopped and may take its time.                                 *)
PauseEnds == ~modulesPaused => pausedModules = {}

(* Nothing runs without a license: what was licensed when it was started   *)
(* still counts as licensed after the license has ended or the device says *)
(* another serial number.                                                  *)
RunningIsLicensed ==
    /\ \A e \in moduleList : IsSystemLicensed(NameOf(e))
    /\ \A c \in subsystems : IsSystemLicensed(c)

(* Once the serial number is known, modules that wait are waited for: some *)
(* module holds the lock and its signal will ask for the next one.  There  *)
(* is one exception, a plugin that created no module: nobody asks then.    *)
QueueIsAwaited ==
    /\ deferredStartList # <<>>
    /\ serialNumberInitialized
    /\ control \notin {"serialSignal", "serialStart"}
    => \/ moduleStartLock
       \/ \E e \in Elements(Entries(sessionPath)) : NameOf(e) \in FactoryTable \ Creatable

(* When the gate is open, every module of the session that could be        *)
(* started is there (for one serial number; a later one may license more). *)
ReadyMeansComplete ==
    sessionReady /\ control = "eventLoop" =>
        \A e \in Elements(Entries(sessionPath)) :
            Startable(e) /\ NameOf(e) \in Creatable \ Unreadable => phase[e] = "active"

(* The program implements SessionLifecycle: the lock, the queue, the       *)
(* loader's loop and the gate together keep its promises.                  *)
Lifecycle == INSTANCE SessionLifecycle WITH
    session   <- sessionPath,
    alive     <- moduleList,
    starting  <- In({"activating", "failed"}),
    retiring  <- In({"stopping"}),
    accepting <- sessionReady /\ control # "changeSession"

KeepsLifecycle == Lifecycle!LifecycleSpec

(* The program implements LicenseSystem: whoever asks for a license, and   *)
(* in the middle of whatever handler, only does what the license system    *)
(* allows, so that what holds there holds of the program.                  *)
KeepsLicenses == LicenseSpec

(* The program implements SessionControl: seen from the entity clients     *)
(* talk to, a request that passes the gate is taken in one step, however   *)
(* many handlers run until the emission returns.                           *)
ControlPart == INSTANCE SessionControl WITH
    session   <- sessionPath,
    accepting <- sessionReady /\ control # "changeSession"

KeepsControl == ControlPart!ControlSpec

----------------------------------------------------------------------------
(***************************************************************************)
(* Liveness, under FairSpec, where no module fails and every plugin        *)
(* creates its module.                                                     *)
(***************************************************************************)
(* Modules that wait are started or skipped in the end.                    *)
QueueDrains == (deferredStartList # <<>>) ~> (deferredStartList = <<>>)

(* A session switch that took the old modules down ends with the gate open.*)
SwitchCompletes == (In({"stopping"}) # {}) ~> sessionReady

----------------------------------------------------------------------------
(***************************************************************************)
(* What the documentation says and the code does not do.                   *)
(***************************************************************************)
(* modulemanagercontroller.h: sigChangeSession is "emitted if the session  *)
(* is switched via the Session component".  So a settled program takes a   *)
(* request.                                                                *)
SettledTakesRequests ==
    /\ control = "eventLoop"
    /\ serialNumberInitialized
    /\ ~moduleStartLock
    /\ deferredStartList = <<>>
    /\ destroying = 0
    => sessionReady
=============================================================================
