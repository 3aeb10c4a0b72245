---------------------------- MODULE ModuleManager ----------------------------
(***************************************************************************)
(* The ModuleManager (modulemanager.cpp) with the JsonSessionLoader that   *)
(* feeds it and the modules it owns.                                       *)
(*                                                                         *)
(* A session file is a list of modules.  The manager brings them up one at *)
(* a time: moduleStartLock is held while a module activates and while the  *)
(* modules of the previous session shut down, and what cannot be started   *)
(* then waits in deferredStartList.                                        *)
(*                                                                         *)
(* The modules are plugins outside the repository.  All that is assumed of *)
(* them is what the manager's signal handlers expect: a module that was    *)
(* started announces moduleActivated (or fails and never does), one whose  *)
(* factory was told to destroy it announces moduleDeactivated, both from   *)
(* the event loop, and destroyed follows deleteLater in a later round of   *)
(* the event loop.                                                         *)
(*                                                                         *)
(* Everything runs in one thread.  loadSession calls startModule for each  *)
(* entry inside the handler that switched the session; `loading' holds the *)
(* entries its loop has still to hand over, and while it is not empty no   *)
(* other action is enabled, so that the loop is one handler.               *)
(***************************************************************************)
EXTENDS LicenseSystem, Sequences

CONSTANTS
    Session,       \* session files that exist
    NoSession,     \* the empty path before the first session
    SessionFile,   \* session -> the names of its modules, in file order
    ModuleName,    \* every name a session file may hold
    FactoryTable,  \* the names a plugin was found for
    Creatable,     \* of these, the ones whose createModule returns a module
    Unreadable,    \* names whose configuration file cannot be opened
    StatusModule,  \* the name of the module that publishes PAR_SerialNr
    Failing,       \* names of modules that may fail instead of activating
    MaxDestroying  \* bound: deleted modules whose destroyed is still to come

ASSUME ModuleManagerAssumption ==
    /\ NoSession \notin Session
    /\ SessionFile \in [Session -> Seq(ModuleName)]
    /\ ModuleName \subseteq System
    /\ FactoryTable \subseteq ModuleName
    /\ Creatable \subseteq FactoryTable
    /\ Unreadable \subseteq ModuleName
    /\ Failing \subseteq ModuleName
    /\ MaxDestroying \in Nat \ {0}

(* One line of a session file; the name, path, configuration and id of a   *)
(* module are functions of it.                                             *)
Entry == UNION {[session : {s}, pos : DOMAIN SessionFile[s]] : s \in Session}

NameOf(e) == SessionFile[e.session][e.pos]

Entries(s) == [i \in DOMAIN SessionFile[s] |-> [session |-> s, pos |-> i]]

Elements(seq) == {seq[i] : i \in DOMAIN seq}

VARIABLES
    sessionPath,
    moduleStartLock,
    deferredStartList,
    moduleList,       \* a set: nothing depends on its order
    phase,            \* of each module: absent, activating, active, failed, stopping
    destroying,       \* modules given to deleteLater whose destroyed is still to come
    moduleSystems,    \* the event handler's systems, by the module they belong to
    pausedModules,    \* modules told to pause and not told to go on
    loading,          \* what loadSession has still to hand over
    sigModulesLoaded  \* the step that led here emitted this signal

managerVars == <<sessionPath, moduleStartLock, deferredStartList, moduleList, phase,
                 destroying, moduleSystems, pausedModules, loading, sigModulesLoaded>>

(* A step of another component: the manager only ceases to signal.         *)
ManagerSilent ==
    /\ sigModulesLoaded' = FALSE
    /\ UNCHANGED <<sessionPath, moduleStartLock, deferredStartList, moduleList, phase,
                   destroying, moduleSystems, pausedModules, loading>>

Phase == {"absent", "activating", "active", "failed", "stopping"}

ManagerTypeOK ==
    /\ sessionPath \in Session \cup {NoSession}
    /\ moduleStartLock \in BOOLEAN
    /\ deferredStartList \in Seq(Entry)
    /\ moduleList \subseteq Entry
    /\ phase \in [Entry -> Phase]
    /\ destroying \in 0..MaxDestroying
    /\ moduleSystems \subseteq Entry
    /\ pausedModules \subseteq Entry
    /\ loading \in Seq(Entry)
    /\ sigModulesLoaded \in BOOLEAN

----------------------------------------------------------------------------
(***************************************************************************)
(* startModule.  A module is startable when a factory is known for it and  *)
(* it is licensed; the license is only asked for when there is a factory.  *)
(* `d', `list' and `ph' are the queue, the module list and the phases at   *)
(* the call, which the caller may have changed already.                    *)
(***************************************************************************)
Startable(e) == NameOf(e) \in FactoryTable /\ IsSystemLicensed(NameOf(e))

Defer(d, list, ph) ==
    /\ deferredStartList' = d
    /\ moduleList' = list
    /\ phase' = ph
    /\ moduleStartLock' = FALSE
    /\ sigModulesLoaded' = FALSE

(* Faulty variant: the lock is forgotten.                                  *)
CreateModule_NoLock(e, d, list, ph) ==
    /\ NameOf(e) \in Creatable
    /\ deferredStartList' = d
    /\ moduleList' = list \cup {e}
    /\ phase' = [ph EXCEPT ![e] = "activating"]
    /\ moduleStartLock' = FALSE
    /\ sigModulesLoaded' = FALSE
    /\ Remember({NameOf(e)})

(* createModule succeeded: the lock is taken before the module is told to  *)
(* start.                                                                  *)
CreateModule(e, d, list, ph) ==
    /\ NameOf(e) \in Creatable
    /\ deferredStartList' = d
    /\ moduleList' = list \cup {e}
    /\ phase' = [ph EXCEPT ![e] = "activating"]
    /\ moduleStartLock' = TRUE
    /\ sigModulesLoaded' = FALSE
    /\ Remember({NameOf(e)})

(* createModule returned nothing: nobody asks for the next module.         *)
CreateNothing(e, d, list, ph) ==
    /\ NameOf(e) \notin Creatable
    /\ Defer(d, list, ph)
    /\ Remember({NameOf(e)})

StartStartable(e, d, list, ph) ==
    \/ CreateModule(e, d, list, ph)
    \/ CreateNothing(e, d, list, ph)

(***************************************************************************)
(* onModuleStartNext, with startModule, which calls it back for a module   *)
(* that has no license: the entries up to the first startable one are      *)
(* skipped; when none is left the modules are loaded.  Without a serial    *)
(* number a module that is not licensed yet goes to the end of the queue.  *)
(***************************************************************************)
ModulesLoaded(list, ph) ==
    /\ deferredStartList' = <<>>
    /\ moduleList' = list
    /\ phase' = ph
    /\ moduleStartLock' = FALSE
    /\ sigModulesLoaded' = TRUE
    /\ UNCHANGED licensedSystems

(* Faulty variant: the queue counts as empty with one module left in it.   *)
StartNextLicensed_OffByOne(d, list, ph) ==
    \/ \E k \in DOMAIN d :
          /\ Len(d) > 1
          /\ Startable(d[k])
          /\ \A j \in 1 .. (k - 1) : ~Startable(d[j])
          /\ StartStartable(d[k], SubSeq(d, k + 1, Len(d)), list, ph)
    \/ /\ Len(d) <= 1 \/ \A j \in DOMAIN d : ~Startable(d[j])
       /\ ModulesLoaded(list, ph)

StartNextLicensed(d, list, ph) ==
    \/ \E k \in DOMAIN d :
          /\ Startable(d[k])
          /\ \A j \in 1 .. (k - 1) : ~Startable(d[j])
          /\ StartStartable(d[k], SubSeq(d, k + 1, Len(d)), list, ph)
    \/ /\ \A j \in DOMAIN d : ~Startable(d[j])
       /\ ModulesLoaded(list, ph)

StartNextWithoutSerial(d, list, ph) ==
    \/ d = <<>> /\ ModulesLoaded(list, ph)
    \/ /\ d # <<>>
       /\ Startable(Head(d))
       /\ StartStartable(Head(d), Tail(d), list, ph)
    \/ /\ d # <<>>
       /\ ~Startable(Head(d))
       /\ Defer(Append(Tail(d), Head(d)), list, ph)
       /\ UNCHANGED licensedSystems

onModuleStartNext(d, list, ph) ==
    IF serialNumberInitialized
    THEN StartNextLicensed(d, list, ph)
    ELSE StartNextWithoutSerial(d, list, ph)

(* m_deferredStartList.enqueue.  Faulty variant: at the wrong end.         *)
Enqueued_AtHead(e) == <<e>> \o deferredStartList

Enqueued(e) == Append(deferredStartList, e)

(* startModule as loadSession calls it, for the entry e.                   *)
startModule(e) ==
    \/ /\ ~moduleStartLock
       /\ Startable(e)
       /\ StartStartable(e, deferredStartList, moduleList, phase)
    \/ /\ ~moduleStartLock
       /\ ~Startable(e)
       /\ serialNumberInitialized
       /\ onModuleStartNext(deferredStartList, moduleList, phase)
    \/ /\ moduleStartLock \/ (~Startable(e) /\ ~serialNumberInitialized)
       /\ deferredStartList' = Enqueued(e)
       /\ sigModulesLoaded' = FALSE
       /\ UNCHANGED <<moduleStartLock, moduleList, phase, licensedSystems>>

(* delayedModuleStartNext and checkModuleList: onModuleStartNext under a   *)
(* condition.                                                              *)
NoStart(d, list, ph, lock) ==
    /\ deferredStartList' = d
    /\ moduleList' = list
    /\ phase' = ph
    /\ moduleStartLock' = lock
    /\ sigModulesLoaded' = FALSE
    /\ UNCHANGED licensedSystems

(* Faulty variants: the serial number is not waited for; the list is not   *)
(* looked at; the start of the next module is forgotten.                   *)
delayedModuleStartNext_NoSerial(lock, ph) ==
    IF ~lock
    THEN onModuleStartNext(deferredStartList, moduleList, ph)
    ELSE NoStart(deferredStartList, moduleList, ph, lock)

checkModuleList_Always(list, ph) == onModuleStartNext(deferredStartList, list, ph)

checkModuleList_Never(list, ph) ==
    NoStart(deferredStartList, list, ph, moduleStartLock)

delayedModuleStartNext(lock, ph) ==
    IF serialNumberInitialized /\ ~lock
    THEN onModuleStartNext(deferredStartList, moduleList, ph)
    ELSE NoStart(deferredStartList, moduleList, ph, lock)

checkModuleList(list, ph) ==
    IF list = {}
    THEN onModuleStartNext(deferredStartList, list, ph)
    ELSE NoStart(deferredStartList, list, ph, moduleStartLock)

----------------------------------------------------------------------------
(***************************************************************************)
(* The handlers.  licenseRest is what no handler of the manager changes.   *)
(***************************************************************************)
licenseRest == <<month, verifiedLicenseDataTable, universalLicenseFound,
                 deviceSerial, serialNumberInitialized>>

(* One round of the loop of loadSession: an entry whose configuration      *)
(* cannot be read is passed over.                                          *)
LoadNext ==
    /\ loading # <<>>
    /\ loading' = Tail(loading)
    /\ \/ /\ NameOf(Head(loading)) \notin Unreadable
          /\ startModule(Head(loading))
       \/ /\ NameOf(Head(loading)) \in Unreadable
          /\ NoStart(deferredStartList, moduleList, phase, moduleStartLock)
    /\ UNCHANGED <<sessionPath, destroying, moduleSystems, pausedModules, licenseRest>>

(* ModuleEventHandler::clearSystems, and the variant without it.           *)
clearSystems_Kept == UNCHANGED moduleSystems

clearSystems == moduleSystems' = {}

(* stopModules takes the lock when there is a module to stop.  Faulty      *)
(* variants: always, never.                                                *)
LockToStop_Always == TRUE

LockToStop_Never == FALSE

LockToStop == moduleList # {}

(* changeSessionFile, with clearSystems, stopModules and the start of      *)
(* loadSession.  The lock stays free when there is no module to stop.      *)
SwitchesTo(s) == s # sessionPath /\ s \in Session /\ ~moduleStartLock

changeSessionFile(s) ==
    /\ sigModulesLoaded' = FALSE
    /\ IF SwitchesTo(s)
       THEN /\ sessionPath' = s
            /\ clearSystems
            /\ moduleStartLock' = LockToStop
            /\ phase' = [e \in Entry |-> IF e \in moduleList
                                         THEN "stopping" ELSE phase[e]]
            /\ loading' = Entries(s)
       ELSE UNCHANGED <<sessionPath, moduleSystems, moduleStartLock, phase, loading>>
    /\ UNCHANGED <<deferredStartList, moduleList, destroying, pausedModules,
                   licenseRest, licensedSystems>>

(* A module that activates hands its event system to the event handler.    *)
onModuleEventSystemAdded(e) ==
    /\ loading = <<>>
    /\ phase[e] = "activating"
    /\ e \notin moduleSystems
    /\ moduleSystems' = moduleSystems \cup {e}
    /\ sigModulesLoaded' = FALSE
    /\ UNCHANGED <<sessionPath, moduleStartLock, deferredStartList, moduleList, phase,
                   destroying, pausedModules, loading, licenseVars>>

(* moduleActivated: the lock is given back and the next module started.    *)
moduleActivated(e) ==
    /\ loading = <<>>
    /\ phase[e] = "activating"
    /\ e \in moduleSystems
    /\ delayedModuleStartNext(FALSE, [phase EXCEPT ![e] = "active"])
    /\ UNCHANGED <<sessionPath, destroying, moduleSystems, pausedModules, loading,
                   licenseRest>>

(* A module fails; onModuleError only writes to the log.                   *)
moduleFails(e) ==
    /\ loading = <<>>
    /\ phase[e] = "activating"
    /\ NameOf(e) \in Failing
    /\ NoStart(deferredStartList, moduleList, [phase EXCEPT ![e] = "failed"],
               moduleStartLock)
    /\ UNCHANGED <<sessionPath, destroying, moduleSystems, pausedModules, loading,
                   licenseRest>>

(* moduleDeactivated -> onModuleDelete.                                    *)
onModuleDelete(e) ==
    /\ loading = <<>>
    /\ phase[e] = "stopping"
    /\ destroying < MaxDestroying
    /\ destroying' = destroying + 1
    /\ pausedModules' = pausedModules \ {e}
    /\ checkModuleList(moduleList \ {e}, [phase EXCEPT ![e] = "absent"])
    /\ UNCHANGED <<sessionPath, moduleSystems, loading, licenseRest>>

(* destroyed -> checkModuleList, once for every deleted module.  Faulty    *)
(* variant: more often.                                                    *)
moduleDestroyed_Unasked ==
    /\ loading = <<>>
    /\ destroying' = destroying - 1
    /\ checkModuleList(moduleList, phase)
    /\ UNCHANGED <<sessionPath, moduleSystems, pausedModules, loading, licenseRest>>

moduleDestroyed ==
    /\ loading = <<>>
    /\ destroying > 0
    /\ destroying' = destroying - 1
    /\ checkModuleList(moduleList, phase)
    /\ UNCHANGED <<sessionPath, moduleSystems, pausedModules, loading, licenseRest>>

(* sigSerialNumberInitialized -> delayedModuleStartNext.  Faulty variant:  *)
(* the signal is not connected.                                            *)
serialNumberSignalled_Unconnected ==
    /\ loading = <<>>
    /\ NoStart(deferredStartList, moduleList, phase, moduleStartLock)
    /\ UNCHANGED <<sessionPath, destroying, moduleSystems, pausedModules, loading,
                   licenseRest>>

serialNumberSignalled ==
    /\ loading = <<>>
    /\ delayedModuleStartNext(moduleStartLock, phase)
    /\ UNCHANGED <<sessionPath, destroying, moduleSystems, pausedModules, loading,
                   licenseRest>>

(* setModulesPaused calls stopModule or startModule of every module in the *)
(* list, also of one that is going.  Faulty variant: it leaves such a      *)
(* module alone.                                                           *)
Paused_Alive(paused) ==
    LET alive == {e \in moduleList : phase[e] # "stopping"}
    IN IF paused THEN pausedModules \cup alive ELSE pausedModules \ alive

Paused(paused) ==
    IF paused THEN pausedModules \cup moduleList ELSE pausedModules \ moduleList

setModulesPaused(paused) ==
    /\ pausedModules' = Paused(paused)
    /\ sigModulesLoaded' = FALSE
    /\ UNCHANGED <<sessionPath, moduleStartLock, deferredStartList, moduleList, phase,
                   destroying, moduleSystems, loading, licenseVars>>
=============================================================================
