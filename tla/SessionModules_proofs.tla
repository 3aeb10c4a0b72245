------------------------- MODULE SessionModules_proofs -------------------------
(***************************************************************************)
(* Which modules of a session come up, for every set of sessions, modules  *)
(* and licenses.                                                           *)
(*                                                                         *)
(* The program implements LicenseSystem, so what is proved there holds of  *)
(* it; nothing runs without a license; modules that wait are waited for;   *)
(* and, as long as the device says one serial number, no module that could *)
(* be started is missing when the gate is open.                            *)
(***************************************************************************)
EXTENDS ZeraModuleManager_proofs, LicenseSystem_proofs

(***************************************************************************)
(* Every step of the program is one of the license system, or leaves it    *)
(* as it is.                                                               *)
(***************************************************************************)
(* The handlers of the manager ask for the license of one module, or for   *)
(* none.                                                                   *)
AsksForOne ==
    \/ UNCHANGED licensedSystems
    \/ \E e \in Entry : Remember({NameOf(e)})

LEMMA AskingIsAllowed ==
    ASSUME AsksForOne, UNCHANGED licenseRest
    PROVE  [LicenseNext]_licenseVars
<1>1. CASE UNCHANGED licensedSystems
  BY <1>1 DEF licenseRest, licenseVars
<1>2. ASSUME NEW e \in Entry, Remember({NameOf(e)})
      PROVE  LicenseNext
  <2>1. {NameOf(e)} \in SUBSET System
    BY EntryType, ModuleManagerAssumption
  <2>2. AskLicense({NameOf(e)})
    BY <1>2 DEF AskLicense, licenseRest
  <2> QED
    BY <2>1, <2>2 DEF LicenseNext
<1> QED
  BY <1>1, <1>2 DEF AsksForOne

(* The start of the next module, from a queue of entries.                  *)
LEMMA StartAsks ==
    ASSUME NEW d \in Seq(Entry), NEW list, NEW ph,
           onModuleStartNext(d, list, ph)
    PROVE  AsksForOne
<1>1. ASSUME NEW e \in Entry, NEW rest, StartStartable(e, rest, list, ph)
      PROVE  AsksForOne
  BY <1>1 DEF StartStartable, CreateModule, CreateNothing, AsksForOne
<1>2. CASE StartNextLicensed(d, list, ph)
  <2>1. ASSUME NEW k \in DOMAIN d,
               StartStartable(d[k], SubSeq(d, k + 1, Len(d)), list, ph)
        PROVE  AsksForOne
    <3>1. d[k] \in Entry
      OBVIOUS
    <3> QED
      BY <1>1, <2>1, <3>1
  <2> QED
    BY <1>2, <2>1 DEF StartNextLicensed, ModulesLoaded, AsksForOne
<1>3. CASE StartNextWithoutSerial(d, list, ph)
  <2>1. d # <<>> => Head(d) \in Entry
    OBVIOUS
  <2> QED
    BY <1>1, <1>3, <2>1 DEF StartNextWithoutSerial, ModulesLoaded, AsksForOne
<1> QED
  BY <1>2, <1>3 DEF onModuleStartNext

LEMMA StepIsLicensed ==
    ASSUME IInv, [Next]_vars
    PROVE  [LicenseNext]_licenseVars
<1>1. deferredStartList \in Seq(Entry) /\ loading \in Seq(Entry)
  BY DEF IInv, ManagerInv
<1>2. ASSUME \/ UNCHANGED vars \/ EnterEventLoop \/ SessionChanged
             \/ \E s \in SessionName : SetSession(s) \/ DropSession(s)
             \/ \E paused \in BOOLEAN : SetPaused(paused)
             \/ \E e \in Entry : AddEventSystem(e) \/ Fails(e)
      PROVE  UNCHANGED licenseVars
  BY <1>2
  DEF vars, EnterEventLoop, SessionChanged, SetSession, DropSession, SetPaused,
      AddEventSystem, Fails, changeSessionFile, setModulesPaused, moduleFails, NoStart,
      onModuleEventSystemAdded, licenseRest, licenseVars
<1>3. ASSUME NEW list, NEW ph,
             \/ onModuleStartNext(deferredStartList, list, ph)
             \/ \E lock : NoStart(deferredStartList, list, ph, lock)
      PROVE  AsksForOne
  BY <1>1, <1>3, StartAsks DEF NoStart, AsksForOne
<1>4. ASSUME \/ SerialStart \/ Destroyed
             \/ \E e \in Entry : Activated(e) \/ Deactivated(e)
      PROVE  AsksForOne /\ UNCHANGED licenseRest
  <2>1. AsksForOne
    BY <1>3, <1>4
    DEF SerialStart, Destroyed, Activated, Deactivated, serialNumberSignalled,
        moduleDestroyed, moduleActivated, onModuleDelete, checkModuleList,
        delayedModuleStartNext
  <2>2. UNCHANGED licenseRest
    BY <1>4
    DEF SerialStart, Destroyed, Activated, Deactivated, serialNumberSignalled,
        moduleDestroyed, moduleActivated, onModuleDelete
  <2> QED
    BY <2>1, <2>2
<1>5. ASSUME LoadSession
      PROVE  AsksForOne /\ UNCHANGED licenseRest
  <2>1. Head(loading) \in Entry
    BY <1>1, <1>5 DEF LoadSession, LoadNext
  <2>2. ASSUME startModule(Head(loading))
        PROVE  AsksForOne
    BY <2>1, <2>2, <1>3
    DEF startModule, StartStartable, CreateModule, CreateNothing, AsksForOne
  <2> QED
    BY <1>5, <2>2 DEF LoadSession, LoadNext, NoStart, AsksForOne
<1>6. CASE AddSubsystems
  <2>1. AskLicense(ConditionalSystem)
    BY <1>6 DEF AddSubsystems, AskForSubsystems, AskLicense, licenseRest
  <2> QED
    BY <2>1, MainAssumption DEF LicenseNext
<1>7. CASE (\E serial \in Serial : PublishSerial(serial)) \/ MonthPasses
  BY <1>7 DEF PublishSerial, MonthPasses, LicenseNext
<1> QED
  BY <1>2, <1>4, <1>5, <1>6, <1>7, AskingIsAllowed DEF Next, Client, Program, Module

(* The program implements LicenseSystem.                                   *)
THEOREM LicensesKept == Spec => KeepsLicenses
<1>1. Init => LicenseInit
  BY DEF Init
<1>2. IInv /\ [Next]_vars => [LicenseNext]_licenseVars
  BY StepIsLicensed
<1> QED
  BY <1>1, <1>2, Invariance, PTL DEF Spec, KeepsLicenses, LicenseSpec

(* So what LicenseSystem promises holds of the program.                    *)
LEMMA LicensesInvariance == Spec => []LicenseInv
BY LicensesKept, LicenseInvariance, PTL DEF KeepsLicenses

(* Before the serial number is known the program starts nothing on a       *)
(* license for one device.                                                 *)
THEOREM ProgramEarlyCorrect == Spec => []EarlyNeedsAnySerial
BY LicensesKept, EarlyCorrect, PTL DEF KeepsLicenses

(* A module that was refused and skipped would be refused again until the  *)
(* device says another serial number.                                      *)
THEOREM ProgramRefusalCorrect == Spec => RefusedUntilNewSerial
BY LicensesKept, RefusalCorrect, PTL DEF KeepsLicenses

(* What the program once found licensed stays so.                          *)
THEOREM ProgramLicensedCorrect == Spec => LicensedStaysLicensed
BY LicensesKept, LicensedCorrect, PTL DEF KeepsLicenses

----------------------------------------------------------------------------
(***************************************************************************)
(* Nothing runs without a license.                                         *)
(***************************************************************************)
(* Licensed for good: by a universal license, or remembered.               *)
Remembered(system) == universalLicenseFound \/ system \in licensedSystems

RememberedInv ==
    /\ \A e \in moduleList : Remembered(NameOf(e))
    /\ \A c \in subsystems : Remembered(c)

(* Who asks and is found licensed is remembered.                           *)
LEMMA AskedIsRemembered ==
    ASSUME NEW systems, NEW system \in systems, Remember(systems),
           IsSystemLicensed(system), UNCHANGED universalLicenseFound
    PROVE  Remembered(system)'
BY DEF Remember, Remembered

(* A started module was found licensed in the same step.                   *)
LEMMA StartedIsRemembered ==
    ASSUME NEW e, NEW d, NEW list, NEW ph,
           Startable(e), StartStartable(e, d, list, ph),
           UNCHANGED universalLicenseFound
    PROVE  \A f \in moduleList' : f \in list \/ Remembered(NameOf(f))'
<1>1. Remembered(NameOf(e))'
  BY AskedIsRemembered DEF Startable, StartStartable, CreateModule, CreateNothing
<1>2. moduleList' \subseteq list \cup {e}
  BY DEF StartStartable, CreateModule, CreateNothing, Defer
<1> QED
  BY <1>1, <1>2

LEMMA NextIsRemembered ==
    ASSUME NEW d, NEW list, NEW ph,
           onModuleStartNext(d, list, ph),
           UNCHANGED universalLicenseFound
    PROVE  \A f \in moduleList' : f \in list \/ Remembered(NameOf(f))'
<1>1. ASSUME NEW e, NEW rest, Startable(e), StartStartable(e, rest, list, ph)
      PROVE  \A f \in moduleList' : f \in list \/ Remembered(NameOf(f))'
  BY <1>1, StartedIsRemembered
<1>2. CASE moduleList' = list
  BY <1>2
<1> QED
  BY <1>1, <1>2
  DEF onModuleStartNext, StartNextLicensed, StartNextWithoutSerial, ModulesLoaded, Defer

LEMMA StepRemembers ==
    ASSUME IInv, RememberedInv, [Next]_vars
    PROVE  RememberedInv'
<1>1. /\ \A system : Remembered(system) => Remembered(system)'
      /\ UNCHANGED universalLicenseFound
  BY StepIsLicensed, NothingForgotten DEF Remembered
<1>2. \A f \in moduleList' : f \in moduleList \/ Remembered(NameOf(f))'
  <2>1. CASE \/ UNCHANGED vars \/ EnterEventLoop \/ SessionChanged \/ AddSubsystems
             \/ MonthPasses \/ \E serial \in Serial : PublishSerial(serial)
             \/ \E s \in SessionName : SetSession(s) \/ DropSession(s)
             \/ \E paused \in BOOLEAN : SetPaused(paused)
             \/ \E e \in Entry : AddEventSystem(e) \/ Fails(e)
    <3>1. UNCHANGED moduleList
      BY <2>1
      DEF vars, managerVars, EnterEventLoop, SessionChanged, AddSubsystems, MonthPasses,
          PublishSerial, SetSession, DropSession, SetPaused, AddEventSystem, Fails,
          ManagerSilent, changeSessionFile, setModulesPaused, onModuleEventSystemAdded,
          moduleFails, NoStart
    <3> QED
      BY <3>1
  <2>2. ASSUME NEW list \in SUBSET moduleList, NEW ph, NEW lock,
               \/ onModuleStartNext(deferredStartList, list, ph)
               \/ NoStart(deferredStartList, list, ph, lock)
        PROVE  \A f \in moduleList' : f \in moduleList \/ Remembered(NameOf(f))'
    BY <1>1, <2>2, NextIsRemembered DEF NoStart
  <2>3. CASE SerialStart \/ Destroyed \/ \E e \in Entry : Activated(e)
    BY <2>2, <2>3
    DEF SerialStart, Destroyed, Activated, serialNumberSignalled, moduleDestroyed,
        moduleActivated, checkModuleList, delayedModuleStartNext
  <2>4. ASSUME NEW e \in Entry, Deactivated(e)
        PROVE  \A f \in moduleList' : f \in moduleList \/ Remembered(NameOf(f))'
    <3>1. moduleList \ {e} \in SUBSET moduleList
      OBVIOUS
    <3> QED
      BY <2>2, <2>4, <3>1 DEF Deactivated, onModuleDelete, checkModuleList
  <2>5. CASE LoadSession
    <3>1. CASE startModule(Head(loading))
      BY <1>1, <2>2, <3>1, StartedIsRemembered DEF startModule
    <3> QED
      BY <2>2, <2>5, <3>1 DEF LoadSession, LoadNext
  <2> QED
    BY <2>1, <2>3, <2>4, <2>5 DEF Next, Client, Program, Module
<1>3. \A c \in subsystems' : c \in subsystems \/ Remembered(c)'
  <2>1. CASE AddSubsystems
    BY <1>1, <2>1, AskedIsRemembered DEF AddSubsystems, AskForSubsystems
  <2>2. CASE ~AddSubsystems
    <3>1. UNCHANGED subsystems
      BY <2>2
      DEF Next, Client, Program, Module, vars, LoadSession, EnterEventLoop,
          SessionChanged, SerialStart, MonthPasses, PublishSerial, SetSession,
          DropSession, SetPaused, AddEventSystem, Activated, Fails, Deactivated, Destroyed
    <3> QED
      BY <3>1
  <2> QED
    BY <2>1, <2>2
<1> QED
  BY <1>1, <1>2, <1>3 DEF RememberedInv

(* What was licensed when it was started still counts as licensed after    *)
(* the license has ended or the device says another serial number.         *)
THEOREM RunningCorrect == Spec => []RunningIsLicensed
<1>1. Init => RememberedInv
  BY DEF Init, RememberedInv
<1>2. IInv /\ RememberedInv /\ [Next]_vars => RememberedInv'
  BY StepRemembers
<1>3. RememberedInv => RunningIsLicensed
  BY DEF RememberedInv, Remembered, RunningIsLicensed, IsSystemLicensed
<1> QED
  BY <1>1, <1>2, <1>3, Invariance, PTL DEF Spec

----------------------------------------------------------------------------
(***************************************************************************)
(* Modules that wait are waited for.                                       *)
(***************************************************************************)
(* An entry is one of the entries of its session.                          *)
LEMMA EntryIsListed ==
    ASSUME NEW e \in Entry
    PROVE  e \in Elements(Entries(e.session))
<1>1. PICK s \in Session : e \in [session : {s}, pos : DOMAIN SessionFile[s]]
  BY DEF Entry
<1>2. e = [session |-> s, pos |-> e.pos] /\ e.session = s /\ e.pos \in DOMAIN SessionFile[s]
  BY <1>1
<1>3. e = Entries(s)[e.pos] /\ e.pos \in DOMAIN Entries(s)
  BY <1>2 DEF Entries
<1> QED
  BY <1>2, <1>3 DEF Elements

(* A module that has to be there, as far as the program knows by now.      *)
Due(e) ==
    /\ e.session = sessionPath
    /\ NameOf(e) \in Creatable \ Unreadable
    /\ serialNumberInitialized => Startable(e)

(* What a start does to the entries `from' it looked at: one that is due   *)
(* comes up or still waits; and if others wait and nothing comes up, a     *)
(* plugin created no module.                                               *)
Served(from, ph) ==
    /\ \A f \in from : Due(f) =>
          f \in Elements(deferredStartList') \/ phase'[f] = "activating"
    /\ \A f \in Entry : phase'[f] \in {ph[f], "activating"}
    /\ deferredStartList' # <<>> /\ ~moduleStartLock' =>
          \E f \in from : NameOf(f) \in FactoryTable \ Creatable

LEMMA StartedIsServed ==
    ASSUME NEW e \in Entry, NEW d, NEW list, NEW ph \in [Entry -> Phase],
           Startable(e), StartStartable(e, d, list, ph)
    PROVE  Served(Elements(d) \cup {e}, ph)
<1>1. CASE CreateModule(e, d, list, ph)
  <2>1. phase'[e] = "activating" /\ \A f \in Entry : phase'[f] \in {ph[f], "activating"}
    BY <1>1 DEF CreateModule
  <2>2. deferredStartList' = d /\ moduleStartLock'
    BY <1>1 DEF CreateModule
  <2> QED
    BY <2>1, <2>2 DEF Served
<1>2. CASE CreateNothing(e, d, list, ph)
  <2>1. deferredStartList' = d /\ phase' = ph
    BY <1>2 DEF CreateNothing, Defer
  <2>2. NameOf(e) \in FactoryTable \ Creatable
    BY <1>2 DEF CreateNothing, Startable
  <2> QED
    BY <2>1, <2>2 DEF Served, Due
<1> QED
  BY <1>1, <1>2 DEF StartStartable

LEMMA NextIsServed ==
    ASSUME NEW d, NEW list, NEW ph,
           Quiet(d, list, ph),
           serialNumberInitialized,
           onModuleStartNext(d, list, ph)
    PROVE  Served(Elements(d), ph)
<1>1. d \in Seq(Entry) /\ ph \in [Entry -> Phase]
  BY DEF Quiet
<1>2. CASE (\A j \in DOMAIN d : ~Startable(d[j])) /\ ModulesLoaded(list, ph)
  BY <1>2 DEF Served, Due, ModulesLoaded, Elements
<1>3. ASSUME NEW k \in DOMAIN d, Startable(d[k]),
             \A j \in 1 .. (k - 1) : ~Startable(d[j]),
             StartStartable(d[k], SubSeq(d, k + 1, Len(d)), list, ph)
      PROVE  Served(Elements(d), ph)
  <2> DEFINE rest == SubSeq(d, k + 1, Len(d))
  <2>1. d[k] \in Entry /\ Elements(rest) \subseteq Elements(d) /\ d[k] \in Elements(d)
    BY <1>1, Behind DEF Quiet
  <2>2. \A f \in Elements(d) : f \in Elements(rest) \cup {d[k]} \/ ~Startable(f)
    <3>1. k \in 1 .. Len(d) /\ Len(d) \in Nat /\ DOMAIN d = 1 .. Len(d)
      BY <1>1
    <3>2. rest \in Seq(Entry) /\ Len(rest) = Len(d) - k
      BY <1>1, <3>1
    <3>3. DOMAIN rest = 1 .. (Len(d) - k) /\ \A i \in DOMAIN rest : rest[i] = d[k + i]
      BY <1>1, <3>1, <3>2
    <3>4. ASSUME NEW i \in DOMAIN d, k < i
          PROVE  d[i] \in Elements(rest)
      <4> HIDE DEF rest
      <4>1. i - k \in DOMAIN rest /\ k + (i - k) = i
        BY <3>1, <3>3, <3>4
      <4>2. rest[i - k] = d[i]
        BY <3>3, <4>1
      <4> QED
        BY <4>1, <4>2 DEF Elements
    <3>5. ASSUME NEW i \in DOMAIN d, i < k
          PROVE  ~Startable(d[i])
      BY <1>3, <3>1, <3>5
    <3>6. \A i \in DOMAIN d : k < i \/ i < k \/ i = k
      BY <3>1
    <3> HIDE DEF rest
    <3> QED
      BY <3>4, <3>5, <3>6 DEF Elements
  <2> HIDE DEF rest
  <2>3. StartStartable(d[k], rest, list, ph)
    BY <1>3 DEF rest
  <2>4. Served(Elements(rest) \cup {d[k]}, ph)
    BY <1>1, <1>3, <2>1, <2>3, StartedIsServed
  <2> QED
    BY <2>1, <2>2, <2>4 DEF Served, Due
<1> QED
  BY <1>2, <1>3 DEF onModuleStartNext, StartNextLicensed

(* A start by a handler of the event loop: what waits is the session's.    *)
LEMMA ServedIsAwaited ==
    ASSUME NEW from \in SUBSET Entry, NEW ph, Served(from, ph),
           \A f \in from : f.session = sessionPath,
           UNCHANGED sessionPath
    PROVE  QueueIsAwaited'
BY EntryIsListed DEF Served, QueueIsAwaited

(* What onModuleStartNext leaves to be looked at, where a handler ends in  *)
(* it or leaves the modules alone.                                         *)
LEMMA StepAwaits ==
    ASSUME IInv, QueueIsAwaited, [Next]_vars
    PROVE  QueueIsAwaited'
<1>1. CASE \/ UNCHANGED vars \/ EnterEventLoop \/ SessionChanged \/ MonthPasses
           \/ \E s \in SessionName : DropSession(s)
           \/ \E paused \in BOOLEAN : SetPaused(paused)
           \/ \E e \in Entry : AddEventSystem(e) \/ Fails(e)
  <2>1. UNCHANGED <<deferredStartList, moduleStartLock, sessionPath,
                    serialNumberInitialized>>
    BY <1>1
    DEF vars, managerVars, licenseVars, licenseRest, EnterEventLoop, SessionChanged,
        MonthPasses, NextMonth, DropSession, SetPaused, AddEventSystem, Fails,
        ManagerSilent, setModulesPaused, onModuleEventSystemAdded, moduleFails, NoStart
  <2>2. control \in {"serialSignal", "serialStart"}
           => control' \in {"serialSignal", "serialStart"}
    BY <1>1
    DEF vars, EnterEventLoop, SessionChanged, MonthPasses, DropSession, SetPaused,
        AddEventSystem, Fails
  <2> QED
    BY <2>1, <2>2 DEF QueueIsAwaited
<1>2. CASE AddSubsystems \/ \E serial \in Serial : PublishSerial(serial)
  BY <1>2 DEF AddSubsystems, PublishSerial, QueueIsAwaited
<1>3. CASE \E s \in SessionName : SetSession(s)
  BY <1>3 DEF IInv, GateOpenOnlyWhenSettled, SetSession, changeSessionFile, QueueIsAwaited
<1>4. ASSUME NEW list, NEW ph, Quiet(deferredStartList, list, ph),
             serialNumberInitialized, UNCHANGED sessionPath,
             onModuleStartNext(deferredStartList, list, ph)
      PROVE  QueueIsAwaited'
  <2>1. /\ Elements(deferredStartList) \in SUBSET Entry
        /\ \A f \in Elements(deferredStartList) : f.session = sessionPath
    BY <1>4, ElementsType DEF Quiet
  <2>2. Served(Elements(deferredStartList), ph)
    BY <1>4, NextIsServed
  <2> QED
    BY <1>4, <2>1, <2>2, ServedIsAwaited
<1>5. ASSUME NEW list, NEW ph, NoStart(deferredStartList, list, ph, moduleStartLock),
             control \notin {"serialSignal", "serialStart"},
             UNCHANGED <<sessionPath, serialNumberInitialized>>
      PROVE  QueueIsAwaited'
  BY <1>5 DEF NoStart, QueueIsAwaited
<1>6. ASSUME NEW e \in Entry, Activated(e)
      PROVE  QueueIsAwaited'
  <2>1. Quiet(deferredStartList, moduleList, [phase EXCEPT ![e] = "active"])
    BY <1>6, QuietWhenActivated DEF IInv, Activated, moduleActivated
  <2> QED
    BY <1>4, <1>6, <2>1
    DEF Activated, moduleActivated, delayedModuleStartNext, licenseRest, QueueIsAwaited
<1>7. ASSUME NEW e \in Entry, Deactivated(e)
      PROVE  QueueIsAwaited'
  <2>1. serialNumberInitialized
    BY <1>7 DEF Deactivated, onModuleDelete, IInv, SerialBeforeSwitch, In
  <2>2. moduleList \ {e} = {} =>
           Quiet(deferredStartList, moduleList \ {e}, [phase EXCEPT ![e] = "absent"])
    BY <1>7, QuietWhenGone DEF IInv, Deactivated, onModuleDelete
  <2> QED
    BY <1>4, <1>5, <1>7, <2>1, <2>2
    DEF Deactivated, onModuleDelete, checkModuleList, licenseRest
<1>8. CASE Destroyed
  <2>1. serialNumberInitialized
    BY <1>8, ModuleManagerAssumption
    DEF Destroyed, moduleDestroyed, IInv, OtherTypes, SerialBeforeSwitch
  <2>2. moduleList = {} => Quiet(deferredStartList, moduleList, phase)
    BY QuietWhenEmpty, QuietWhenFree DEF IInv
  <2> QED
    BY <1>4, <1>5, <1>8, <2>1, <2>2
    DEF Destroyed, moduleDestroyed, checkModuleList, licenseRest
<1>9. CASE SerialStart
  <2>1. serialNumberInitialized
    BY <1>9 DEF SerialStart, IInv, ControlInv
  <2>2. ~moduleStartLock => Quiet(deferredStartList, moduleList, phase)
    BY QuietWhenFree DEF IInv
  <2> QED
    BY <1>4, <1>9, <2>1, <2>2
    DEF SerialStart, serialNumberSignalled, delayedModuleStartNext, NoStart, QueueIsAwaited
<1>10. CASE LoadSession
  <2> DEFINE e == Head(loading)
  <2>1. /\ UNCHANGED <<sessionPath, serialNumberInitialized, control>>
        /\ loading # <<>> /\ control \notin {"serialSignal", "serialStart"}
        /\ \/ startModule(e)
           \/ NoStart(deferredStartList, moduleList, phase, moduleStartLock)
    BY <1>10 DEF LoadSession, LoadNext, licenseRest, IInv, ControlInv
  <2>2. e \in Entry /\ e.session = sessionPath
    BY <2>1, HeadTail, ElementsType
    DEF IInv, ManagerInv, QueueInFileOrder, SessionsDoNotMix
  <2>3. ~moduleStartLock => Quiet(deferredStartList, moduleList, phase)
    BY QuietWhenFree DEF IInv
  <2> HIDE DEF e
  <2>4. CASE /\ ~moduleStartLock /\ Startable(e)
             /\ StartStartable(e, deferredStartList, moduleList, phase)
    <3>1. Served(Elements(deferredStartList) \cup {e}, phase)
      BY <2>2, <2>4, StartedIsServed DEF IInv, ManagerInv
    <3>2. /\ Elements(deferredStartList) \cup {e} \in SUBSET Entry
          /\ \A f \in Elements(deferredStartList) \cup {e} : f.session = sessionPath
      BY <2>2, ElementsType DEF IInv, ManagerInv, SessionsDoNotMix
    <3> QED
      BY <2>1, <3>1, <3>2, ServedIsAwaited
  <2>5. CASE /\ ~moduleStartLock /\ serialNumberInitialized
             /\ onModuleStartNext(deferredStartList, moduleList, phase)
    BY <1>4, <2>1, <2>3, <2>5
  <2>6. CASE /\ moduleStartLock \/ ~serialNumberInitialized
             /\ UNCHANGED moduleStartLock
    BY <2>1, <2>6 DEF QueueIsAwaited
  <2> QED
    BY <1>5, <2>1, <2>4, <2>5, <2>6 DEF startModule
<1> QED
  BY <1>1, <1>2, <1>3, <1>6, <1>7, <1>8, <1>9, <1>10 DEF Next, Client, Program, Module

(* Once the serial number is known, modules that wait are waited for: some *)
(* module holds the lock, or a plugin of the session created no module.    *)
THEOREM AwaitedCorrect == Spec => []QueueIsAwaited
<1>1. Init => QueueIsAwaited
  BY DEF Init, LicenseInit, QueueIsAwaited
<1>2. IInv /\ QueueIsAwaited /\ [Next]_vars => QueueIsAwaited'
  BY StepAwaits
<1> QED
  BY <1>1, <1>2, Invariance, PTL DEF Spec

----------------------------------------------------------------------------
(***************************************************************************)
(* No module is missing when the gate opens.                               *)
(***************************************************************************)
(* Where a module that is due may be.                                      *)
Held(e) ==
    \/ e \in Elements(loading) \cup Elements(deferredStartList)
    \/ phase[e] \in {"activating", "active", "failed"}

NoneMissing == \A e \in Entry : Due(e) => Held(e)

(* A serial number comes from a module, so a session is known then.        *)
SerialIsKnown ==
    serialNumberInitialized => deviceSerial \in Serial /\ sessionPath \in Session

LEMMA StepKnowsSerial ==
    ASSUME IInv, SerialIsKnown, [Next]_vars
    PROVE  SerialIsKnown'
<1>1. sessionPath' = sessionPath \/ sessionPath' \in Session
  BY DEF Next, Client, Program, Module, vars, managerVars, LoadSession, LoadNext,
         EnterEventLoop, SessionChanged, AddSubsystems, SerialStart, MonthPasses,
         PublishSerial, SetSession, DropSession, SetPaused, AddEventSystem, Activated,
         Fails, Deactivated, Destroyed, ManagerSilent, changeSessionFile, SwitchesTo,
         setModulesPaused, onModuleEventSystemAdded, moduleActivated, moduleFails,
         onModuleDelete, moduleDestroyed, serialNumberSignalled
<1>2. CASE \E serial \in Serial : PublishSerial(serial)
  <2>1. sessionPath' = sessionPath /\ deviceSerial' \in Serial
    BY <1>2 DEF PublishSerial, SetDeviceSerial, ManagerSilent
  <2>2. PICK e \in Entry : Publishing(e)
    BY <1>2 DEF PublishSerial
  <2>3. CASE phase[e] = "stopping"
    BY <2>1, <2>3 DEF IInv, SerialBeforeSwitch, In, SerialIsKnown
  <2>4. CASE phase[e] \in {"activating", "active"}
    <3>1. e.session = sessionPath
      BY <2>4 DEF IInv, ManagerInv, SessionsDoNotMix, In
    <3> QED
      BY <2>1, <3>1, EntryType DEF SerialIsKnown
  <2> QED
    BY <2>2, <2>3, <2>4 DEF Publishing
<1>3. CASE ~\E serial \in Serial : PublishSerial(serial)
  <2>1. UNCHANGED <<serialNumberInitialized, deviceSerial>>
    BY <1>3
    DEF Next, Client, Program, Module, vars, licenseVars, licenseRest, LoadSession,
        LoadNext, EnterEventLoop, SessionChanged, AddSubsystems, SerialStart, MonthPasses,
        NextMonth, SetSession, DropSession, SetPaused, AddEventSystem, Activated, Fails,
        Deactivated, Destroyed, changeSessionFile, setModulesPaused,
        onModuleEventSystemAdded, moduleActivated, moduleFails, onModuleDelete,
        moduleDestroyed, serialNumberSignalled
  <2> QED
    BY <1>1, <2>1 DEF SerialIsKnown
<1> QED
  BY <1>2, <1>3

(* The device says one serial number: this is about the device, not about  *)
(* the program, which would take another one.                              *)
OneSerialNumber == [][deviceSerial' # deviceSerial => deviceSerial = NoSerial]_vars

(* Then nothing becomes due after it was passed over.                      *)
LEMMA NothingBecomesDue ==
    ASSUME IInv, LicenseInv, SerialIsKnown, [Next]_vars,
           deviceSerial' # deviceSerial => deviceSerial = NoSerial,
           UNCHANGED sessionPath
    PROVE  \A e \in Entry : Due(e)' => Due(e)
<1> SUFFICES ASSUME NEW e \in Entry, Due(e)' PROVE Due(e)
  OBVIOUS
<1>1. e.session = sessionPath /\ NameOf(e) \in Creatable \ Unreadable
  BY DEF Due, NameOf
<1>2. [LicenseNext]_licenseVars
  BY StepIsLicensed
<1>3. ASSUME serialNumberInitialized
      PROVE  Startable(e)
  <2>1. deviceSerial' = deviceSerial
    BY <1>3, LicenseAssumption DEF SerialIsKnown
  <2>2. Startable(e)'
    BY <1>2, <1>3, NothingForgotten DEF Due
  <2>3. NameOf(e) \in FactoryTable /\ IsSystemLicensed(NameOf(e))'
    BY <2>2 DEF Startable, NameOf
  <2>4. NameOf(e) \in System
    BY EntryType, ModuleManagerAssumption
  <2> QED
    BY <1>2, <2>1, <2>3, <2>4, RefusalIsFinal DEF Startable
<1> QED
  BY <1>1, <1>3 DEF Due

(* A start serves what was in its queue; the rest is where it was.         *)
LEMMA ServedMissesNone ==
    ASSUME NEW from, NEW ph, Served(from, ph),
           \A e \in Entry : Due(e)' => Due(e),
           \A e \in Entry : Due(e) =>
               \/ e \in from \cup Elements(loading')
               \/ ph[e] \in {"activating", "active", "failed"}
    PROVE  NoneMissing'
BY DEF Served, NoneMissing, Held

LEMMA StepMissesNone ==
    ASSUME IInv, LicenseInv, SerialIsKnown, NoneMissing, [Next]_vars,
           deviceSerial' # deviceSerial => deviceSerial = NoSerial
    PROVE  NoneMissing'
<1> DEFINE present == {"activating", "active", "failed"}
<1>1. UNCHANGED sessionPath => \A e \in Entry : Due(e)' => Due(e)
  BY NothingBecomesDue
<1>2. ASSUME UNCHANGED <<sessionPath, loading, deferredStartList>>,
             \A e \in Entry : phase[e] \in present => phase'[e] \in present
      PROVE  NoneMissing'
  BY <1>1, <1>2 DEF NoneMissing, Held
<1>3. CASE \/ UNCHANGED vars \/ EnterEventLoop \/ SessionChanged \/ MonthPasses
           \/ AddSubsystems \/ \E serial \in Serial : PublishSerial(serial)
           \/ \E s \in SessionName : DropSession(s)
           \/ \E paused \in BOOLEAN : SetPaused(paused)
           \/ \E e \in Entry : AddEventSystem(e)
  <2>1. UNCHANGED <<sessionPath, loading, deferredStartList, phase>>
    BY <1>3
    DEF vars, managerVars, EnterEventLoop, SessionChanged, MonthPasses, AddSubsystems,
        PublishSerial, DropSession, SetPaused, AddEventSystem, ManagerSilent,
        setModulesPaused, onModuleEventSystemAdded
  <2> QED
    BY <1>2, <2>1
<1>4. ASSUME NEW e \in Entry, Fails(e)
      PROVE  NoneMissing'
  BY <1>2, <1>4 DEF Fails, moduleFails, NoStart, IInv, ManagerInv
<1>5. ASSUME NEW s \in SessionName, SetSession(s)
      PROVE  NoneMissing'
  <2>1. CASE SwitchesTo(s)
    <3>1. sessionPath' = s /\ loading' = Entries(s)
      BY <1>5, <2>1 DEF SetSession, changeSessionFile
    <3> QED
      BY <3>1, EntryIsListed DEF NoneMissing, Held, Due
  <2>2. CASE ~SwitchesTo(s)
    BY <1>2, <1>5, <2>2 DEF SetSession, changeSessionFile
  <2> QED
    BY <2>1, <2>2
(* The handlers that may start a module: nothing is due that was stopping. *)
<1>6. \A e \in Entry : Due(e) => \/ e \in Elements(deferredStartList) \cup Elements(loading)
                                 \/ phase[e] \in present
  BY DEF NoneMissing, Held
<1>7. ASSUME NEW list, NEW ph, Quiet(deferredStartList, list, ph),
             serialNumberInitialized, UNCHANGED sessionPath, loading' = loading,
             \A e \in Entry : Due(e) /\ phase[e] \in present => ph[e] \in present,
             onModuleStartNext(deferredStartList, list, ph)
      PROVE  NoneMissing'
  <2>1. Served(Elements(deferredStartList), ph)
    BY <1>7, NextIsServed
  <2> QED
    BY <1>1, <1>6, <1>7, <2>1, ServedMissesNone
<1>8. ASSUME NEW list, NEW ph, NEW lock, NoStart(deferredStartList, list, ph, lock),
             \A e \in Entry : phase[e] \in present => ph[e] \in present,
             UNCHANGED <<sessionPath, loading>>
      PROVE  NoneMissing'
  BY <1>2, <1>8 DEF NoStart
<1>9. ASSUME NEW e \in Entry, Activated(e)
      PROVE  NoneMissing'
  <2> DEFINE ph == [phase EXCEPT ![e] = "active"]
  <2>1. Quiet(deferredStartList, moduleList, ph)
    BY <1>9, QuietWhenActivated DEF IInv, Activated, moduleActivated
  <2>2. \A f \in Entry : phase[f] \in present => ph[f] \in present
    BY DEF IInv, ManagerInv
  <2> HIDE DEF ph
  <2>3. /\ delayedModuleStartNext(FALSE, ph)
        /\ UNCHANGED <<sessionPath, loading>>
    BY <1>9 DEF Activated, moduleActivated, ph
  <2> QED
    BY <1>7, <1>8, <2>1, <2>2, <2>3 DEF delayedModuleStartNext
<1>10. ASSUME NEW e \in Entry, Deactivated(e)
       PROVE  NoneMissing'
  <2> DEFINE ph == [phase EXCEPT ![e] = "absent"]
  <2>1. serialNumberInitialized
    BY <1>10 DEF Deactivated, onModuleDelete, IInv, SerialBeforeSwitch, In
  <2>2. moduleList \ {e} = {} => Quiet(deferredStartList, moduleList \ {e}, ph)
    BY <1>10, QuietWhenGone DEF IInv, Deactivated, onModuleDelete
  <2>3. \A f \in Entry : phase[f] \in present => ph[f] \in present
    BY <1>10 DEF IInv, ManagerInv, Deactivated, onModuleDelete
  <2> HIDE DEF ph
  <2>4. /\ checkModuleList(moduleList \ {e}, ph)
        /\ UNCHANGED <<sessionPath, loading>>
    BY <1>10 DEF Deactivated, onModuleDelete, ph
  <2> QED
    BY <1>7, <1>8, <2>1, <2>2, <2>3, <2>4 DEF checkModuleList
<1>11. CASE Destroyed
  <2>1. serialNumberInitialized
    BY <1>11, ModuleManagerAssumption
    DEF Destroyed, moduleDestroyed, IInv, OtherTypes, SerialBeforeSwitch
  <2>2. moduleList = {} => Quiet(deferredStartList, moduleList, phase)
    BY QuietWhenEmpty, QuietWhenFree DEF IInv
  <2> QED
    BY <1>7, <1>8, <1>11, <2>1, <2>2 DEF Destroyed, moduleDestroyed, checkModuleList
<1>12. CASE SerialStart
  <2>1. ~moduleStartLock => Quiet(deferredStartList, moduleList, phase)
    BY QuietWhenFree DEF IInv
  <2> QED
    BY <1>7, <1>8, <1>12, <2>1
    DEF SerialStart, serialNumberSignalled, delayedModuleStartNext
<1>13. CASE LoadSession
  <2> DEFINE e == Head(loading)
  <2>1. /\ loading # <<>> /\ loading' = Tail(loading) /\ UNCHANGED sessionPath
        /\ \/ startModule(e)
           \/ /\ NameOf(e) \in Unreadable
              /\ NoStart(deferredStartList, moduleList, phase, moduleStartLock)
    BY <1>13 DEF LoadSession, LoadNext
  <2>2. e \in Entry /\ \A f \in Elements(loading) : f = e \/ f \in Elements(loading')
    <3>1. loading \in Seq(Entry) /\ Len(loading) \in Nat /\ DOMAIN loading = 1 .. Len(loading)
      BY DEF IInv, ManagerInv
    <3>2. /\ e = loading[1] /\ e \in Entry
          /\ DOMAIN loading' = 1 .. (Len(loading) - 1)
          /\ \A i \in 1 .. (Len(loading) - 1) : loading'[i] = loading[i + 1]
      BY <2>1, <3>1, HeadTailProperties
    <3>3. ASSUME NEW i \in DOMAIN loading, i # 1
          PROVE  loading[i] \in Elements(loading')
      <4>1. i - 1 \in 1 .. (Len(loading) - 1) /\ (i - 1) + 1 = i
        BY <3>1, <3>3
      <4>2. i - 1 \in DOMAIN loading' /\ loading'[i - 1] = loading[i]
        BY <3>2, <4>1
      <4> QED
        BY <4>2 DEF Elements
    <3> QED
      BY <3>2, <3>3 DEF Elements
  <2>3. ~moduleStartLock => Quiet(deferredStartList, moduleList, phase)
    BY QuietWhenFree DEF IInv
  <2> HIDE DEF e
  <2>4. CASE /\ ~moduleStartLock /\ Startable(e)
             /\ StartStartable(e, deferredStartList, moduleList, phase)
    <3>1. Served(Elements(deferredStartList) \cup {e}, phase)
      BY <2>2, <2>4, StartedIsServed DEF IInv, ManagerInv
    <3>2. \A f \in Entry : Due(f) =>
             \/ f \in (Elements(deferredStartList) \cup {e}) \cup Elements(loading')
             \/ phase[f] \in present
      BY <1>6, <2>2
    <3> QED
      BY <1>1, <2>1, <3>1, <3>2, ServedMissesNone
  <2>5. CASE /\ ~moduleStartLock /\ ~Startable(e) /\ serialNumberInitialized
             /\ onModuleStartNext(deferredStartList, moduleList, phase)
    <3>1. Served(Elements(deferredStartList), phase)
      BY <2>3, <2>5, NextIsServed
    <3>2. ~Due(e)
      BY <2>5 DEF Due
    <3>3. \A f \in Entry : Due(f) =>
             \/ f \in Elements(deferredStartList) \cup Elements(loading')
             \/ phase[f] \in present
      BY <1>6, <2>2, <3>2
    <3> QED
      BY <1>1, <2>1, <3>1, <3>3, ServedMissesNone
  <2>6. CASE deferredStartList' = Append(deferredStartList, e) /\ UNCHANGED phase
    <3>1. Elements(deferredStartList') = Elements(deferredStartList) \cup {e}
      <4>1. InFileOrder(deferredStartList)
            /\ \A f \in Elements(deferredStartList) : f.pos < e.pos
        BY <2>1, HeadTail DEF IInv, ManagerInv, QueueInFileOrder, e
      <4> QED
        BY <2>2, <2>6, <4>1, Appended DEF IInv, ManagerInv
    <3> QED
      BY <1>1, <1>6, <2>1, <2>2, <2>6, <3>1 DEF NoneMissing, Held
  <2>7. CASE /\ NameOf(e) \in Unreadable
             /\ NoStart(deferredStartList, moduleList, phase, moduleStartLock)
    <3>1. ~Due(e)
      BY <2>7 DEF Due
    <3> QED
      BY <1>1, <1>6, <2>1, <2>2, <2>7, <3>1 DEF NoneMissing, Held, NoStart
  <2> QED
    BY <2>1, <2>4, <2>5, <2>6, <2>7 DEF startModule, Enqueued
<1> QED
  BY <1>3, <1>4, <1>5, <1>9, <1>10, <1>11, <1>12, <1>13
  DEF Next, Client, Program, Module

LEMMA InitMissesNone ==
    ASSUME Init
    PROVE  NoneMissing /\ SerialIsKnown
<1>1. ASSUME NEW e \in Entry, e.session = sessionPath
      PROVE  e \in Elements(loading)
  <2>1. sessionPath \in Session
    BY <1>1, EntryType
  <2>2. loading = Entries(sessionPath)
    BY <2>1, ModuleManagerAssumption DEF Init
  <2> QED
    BY <1>1, <2>2, EntryIsListed
<1> QED
  BY <1>1 DEF Init, LicenseInit, NoneMissing, Held, Due, SerialIsKnown

(* When the gate is open nothing is left to load, nothing waits and        *)
(* nothing is coming up.                                                   *)
LEMMA OpenIsComplete ==
    ASSUME IInv, SerialIsKnown, NoneMissing
    PROVE  ReadyMeansComplete
<1> SUFFICES ASSUME sessionReady, control = "eventLoop",
                    NEW e \in Elements(Entries(sessionPath)),
                    Startable(e), NameOf(e) \in Creatable \ Unreadable
             PROVE  phase[e] = "active"
  BY DEF ReadyMeansComplete
<1>1. serialNumberInitialized /\ sessionPath \in Session
  BY DEF IInv, SerialBeforeSwitch, SerialIsKnown
<1>2. e \in Entry /\ e.session = sessionPath
  BY <1>1, EntriesOfSession, ElementsType
<1>3. Held(e)
  BY <1>2 DEF NoneMissing, Due
<1>4. loading = <<>> /\ deferredStartList = <<>> /\ ~moduleStartLock
  BY DEF IInv, ControlInv, GateOpenOnlyWhenSettled
<1>5. phase[e] \in {"activating", "active", "failed"}
  BY <1>3, <1>4, EmptyQueue DEF Held
<1>6. phase[e] \notin {"activating", "failed"}
  BY <1>2, <1>4 DEF IInv, ManagerInv, LockHasHolder, In
<1> QED
  BY <1>5, <1>6

(* While the device says one serial number, no module of the session that  *)
(* could be started is missing when clients find the gate open.            *)
THEOREM CompleteCorrect == Spec /\ OneSerialNumber => []ReadyMeansComplete
<1>1. Init => NoneMissing /\ SerialIsKnown
  BY InitMissesNone
<1>2. IInv /\ SerialIsKnown /\ [Next]_vars => SerialIsKnown'
  BY StepKnowsSerial
<1>3. Spec => []SerialIsKnown
  BY <1>1, <1>2, Invariance, PTL DEF Spec
<1>4. /\ IInv /\ LicenseInv /\ SerialIsKnown /\ NoneMissing
      /\ [Next]_vars
      /\ [deviceSerial' # deviceSerial => deviceSerial = NoSerial]_vars
      => NoneMissing'
  <2>1. UNCHANGED vars => deviceSerial' = deviceSerial
    BY DEF vars, licenseVars
  <2> QED
    BY <2>1, StepMissesNone
<1>5. IInv /\ SerialIsKnown /\ NoneMissing => ReadyMeansComplete
  BY OpenIsComplete
<1> QED
  BY <1>1, <1>3, <1>4, <1>5, Invariance, LicensesInvariance, PTL DEF Spec, OneSerialNumber
=============================================================================
