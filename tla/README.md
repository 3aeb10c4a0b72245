# Verification of zera-modulemanager

TLA+ models of the module manager of ZERA measuring devices, checked with TLC,
with the central safety properties proved by TLAPS for every instance.

The program is one process with one event loop. It loads measurement modules
(plugins) for a *session*, offers their data to clients over the network, lets
clients switch and pause the session, checks licenses, and keeps customer data
files. What makes it hard to test is the order of things: handlers call each
other through signals, modules answer whenever they like, the device's serial
number arrives while modules are already coming up, a delayed write meets a
change of the selected file, and searches run in threads while files change.

Paths below are relative to the repository; `x.cpp:12` is `src/x.cpp`, line 12.

## 1. The system

| part | state | operations | who calls it |
|---|---|---|---|
| License system, `licensesystem.cpp` | table of verified licenses, serial number, cache of licensed systems | constructor, `isSystemLicensed`, `processEvent` (PAR_SerialNr) | module manager and main ask; the status module publishes |
| Module manager, `modulemanager.cpp` | `m_moduleStartLock`, `m_deferredStartList`, `m_moduleList`, session path | `changeSessionFile`, `startModule`, `stopModules`, `onModuleStartNext`, `delayedModuleStartNext`, `checkModuleList`, `onModuleDelete`, `setModulesPaused` | loader, controller, modules, license system |
| Session loader, `jsonsessionloader.cpp` | none that decides anything | `loadSession`: one `startModule` for each entry | `sigSessionSwitched` |
| Module event handler, `moduleeventhandler.cpp` | queue of posted events, list of event systems of modules, subsystems | `addSystem`, `clearSystems`, `customEvent` | module manager, main |
| Controller, `modulemanagercontroller.cpp` | current session, gate `m_sessionReady`, `m_modulesPaused` | `processEvent`, `initializeEntity`, `setModulesPaused` | clients, `sigModulesLoaded` |
| Main, `main.cpp` | which conditional systems are initialised | wiring, start, systems added once licensed | |
| Customer data, `customerdatasystem.cpp` | file list, current name and document, write timer, pending calls and searches | `processEvent`, `parseCustomerDataFile`, `updateCustomerDataFileList`, `updateDataFile`, `writeCustomerdata`, three remote procedures | clients, timer, file watcher, thread pool |
| Database logger procedures, `zeradblogger.cpp` | pending calls | `listStorages`, `findDBFile`, `rpcProgress`, `rpcFinished` | clients, worker threads |
| Directory iterator worker, `diriteratorworker.cpp` | iterator | `startSearch` | its thread |
| Priority arbitration, `priorityarbitrationsystem.cpp` | reservations by priority, pending calls | `processEvent`, `arbitrationAdd`, `arbitrationRemove` | the event handler, in builds with `DEVICE_ARBITRATION` |

How they interact: `changeSessionFile` clears the event handler, tells the
modules to go and emits `sigSessionSwitched`; the loader's slot runs inside
that emission and calls `startModule` for each entry. `sigModulesLoaded` runs
the controller's `initializeEntity`, which opens the gate for the next session
request. `sigSerialNumberInitialized` runs main's slots (add the customer data
system and the logger) and then the manager's. All this is synchronous, in one
thread. Asynchronous are: the signals of modules, `deleteLater`, events posted
to the event handler, the write timer, the file watcher, and what worker
threads post.

The places where this bites are listed under `hazards` in `PROJECT.json`, each
at its line, with the properties that watch over it.

### What makes each part correct

* *License system*: nothing that depends on the serial number counts before it
  is known; a refusal is not withdrawn by the passing of time.
* *Module manager*: one module comes up at a time; the lock is held exactly
  while some module owes the signal that releases it; the old session is gone
  before the new one starts; nothing is lost from the queue or started twice;
  the queue drains.
* *Controller*: a request is passed on only when the manager is settled; when
  the gate is open the session is complete.
* *Event handler*: no event system outlives its module; what clients see of the
  controller is what it has, or an event that says so is the last one on its way.
* *Arbitration*: a level that was reserved for a uid holds, and the best one
  decides alone, until a call with that uid as its id gives a level of it up; each
  such call costs one level. (The code promises no more: it does not look at
  which client sends the call.)
* *Customer data*: an accepted value reaches the file it was meant for; no value
  of one customer is shown for another; the selected file is the one that edits
  go to.
* *Remote procedures*: results only while a call is pending, one answer for
  every call, and a search finds everything that stayed in place.

## 2. Modules

| module | models | notes |
|---|---|---|
| `LicenseSystem` | `licensesystem.cpp` | complete state machine of its own; its operators are used by the manager |
| `LicenseSystem_proofs` | proofs | |
| `ModuleManager` | `modulemanager.cpp`, `jsonsessionloader.cpp`, the module list of `moduleeventhandler.cpp` | handlers, one operator each |
| `ModuleManagerController` | `modulemanagercontroller.cpp` | handlers, used by `ZeraModuleManager` and `EventDispatch` |
| `ZeraModuleManager` | `main.cpp` | composes the three; `Spec`, `FairSpec`, properties |
| `SessionLifecycle` | abstract: what the manager promises | `ZeraModuleManager` refines it |
| `SessionControl` | abstract: what clients of the controller's entity meet | refined by `ZeraModuleManager` and by `EventDispatch` |
| `SessionLifecycle_proofs` | the two refinements of the program | |
| `ZeraModuleManager_proofs` | proofs | |
| `SessionModules_proofs` | proofs about licenses and completeness | on top of the proofs of the program and of the license system |
| `PriorityArbitration` | `priorityarbitrationsystem.cpp` | reservations and the results of the procedures |
| `EventDispatch` | `moduleeventhandler.cpp`, how the controller and the arbitration system handle events, `errorReportFunction` of `main.cpp` | `Spec`; composes the arbitration system, the controller, the storage and an abstract manager |
| `EventDispatch_proofs` | proofs | |
| `CustomerDataFiles` | the files of `customerdatasystem.cpp` | `FilesSpec` |
| `CustomerDataFiles_proofs` | proofs | |
| `CustomerDataSystem` | the procedures of `customerdatasystem.cpp` on top of the files | `CallsSpec`, `CallsFairSpec` |
| `CustomerDataSystem_proofs` | proofs | |
| `DatabaseSearch` | `zeradblogger.cpp`, `diriteratorworker.cpp` | `Spec`, `FairSpec` |
| `DatabaseSearch_proofs` | proofs | |
| `RemoteCalls` | abstract: what a client of a remote procedure relies on | refined by `CustomerDataSystem`, `DatabaseSearch` and `EventDispatch` |
| `MC...` | values of the constants for TLC | `DatabaseSearch` needs none |

Operators are named after the functions of the code. Some have a variant with
a suffix (`LockToStop_Never`, `SelectFile_NoFlush`): that is the same operator
with a mistake in it, kept to show that the property concerned would notice it;
`PROJECT.json` lists which belongs to which. No specification uses a variant.

### How the code became actions

*Synchronous call chains.* A handler that emits a signal continues only when
the slots have returned. Where such a chain fits in one step it is one step:
`Activated` is `moduleActivated`, the release of the lock,
`delayedModuleStartNext`, `onModuleStartNext`, `startModule` for the next
module *and all that are skipped on the way*, `sigModulesLoaded` and the
controller's `initializeEntity`. Where it has a loop or several receivers it is
split, and the variables `control` and `loading` make it one handler again: no
other action is enabled in between.
`loading` is what the loop of `loadSession` has still to hand over; `control`
is `startup` (main, before the signals between controller and manager are
connected), `changeSession` (the controller is inside
`emit sigChangeSession`), `serialSignal` and `serialStart` (the license system
is inside `emit sigSerialNumberInitialized`). The split is what makes visible
that `sigModulesLoaded` may be emitted in the middle of the loop and that the
gate is closed *after* the emission.

*Recursion.* `onModuleStartNext` and `startModule` call each other for
unlicensed modules. `StartNextLicensed` says the result: everything up to the
first startable entry is dropped, or everything.

*Modules* are plugins. The model assumes only what the handlers expect: a
module that was started adds its event system and announces `moduleActivated`,
or fails and announces nothing else; one that its factory was told to destroy
announces `moduleDeactivated`; none of these is emitted from inside
`startModule` or `destroyModule`; `destroyed` follows `deleteLater` in a later
round. Resuming a paused module (`VirtualModule::startModule`) is not announced
as an activation. A module in the middle of its start may be failed, but not
stopped: `stopModules` can only run when the lock is free, which is proved.

*Licenses* are records of the fields the code reads; months are numbers.
Signatures, files and JSON parsing give the constant `License`. Of several
licenses for one system any may be the one the table keeps.

*Events.* Two modules look at the controller from two sides.
`ZeraModuleManager` has the manager behind it in full, and takes one request
after the other. `EventDispatch` has the queue between them: requests, calls,
notifications and results are posted and wait, `customEvent` takes the first
one and shows it to the arbitration system, the controller and the storage in
this order, which is one step because a subsystem that accepts an event, or
rewrites it, decides what the next one sees. What a handler posts goes to the
end of the queue. The manager is abstract there: it refuses a request or
switches, and announces the session from inside the emission or later. With
nothing reserved the arbitration system lets every request pass, so that the
behaviours without reservations are those of the program as it is built.
`ModulesPaused` is confirmed by rewriting the request; the storage behind the
controller keeps it in the same step. `Session` is confirmed only by
`initializeEntity`, by an event of its own.

*Calls and clients* of the arbitration system. The ids of clients, the ids of
calls and the `uid` parameters are QUuids, and a client chooses the id of a call as
freely as its parameters (`priorityarbitrationsystem.cpp:72`).
`arbitrationRemove` compares the uid with the id of the call and never looks at
the client (line 287). So the id is a field of a request like the others, any
client may use any uid as id, its own or another's, once or again, and `Call`
only numbers the calls of a run.

*Customer files.* A file holds a document (a function from its keys, fields
of the program or not, to strings and other JSON values), or text that is not
JSON (`Broken`), or nothing (`Blank`: what the write of a document that could not
be parsed leaves), or it is there and cannot be opened (`Unreadable`: no
permission, or a directory of that name). `toString` gives the empty string for a
value that is no string, as `QJsonValue::toString` does. A JSON array counts as a
document without keys; it differs from one only in that it never matches a
search. Reading, writing and comparing are
one step each, as they are for the event loop; the workers of a search read
one file in one step. Others may put files into the directory, edit them and
remove them at any time; the watcher reports a change of the directory some
time later. A write replaces neither a directory nor the permissions of a file.
`Lower` maps a name to lower case, `Listed` are the names that
match `*.json`, `First` is the sort order of `entryList`.

*Searches.* QtConcurrent's workers test the files in any order; its watcher
delivers results before `finished`. The threads of `findDBFile` append to the
event queue of the logger, which is a sequence. The iterator may or may not
return files that come or go while it runs, and returns every file that stayed
(the fields `steady` and `visited` record what the properties need).

## 3. Runs

Passing runs:

| run | configuration | question | states |
|---|---|---|---|
| `license` | `MCLicenseSystem.cfg` | what licenses count, when a refusal is final | 272 |
| `system_safety` | `MCSystemSafety.cfg` | lock, queue, sessions, gate, event systems, paused modules, licenses of what runs, who is waited for; refinement of `SessionLifecycle` and `SessionControl` | 131 000 |
| `system_live` | `MCSystemLive.cfg` | an open gate means a complete session; the queue drains, a switch completes | 5 600 |
| `customer_shown` | `MCCustomerShown.cfg` | values shown are values stored, or unset | 2 288 000 |
| `customer_kept` | `MCCustomerKept.cfg` | accepted values reach their file | 59 000 |
| `customer_calls` | `MCCustomerCalls.cfg` | results reach pending calls; completeness of searches; `RemoteCalls`; searches end | 260 000 |
| `search` | `DatabaseSearch.cfg` | posted results reach pending calls, which are never orphaned; completeness; `RemoteCalls`; every search is answered | 356 000 |
| `dispatch` | `MCEventDispatch.cfg` | what clients see while events wait; reservations; `RemoteCalls` and `SessionControl` | 1 826 000 |

Runs that TLC refutes, because the code does not do what it says:

| run | what is said | what happens |
|---|---|---|
| `system_gate` | setting Session switches the session (`modulemanagercontroller.h:35`) | the gate is closed after the synchronous emission (`modulemanagercontroller.cpp:95`); when nothing opens it again (the current session or a missing file was set) every later request is dropped |
| `customer_selected` | FileSelected is the selected file (`customerdatasystem.h:94`) | a broken file that is refused becomes the current one (`customerdatasystem.cpp:376`) |
| `customer_removed` | the file is removed (`customerdatasystem.h:101`) | name, document and timer stay, and the next write creates it again |
| `customer_answers` | searches are made (`customerdatasystem.h:103`) | an empty map is never answered (`customerdatasystem.cpp:621`) |

Other places where the code does not do what is said of it, met while
modelling; the models include the behaviour, and no property speaks against it:

* `sigModulesLoaded` is described as sent "when all modules are loaded"
  (`modulemanager.h:77`). `startModule` calls `onModuleStartNext` for a module
  it skips (`modulemanager.cpp:193`); while the loader's loop is still running
  the queue is empty, and the signal is sent with modules left to hand over.
* `setModulesPaused` "pauses the value component event emittion of the modules"
  (`modulemanager.h:105`): of those that exist. Modules created later run while
  `ModulesPaused` is set, and setting it again changes nothing
  (`modulemanagercontroller.cpp:232`).
* The comment of `customerdatasystem.cpp:557` says that request tracking is
  copied, but the line copies the inner map: the result of `customerDataRemove`
  lacks the call id.
* `arbitrationRemove` is described as taking the "previously added peer uid"
  (`priorityarbitrationsystem.h:41`), and its error text says that "removing
  arbitration for other clients is forbidden" (`priorityarbitrationsystem.cpp:295`),
  but the uid is only compared with the id of the call (line 287), which the client
  chooses (line 72). A client that uses a fresh id for every call, as ids of calls
  are meant, can never give up what it has reserved; a call of any client whose id
  is the uid of a reservation does.
  Its result is sent under the name of `arbitrationAdd` (line 309). Of several
  levels of a client only the best is given up (lines 280-289).
* A call for a procedure that does not exist is answered with an error, but in a
  debug build `VF_ASSERT(false)` ends the program before that
  (`priorityarbitrationsystem.cpp:84`).
* `ClientPriorityList` is the "List of clients with descending priority order"
  (`priorityarbitrationsystem.h:36`); it is published empty and never changed.
* While anybody holds a reservation the program's own error messages, which
  have no peer, are dropped (`priorityarbitrationsystem.cpp:138`); a client that
  has gone keeps its reservation.
* `moduleeventhandler.cpp:35` lacks a semicolon, so that a build with
  `DEVICE_ARBITRATION` would not compile there.
* A customer file that is listed and cannot be opened
  (`customerdatasystem.cpp:374`) unsets every component, while the name, the
  document and `FileSelected` stay those of the previous customer: clients see
  nothing of a customer who is still selected, and what they set goes to that
  customer's file.
* What `customerDataAdd` writes is not checked (`customerdatasystem.cpp:526`): it
  reports success for a file that may be empty or cut short.
* A request that finds the gate closed gets neither a confirmation nor an error
  (`modulemanagercontroller.cpp:92`); a request for `Session` is not compared
  with the list of available sessions.
* `main.cpp:204` connects the error signal of the customer data system while its
  pointer is still null, so its errors are never shown. `main.cpp:259` calls
  `quit` before the event loop runs, where it has no effect.
* The thread of a search is a child of the logger and never told to quit
  (`zeradblogger.cpp:171`); each call of `findDBFile` leaves one.
* `checkStorageLocation` (`zeradblogger.cpp:59`) accepts every path when the
  root file system is not held in memory.
* The assertion of `customerdatasystem.cpp:657` says that every file has the
  fields searched for; line 389 says that files may be edited by hand.

### Bounds, and why they are enough

*Program.* Three sessions of 3, 4 and 1 modules (`MCZeraModuleManager`): one
whose first module waits for the serial number, with the status module second;
one with a name without a plugin and one without a license; one whose module
has a license that ends. A fourth name has no file. With three modules in a
session a module can run, one can come up and one can wait at the same time,
which is all the manager distinguishes; the loader can be in the middle of its
loop with modules skipped, started and queued. `MaxDestroying = 2` bounds the
deleted objects whose `destroyed` is still to come: two suffice for one that
arrives in the next session. `MaxMonth = 1` lets one license end. Two serial
numbers let the number change. In the liveness run modules do not fail (they
would keep the lock for good) and the number does not change: a second one may
license modules that were skipped before, and the open gate would no longer
mean a complete session. There the module in front of the status module needs
the serial number. If it were licensed without one it would come up first, the
status module would wait behind it, and nothing would start before the serial
number is known, which only the status module publishes (`delayedModuleStartNext`).
The session files of the repository avoid this, as they name the status module
first; `system_safety` has such licenses, where the mistake of not waiting would
show.

*Customer files.* Four names in `customer_kept`, of which one differs from its
lower case and one is not listed; three of them in `customer_shown` and
`customer_selected`, two in `customer_removed` and for the procedures. In
`customer_shown` two fields, a key that is no field, an empty and another string
and a value that is no string, so that a file can lack a field, have a strange
value in it, or have strange keys only; one field elsewhere. A switch needs two
files; a mix of values needs a value and its absence.

*Searches.* Two calls (interleaving of results and ends of two threads), three
paths of which two hold databases. Two calls of the customer data procedures
let a file be added or removed while a search is on.

*Events.* Two clients `p` and `q` and three calls, with the levels 0 and 1 and
a negative one that is refused. The first call reserves level 0 for `p`. The
others may reserve level 1 for `p` (also when `q` sends it) or for `q`, be refused,
name a procedure that does not exist, or give up a level of `p` with `p` or with
`q` as the id of the call. One level of two is given up, the only one, or
none is left for a second call that gives one up. That two levels are given up
one after the other needs a fourth call, which is left to the theorems: they hold
for every number of calls, clients, levels and events. `MaxQueue = 2` lets a
request wait behind a reservation, and a notification behind another one;
`MaxMessages = 2` lets the second message be sent while the first is still on its
way.

### Fairness

`ZeraModuleManager!FairSpec`: weak fairness of the handler in progress (the
event loop runs it to its end); strong fairness of posted and deferred events
and of the modules' signals, since they wait in a queue while other events are
handled, but not for ever; the status module publishes a first serial number
(it exists for that). Clients and the clock are not fair.
`CallsFairSpec` and `DatabaseSearch!FairSpec`: weak fairness of each worker and
of the delivery of what is posted. Nothing is assumed of clients, the timer,
the watcher or the others who change files. `EventDispatch` needs no fairness: its
properties are safety properties.

## 4. Proofs

Checked by `tlapm`, with nothing left out, from the named assumptions on the
constants (`LicenseAssumption`, `ModuleManagerAssumption`,
`MainAssumption`, `FilesAssumption`, `CallsAssumption`, `SearchAssumption`,
`ArbitrationAssumption`, `DispatchAssumption`, `ProcedureAssumption`).
Where a theorem has a hypothesis of its own, it is named below.
`PROJECT.json` lists the theorems with the properties they state.

**The program** (`ZeraModuleManager_proofs`). The theorem `Invariance` is
`Spec => []IInv`; from it follow `TypeCorrect`, `LockCorrect`,
`OneAtATimeCorrect`, `SessionsCorrect`, `QueueCorrect`, `GateCorrect`,
`SerialCorrect` and `EventSystemsCorrect`, which with `PauseCorrect` and the
theorems of `SessionModules_proofs` cover every invariant of `system_safety`.
Most of them are not inductive alone: that the gate is only open when the queue is empty needs that `sigModulesLoaded` is only emitted
with the queue empty, that needs to know which handlers may call
`onModuleStartNext`, and that needs the lock. `IInv` adds two parts:
`ListIsAlive` (the module list holds exactly the modules that exist, which
links the guard of `checkModuleList` to the phases) and `ControlInv` (which
handler can be in progress, so that the loader's loop only runs with the gate
accounted for). The turn the queue takes without a serial number
(`StartNextWithoutSerial`, which would break the file order) is shown to be
unreachable except with an empty queue, through `SerialBeforeSwitch`. The
start of the next module, in which most handlers end, is described once by the
lemmas `Started` and `NextStarted` (from a quiet state, one module of the queue
comes up and the queue is a suffix of what it was, or none and the queue is
empty); each action is then a short argument. `PauseCorrect` has an invariant
of its own, `PauseInv`: paused modules are in the module list, so that resuming
the modules of the list resumes them all.

**The refinements** (`SessionLifecycle_proofs`). `LifecycleKept`: the program
implements `SessionLifecycle`. With `IInv` as the invariant, the lemma
`StartSeen` says what the abstract specification sees of a start (one module
more, or none), and each action is shown to be one of its steps or not to be
seen. The gate counts as open only outside the emission of `sigChangeSession`,
which the code needs as it closes the gate after the emission.
`ControlKept`: the program also implements `SessionControl`, the interface
clients of the controller meet: a request that passes the gate is taken in one
step, however many handlers run until the emission returns, and the gate opens
only on the session that runs. It needs `LoadsWhatIsNoted`: while the loader's
loop runs inside the emission, the session that is loaded is the one the
controller has noted, so that an announcement from within says nothing else.
`DispatchControlKept` (in `EventDispatch_proofs`) shows the same of what
`EventDispatch` takes for the manager. What the two modules assume of each
other is thus one specification that both keep: requests take effect under the
same condition, and announcements say the same thing. `EventDispatch` allows an
announcement at any time, which is more than the manager does; its variable
`loading` only serves `SessionShown` and no guard reads it.

**Modules and licenses** (`SessionModules_proofs`). `LicensesKept`: the program
implements `LicenseSystem`, in the middle of whatever handler a license is asked
for, so that the three theorems about that module hold of the program
(`ProgramEarlyCorrect`, `ProgramRefusalCorrect`, `ProgramLicensedCorrect`).
`RunningCorrect` adds to `RunningIsLicensed` that what was started was
remembered as licensed in the same step (`RememberedInv`), which makes it stay
true when the license ends. `AwaitedCorrect` is the part of `QueueDrains` that a
proof can reach: a queue is never left alone, except behind a plugin that
creates no module. `CompleteCorrect` states `ReadyMeansComplete` from one
assumption, about the device and not the program: the serial number it
publishes does not change (`OneSerialNumber`); a second number may license
modules that were passed over. Modules may fail and plugins may create
nothing, which is more than `system_live` allows. Its invariant `NoneMissing`
accounts for every entry of the session that is due (its plugin works, its
configuration can be read and, once the serial number is known, it can be
started): it is still to be handed over by the loader, waits in the queue, is
coming up, runs, or has failed and keeps the gate closed. `NothingBecomesDue`
says that within a session no step makes an entry due that was passed over: the
clock only takes licenses away, and a refusal can only be withdrawn by a new
serial number.

**License system** (`LicenseSystem_proofs`). `EarlyCorrect`, `RefusalCorrect`
and `LicensedCorrect`, for any table of licenses, serial numbers and length of
time. `EarlyCorrect` rests on `LicenseInv`: while the serial number is unknown the
placeholder is compared, and what the constructor found or the cache holds is
covered by a license for every device. The two action properties follow step by
step; a refusal is final because a license that has ended stays so when the
month passes.

**Customer files** (`CustomerDataFiles_proofs`). `FilesCorrect`,
`TimerCorrect` and `ShownCorrect` hold whatever happens to the files and whatever
the disk refuses. `ShownCorrect` states `ShownIsStoredOrUnset`: in a field the
current document has, clients see what it holds, or nothing. The second case is
there because a switch to a file that cannot be opened, or to none, unsets the
components and keeps the document. It is inductive together with the types, the
timer, `CurrentListed` (the current name is one `entryList` lists, or none) and
`NoFileBlank` (without a name there is no document).
`PendingCorrect`: `PendingWriteKept` for a disk that takes its writes
(`~MayFail`). `SelectedCorrect`: `SelectedIsCurrent` while what others write can
be used and the disk takes its writes (`AllUsable`, `Field # {}`, `~MayFail`);
without that the run `customer_selected` refutes it. Its invariant `WInv` says
that every file on the disk can be used, and the document in the memory while a
write is pending.

**Customer data procedures** (`CustomerDataSystem_proofs`). `CallsCorrect`,
`WatchersCorrect`, `SearchesCorrect` and `ContractKept`, for any number of
calls and files. The invariant `CInv` adds to that of the files that a call
that is searched for is pending, and a pending one not answered (`PendingInv`),
and that every listed file that matched at the call and did not change since
waits for a worker, waits for delivery, or has been delivered (`SearchInv`).
`FilesKept`: with calls and searches the files behave as `CustomerDataFiles`
says, so that its theorems hold of the component (`CallsTimerCorrect`,
`CallsShownCorrect`, `CallsPendingCorrect`, under the same assumptions). Two
theorems say what is behind the run `customer_answers`, for every instance:
`PendingIsSearched`, that as long as nobody searches with an empty map the
pending calls are exactly those that are searched for, and `LostStaysLost`, that
a pending call without a search is never answered.

**Database search** (`DatabaseSearch_proofs`). `ServedCorrect`:
`PendingIsServed`, the safety part of `EveryCallAnswered`. It is inductive with
the invariant of `PostsCorrect`: the end of a search moves up in the queue and
leaves it only when its call is answered. `PostsCorrect`: what is posted
reaches a pending call, for any number of calls and files. The invariant says
in addition that a worker that is not through has a pending call, and that the
end of a search is posted only by a worker that is idle from then on.
`ContractKept`: the specification implements `RemoteCalls`, step by step.
`SearchesComplete`: an answered search found everything that stayed. Its
invariant `FoundInv` follows a database from the iterator through the queue to
the client, and uses that nothing of a search is posted behind its end.

**Events** (`EventDispatch_proofs`). `DispatchTypesCorrect`,
`SessionShownCorrect`, `ShownIsKeptCorrect`, `GrantedHoldsCorrect`,
`HighestDecidesCorrect`, `DispatchContractKept` and `DispatchControlKept`, for
any number of clients, calls, levels and waiting events. Every step either posts one event at the end
of the queue (`OutsideStep`) or takes the first one and may add one
(`DispatchShape`), so that each property is shown for these two shapes, with
positions in the queue shifted by one; `ShownOrNewest` and `KeptAndShown` say
the properties by positions. Two further invariants carry the rest. `CallsOnce`: a call is
on its way at most once, as a call or as a result, and no more when it is
answered; from it a result is never overwritten, and a call that succeeds had
not succeeded before (`SucceededStep`). `GrantedInv`: the parts of `GrantedHolds`,
with the sets it counts being finite. A step adds a level and a call that was
granted it, or takes a level and adds a call that gave it up, or does neither
(`LevelsStep`, `CountedStep`); nothing is assumed of who uses which id.
`HighestDecides` uses
`GrantedHolds` and the lemma `Smallest`: a set of levels has a least one, by
well-founded induction, so that level 0 is the first of the map whenever it is
reserved.

Model-checked only: the liveness properties (`QueueDrains`, `SwitchCompletes`,
`SearchesEnd`, `EveryCallAnswered` of the database search; fairness and ENABLED
are beyond the prover). `QueueIsAwaited`, `PendingIsServed` and
`PendingIsSearched` are what is proved of them. `QueueDrains` and
`SwitchCompletes` are checked where the module before the status module needs the
serial number: they do not say that the program is free of the wait described
under *Bounds*. Every invariant and every action property of the passing runs is
stated by a theorem. The other way round `KeepsLicenses`, `FilesTypeOK` and
`DispatchTypeOK` are only proved and in no run, and so are the theorems
about calls with an empty map.

## 5. Not modelled

* Requests to fetch, to subscribe and to introspect, which the controller and
  the arbitration system confirm or answer from constants, and those for
  `LoggedComponents`: they change no state the properties speak of.
* The early exits of `main` for a missing configuration, `loadScripts`,
  `saveModuleConfig`, `openDatabase` and `checkStorageLocation` (a check of the
  path, then a library).
* The life of the thread objects of the database search up to the end of the
  program: they belong to the logger and nothing waits for them.
* The network, storage, script and logger libraries, the plugins and the thread
  pool: other repositories. Where the code depends on them the model says what
  it assumes (above).

## 6. Plan

Done: license system, module manager with controller and main, customer data
with its procedures, database search, priority arbitration, the dispatch of
events, and their proofs as listed.

Left: nothing that was planned. The liveness properties stay with TLC.

## 7. Running

    tlc -config MCSystemSafety.cfg MCZeraModuleManager.tla
    tlapm ZeraModuleManager_proofs.tla

The module and configuration of every run are in `PROJECT.json`. The longest run
takes two to three minutes, the proofs of each module a few minutes.
