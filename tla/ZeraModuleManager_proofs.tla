----------------------- MODULE ZeraModuleManager_proofs -----------------------
(***************************************************************************)
(* Proofs about ZeraModuleManager, for every set of sessions, modules,     *)
(* licenses and serial numbers.                                            *)
(*                                                                         *)
(* The invariant has one part per concern; the start of the next module,   *)
(* which most handlers end in, is described once by the lemmas Started and *)
(* NextStarted, and every action is then a short argument about them.      *)
(***************************************************************************)
EXTENDS ZeraModuleManager, TLAPS, SequenceTheorems

(***************************************************************************)
(* The inductive invariant.                                                *)
(***************************************************************************)
(* The module list holds exactly the modules that exist.                   *)
ListIsAlive == \A e \in Entry : e \in moduleList <=> phase[e] # "absent"

(* Where a handler may be when it calls another component.                 *)
ControlInv ==
    /\ loading # <<>> => control \in {"startup", "changeSession"}
    /\ control = "startup" => ~sessionReady
    /\ control \in {"changeSession", "serialSignal", "serialStart"}
           => serialNumberInitialized

(* The part about the module manager, with the types it needs.             *)
ManagerInv ==
    /\ deferredStartList \in Seq(Entry)
    /\ loading \in Seq(Entry)
    /\ moduleList \subseteq Entry
    /\ phase \in [Entry -> Phase]
    /\ moduleStartLock \in BOOLEAN
    /\ sigModulesLoaded \in BOOLEAN
    /\ ListIsAlive
    /\ OneModuleAtATime
    /\ LockHasHolder
    /\ SessionsDoNotMix
    /\ QueueInFileOrder
    /\ NoDanglingEventSystem

(* The types of everything else.                                           *)
OtherTypes ==
    /\ LicenseTypeOK
    /\ sessionPath \in Session \cup {NoSession}
    /\ destroying \in 0..MaxDestroying
    /\ moduleSystems \subseteq Entry
    /\ pausedModules \subseteq Entry
    /\ currentSession \in SessionName \cup {NoSession}
    /\ sessionReady \in BOOLEAN
    /\ modulesPaused \in BOOLEAN
    /\ control \in Control
    /\ subsystems \subseteq ConditionalSystem

IInv ==
    /\ OtherTypes
    /\ ManagerInv
    /\ GateOpenOnlyWhenSettled
    /\ SerialBeforeSwitch
    /\ ControlInv

----------------------------------------------------------------------------
(***************************************************************************)
(* Queues.                                                                 *)
(***************************************************************************)
LEMMA EntriesOfSession ==
    ASSUME NEW s \in Session
    PROVE  /\ Entries(s) \in Seq(Entry)
           /\ InFileOrder(Entries(s))
           /\ \A e \in Elements(Entries(s)) : e.session = s
<1>1. SessionFile[s] \in Seq(ModuleName)
  BY ModuleManagerAssumption
<1>2. \A i \in DOMAIN SessionFile[s] :
         [session |-> s, pos |-> i] \in [session : {s}, pos : DOMAIN SessionFile[s]]
  OBVIOUS
<1>3. \A i \in DOMAIN SessionFile[s] : [session |-> s, pos |-> i] \in Entry
  BY <1>2 DEF Entry
<1>4. DOMAIN SessionFile[s] = 1 .. Len(SessionFile[s]) /\ Len(SessionFile[s]) \in Nat
  BY <1>1
<1>5. Entries(s) \in [1 .. Len(SessionFile[s]) -> Entry]
  BY <1>3, <1>4 DEF Entries
<1>6. Entries(s) \in Seq(Entry)
  BY <1>4, <1>5
<1>7. InFileOrder(Entries(s))
  BY <1>4 DEF InFileOrder, Entries
<1>8. \A e \in Elements(Entries(s)) : e.session = s
  <2>1. \A i \in DOMAIN Entries(s) : Entries(s)[i].session = s
    BY <1>4 DEF Entries
  <2> QED
    BY <2>1 DEF Elements
<1> QED
  BY <1>6, <1>7, <1>8

(* The fields of an entry, and its name.                                   *)
LEMMA EntryType ==
    ASSUME NEW e \in Entry
    PROVE  /\ e.session \in Session
           /\ e.pos \in Nat
           /\ NameOf(e) \in ModuleName
<1>1. PICK s \in Session : e \in [session : {s}, pos : DOMAIN SessionFile[s]]
  BY DEF Entry
<1>2. SessionFile[s] \in Seq(ModuleName)
  BY ModuleManagerAssumption
<1>3. DOMAIN SessionFile[s] = 1 .. Len(SessionFile[s]) /\ Len(SessionFile[s]) \in Nat
  BY <1>2
<1>4. e.session = s /\ e.pos \in 1 .. Len(SessionFile[s])
  BY <1>1, <1>3
<1> QED
  BY <1>2, <1>3, <1>4 DEF NameOf

(* What follows an element of an ordered queue is ordered, part of the     *)
(* queue, and lies behind that element.                                    *)
LEMMA Behind ==
    ASSUME NEW d \in Seq(Entry), InFileOrder(d), NEW k \in DOMAIN d
    PROVE  /\ SubSeq(d, k + 1, Len(d)) \in Seq(Entry)
           /\ InFileOrder(SubSeq(d, k + 1, Len(d)))
           /\ Elements(SubSeq(d, k + 1, Len(d))) \subseteq Elements(d)
           /\ d[k] \in Entry /\ d[k] \in Elements(d)
           /\ \A e \in Elements(SubSeq(d, k + 1, Len(d))) : d[k].pos < e.pos
<1> DEFINE rest == SubSeq(d, k + 1, Len(d))
<1>1. k \in 1 .. Len(d) /\ Len(d) \in Nat
  OBVIOUS
<1>2. rest \in Seq(Entry) /\ Len(rest) = Len(d) - k
  BY <1>1
<1>3. \A i \in 1 .. Len(rest) : rest[i] = d[k + i]
  BY <1>1, <1>2
<1>4. DOMAIN rest = 1 .. Len(rest)
  BY <1>2
<1>5. \A i \in DOMAIN rest : k + i \in DOMAIN d /\ k < k + i
  BY <1>1, <1>2, <1>4
<1>6. InFileOrder(rest)
  <2> SUFFICES ASSUME NEW i \in DOMAIN rest, NEW j \in DOMAIN rest, i < j
               PROVE  rest[i].pos < rest[j].pos
    BY DEF InFileOrder
  <2>1. k + i < k + j
    BY <1>1, <1>2, <1>4
  <2> QED
    BY <2>1, <1>3, <1>4, <1>5 DEF InFileOrder
<1>7. Elements(rest) \subseteq Elements(d)
  BY <1>3, <1>4, <1>5 DEF Elements
<1>8. \A e \in Elements(rest) : d[k].pos < e.pos
  BY <1>3, <1>4, <1>5 DEF Elements, InFileOrder
<1>9. d[k] \in Entry /\ d[k] \in Elements(d)
  BY DEF Elements
<1> QED
  BY <1>2, <1>6, <1>7, <1>8, <1>9

(* What taking the first entry off a queue in file order leaves.           *)
LEMMA HeadTail ==
    ASSUME NEW d \in Seq(Entry), InFileOrder(d), d # <<>>
    PROVE  /\ Head(d) \in Entry
           /\ Head(d) \in Elements(d)
           /\ Tail(d) \in Seq(Entry)
           /\ InFileOrder(Tail(d))
           /\ Elements(Tail(d)) \subseteq Elements(d)
           /\ \A e \in Elements(Tail(d)) : Head(d).pos < e.pos
<1>1. Len(d) \in Nat /\ Len(d) > 0 /\ DOMAIN d = 1 .. Len(d) /\ Head(d) = d[1]
  BY EmptySeq
<1>2. Tail(d) \in Seq(Entry) /\ Len(Tail(d)) = Len(d) - 1
  BY <1>1, HeadTailProperties
<1>3. \A i \in 1 .. Len(Tail(d)) : Tail(d)[i] = d[i + 1]
  BY <1>1, HeadTailProperties
<1>4. DOMAIN Tail(d) = 1 .. Len(Tail(d))
  BY <1>2
<1>5. \A i \in DOMAIN Tail(d) : i + 1 \in DOMAIN d /\ 1 < i + 1
  BY <1>1, <1>2, <1>4
<1>6. InFileOrder(Tail(d))
  <2> SUFFICES ASSUME NEW i \in DOMAIN Tail(d), NEW j \in DOMAIN Tail(d), i < j
               PROVE  Tail(d)[i].pos < Tail(d)[j].pos
    BY DEF InFileOrder
  <2>1. i + 1 < j + 1
    BY <1>2, <1>4
  <2> QED
    BY <2>1, <1>3, <1>4, <1>5 DEF InFileOrder
<1>7. 1 \in DOMAIN d
  BY <1>1
<1>8. \A e \in Elements(Tail(d)) : d[1].pos < e.pos
  BY <1>3, <1>4, <1>5, <1>7 DEF Elements, InFileOrder
<1>9. Elements(Tail(d)) \subseteq Elements(d)
  BY <1>3, <1>4, <1>5 DEF Elements
<1> QED
  BY <1>1, <1>2, <1>6, <1>7, <1>8, <1>9 DEF Elements

(* What adding a later entry to a queue in file order gives.               *)
LEMMA Appended ==
    ASSUME NEW d \in Seq(Entry), InFileOrder(d), NEW e \in Entry,
           \A f \in Elements(d) : f.pos < e.pos
    PROVE  /\ Append(d, e) \in Seq(Entry)
           /\ InFileOrder(Append(d, e))
           /\ Elements(Append(d, e)) = Elements(d) \cup {e}
<1> DEFINE a == Append(d, e)
<1>1. /\ a \in Seq(Entry)
      /\ Len(a) = Len(d) + 1
      /\ \A i \in 1 .. Len(d) : a[i] = d[i]
      /\ a[Len(d) + 1] = e
  BY AppendProperties
<1>2. DOMAIN a = 1 .. (Len(d) + 1) /\ DOMAIN d = 1 .. Len(d) /\ Len(d) \in Nat
  BY <1>1
<1>3. InFileOrder(a)
  <2> SUFFICES ASSUME NEW i \in DOMAIN a, NEW j \in DOMAIN a, i < j
               PROVE  a[i].pos < a[j].pos
    BY DEF InFileOrder
  <2>1. i \in DOMAIN d /\ a[i] = d[i]
    BY <1>1, <1>2
  <2>2. CASE j \in DOMAIN d
    BY <2>1, <2>2, <1>1, <1>2 DEF InFileOrder
  <2>3. CASE j = Len(d) + 1
    BY <2>1, <2>3, <1>1 DEF Elements
  <2> QED
    BY <2>2, <2>3, <1>2
<1>4. Elements(a) = Elements(d) \cup {e}
  <2>1. Elements(a) \subseteq Elements(d) \cup {e}
    <3> SUFFICES ASSUME NEW i \in DOMAIN a PROVE a[i] \in Elements(d) \cup {e}
      BY DEF Elements
    <3> QED
      BY <1>1, <1>2 DEF Elements
  <2>2. \A i \in DOMAIN d : i \in DOMAIN a /\ d[i] = a[i]
    BY <1>1, <1>2
  <2>3. Len(d) + 1 \in DOMAIN a
    BY <1>2
  <2> QED
    BY <2>1, <2>2, <2>3, <1>1 DEF Elements
<1> QED
  BY <1>1, <1>3, <1>4

----------------------------------------------------------------------------
(***************************************************************************)
(* Starting the next module.                                               *)
(***************************************************************************)
(* What holds of the queue, the list and the phases whenever a module may  *)
(* be started: nothing is coming up or going down.                         *)
Quiet(d, list, ph) ==
    /\ d \in Seq(Entry)
    /\ list \subseteq Entry
    /\ ph \in [Entry -> Phase]
    /\ \A e \in Entry : e \in list <=> ph[e] # "absent"
    /\ \A e \in Entry : ph[e] \in {"absent", "active"}
    /\ \A e \in list : e.session = sessionPath
    /\ \A e \in Elements(d) : e.session = sessionPath /\ ph[e] = "absent"
    /\ InFileOrder(d)

(* The next state after such a start: either nothing new is there, or one  *)
(* of `from' is, it is the only one coming up, and the lock is held for it.*)
Nothing(list, ph) ==
    /\ ~moduleStartLock'
    /\ moduleList' = list
    /\ phase' = ph
    /\ sigModulesLoaded' \in BOOLEAN
    /\ sigModulesLoaded' => deferredStartList' = <<>>

OneOf(from, list, ph) ==
    \E e \in Entry \ list :
        /\ e.session = sessionPath
        /\ e \in from \ Elements(deferredStartList')
        /\ moduleStartLock'
        /\ sigModulesLoaded' = FALSE
        /\ moduleList' = list \cup {e}
        /\ phase' = [ph EXCEPT ![e] = "activating"]

Result(from, d, list, ph) ==
    /\ deferredStartList' \in Seq(Entry)
    /\ InFileOrder(deferredStartList')
    /\ Elements(deferredStartList') \subseteq Elements(d)
    /\ licensedSystems' \subseteq System
    /\ moduleStartLock' \in BOOLEAN
    /\ Nothing(list, ph) \/ OneOf(from, list, ph)

(* Only systems are remembered as licensed.                                *)
LEMMA RememberType ==
    ASSUME licensedSystems \subseteq System, NEW s \in SUBSET System, Remember(s)
    PROVE  licensedSystems' \subseteq System
BY DEF Remember

(* One startable module e, with the queue d left behind it.                *)
LEMMA Started ==
    ASSUME NEW d, NEW list, NEW ph, NEW e \in Entry,
           Quiet(d, list, ph),
           licensedSystems \subseteq System,
           e.session = sessionPath, ph[e] = "absent", e \notin Elements(d),
           StartStartable(e, d, list, ph)
    PROVE  Result({e}, d, list, ph)
<1>1. NameOf(e) \in System
  BY EntryType, ModuleManagerAssumption
<1>2. Remember({NameOf(e)})
  BY DEF StartStartable, CreateModule, CreateNothing
<1>3. licensedSystems' \subseteq System
  BY <1>1, <1>2, RememberType
<1>4. deferredStartList' = d /\ moduleStartLock' \in BOOLEAN
  BY DEF StartStartable, CreateModule, CreateNothing, Defer
<1>5. CASE CreateModule(e, d, list, ph)
  <2>1. e \in Entry \ list
    BY DEF Quiet
  <2>2. OneOf({e}, list, ph)
    BY <1>5, <2>1 DEF OneOf, CreateModule
  <2> QED
    BY <2>2, <1>3, <1>4 DEF Result, Quiet
<1>6. CASE CreateNothing(e, d, list, ph)
  <2>1. Nothing(list, ph)
    BY <1>6 DEF Nothing, CreateNothing, Defer
  <2> QED
    BY <2>1, <1>3, <1>4 DEF Result, Quiet
<1> QED
  BY <1>5, <1>6 DEF StartStartable

(* The elements of a queue are entries.                                    *)
LEMMA ElementsType ==
    ASSUME NEW q \in Seq(Entry)
    PROVE  Elements(q) \subseteq Entry
BY DEF Elements

(* The empty queue is in file order.                                       *)
LEMMA EmptyQueue ==
    /\ <<>> \in Seq(Entry)
    /\ InFileOrder(<<>>)
    /\ Elements(<<>>) = {}
BY DEF InFileOrder, Elements

(* The first startable module of the queue d, or none.                     *)
LEMMA NextStarted ==
    ASSUME NEW d, NEW list, NEW ph,
           Quiet(d, list, ph),
           licensedSystems \subseteq System,
           serialNumberInitialized,
           onModuleStartNext(d, list, ph)
    PROVE  /\ Result(Elements(d), d, list, ph)
           /\ d = <<>> => sigModulesLoaded'
<1>1. StartNextLicensed(d, list, ph)
  BY DEF onModuleStartNext
<1>2. CASE (\A j \in DOMAIN d : ~Startable(d[j])) /\ ModulesLoaded(list, ph)
  <2>1. Nothing(list, ph)
    BY <1>2 DEF Nothing, ModulesLoaded
  <2>2. deferredStartList' = <<>> /\ licensedSystems' = licensedSystems /\ sigModulesLoaded'
        /\ moduleStartLock' = FALSE
    BY <1>2 DEF ModulesLoaded
  <2>3. Elements(deferredStartList') \subseteq Elements(d)
    BY <2>2, EmptyQueue
  <2> QED
    BY <2>1, <2>2, <2>3, EmptyQueue DEF Result
<1>3. ASSUME NEW k \in DOMAIN d,
             StartStartable(d[k], SubSeq(d, k + 1, Len(d)), list, ph)
      PROVE  Result(Elements(d), d, list, ph) /\ d # <<>>
  <2> DEFINE rest == SubSeq(d, k + 1, Len(d))
             e == d[k]
  <2>1. d \in Seq(Entry) /\ InFileOrder(d)
    BY DEF Quiet
  <2>2. /\ rest \in Seq(Entry)
        /\ InFileOrder(rest)
        /\ Elements(rest) \subseteq Elements(d)
        /\ e \in Entry /\ e \in Elements(d)
        /\ \A f \in Elements(rest) : e.pos < f.pos
    BY <2>1, Behind
  <2>3. e \notin Elements(rest)
    <3> SUFFICES ASSUME e \in Elements(rest) PROVE FALSE
      OBVIOUS
    <3>1. e.pos < e.pos /\ e.pos \in Nat
      BY <2>2, EntryType
    <3> QED
      BY <3>1
  <2>4. e.session = sessionPath /\ ph[e] = "absent"
    BY <2>2 DEF Quiet
  <2>5. Quiet(rest, list, ph)
    BY <2>2 DEF Quiet
  <2> HIDE DEF rest, e
  <2>6. StartStartable(e, rest, list, ph)
    BY <1>3 DEF rest, e
  <2>7. Result({e}, rest, list, ph)
    BY <2>2, <2>3, <2>4, <2>5, <2>6, Started
  <2>8. Result(Elements(d), d, list, ph)
    BY <2>2, <2>7 DEF Result, OneOf
  <2>9. d # <<>>
    BY <1>3
  <2> QED
    BY <2>8, <2>9
<1> QED
  BY <1>1, <1>2, <1>3 DEF StartNextLicensed

----------------------------------------------------------------------------
(***************************************************************************)
(* How a start, a result as above, establishes the invariant of the        *)
(* manager.                                                                *)
(***************************************************************************)
LEMMA StartKeeps ==
    ASSUME NEW from, NEW d, NEW list, NEW ph,
           Quiet(d, list, ph),
           Result(from, d, list, ph),
           sessionPath' = sessionPath,
           moduleSystems' = moduleSystems,
           moduleSystems \subseteq list,
           loading' \in Seq(Entry),
           InFileOrder(loading'),
           \A f \in Elements(loading') :
               f.session = sessionPath /\ ph[f] = "absent" /\ f \notin from,
           \A e \in Elements(d), f \in Elements(loading') : e.pos < f.pos
    PROVE  /\ ManagerInv'
           /\ In({"stopping"})' = {}
           /\ sigModulesLoaded' => ~moduleStartLock' /\ deferredStartList' = <<>>
<1>1. CASE Nothing(list, ph)
  <2>1. /\ deferredStartList' \in Seq(Entry)
        /\ moduleStartLock' \in BOOLEAN /\ ~moduleStartLock'
        /\ moduleList' = list /\ phase' = ph
        /\ sigModulesLoaded' \in BOOLEAN
        /\ sigModulesLoaded' => deferredStartList' = <<>>
    BY <1>1 DEF Nothing, Result
  <2>2. \A e \in Entry : phase'[e] \in {"absent", "active"}
    BY <2>1 DEF Quiet
  <2>3. ListIsAlive' /\ OneModuleAtATime' /\ LockHasHolder' /\ In({"stopping"})' = {}
    BY <2>1, <2>2 DEF ListIsAlive, OneModuleAtATime, LockHasHolder, In, Quiet
  <2>4. SessionsDoNotMix'
    <3>1. \A e \in In({"activating", "active", "failed"})' : e.session = sessionPath'
      BY <2>1 DEF In, Quiet
    <3>2. \A e \in Elements(deferredStartList') \cup Elements(loading') :
             e.session = sessionPath'
      BY DEF Quiet, Result
    <3> QED
      BY <3>1, <3>2, <2>3 DEF SessionsDoNotMix
  <2>5. QueueInFileOrder'
    BY <2>1 DEF QueueInFileOrder, Quiet, Result, InFileOrder
  <2>6. NoDanglingEventSystem'
    BY <2>1, <2>2 DEF NoDanglingEventSystem, In, Quiet
  <2> QED
    BY <2>1, <2>3, <2>4, <2>5, <2>6 DEF ManagerInv, Quiet
<1>2. CASE OneOf(from, list, ph)
  <2>1. PICK e \in Entry \ list :
            /\ e.session = sessionPath
            /\ e \in from \ Elements(deferredStartList')
            /\ moduleStartLock'
            /\ sigModulesLoaded' = FALSE
            /\ moduleList' = list \cup {e}
            /\ phase' = [ph EXCEPT ![e] = "activating"]
    BY <1>2 DEF OneOf
  <2>2. /\ deferredStartList' \in Seq(Entry)
        /\ moduleStartLock' \in BOOLEAN
        /\ sigModulesLoaded' \in BOOLEAN
        /\ moduleList' \subseteq Entry
        /\ phase' \in [Entry -> Phase]
    BY <2>1 DEF Result, Quiet, Phase
  <2>3. /\ phase'[e] = "activating"
        /\ \A f \in Entry : f # e => phase'[f] = ph[f] /\ phase'[f] \in {"absent", "active"}
    BY <2>1 DEF Quiet
  <2>4. ListIsAlive' /\ OneModuleAtATime' /\ LockHasHolder' /\ In({"stopping"})' = {}
    BY <2>1, <2>3 DEF ListIsAlive, OneModuleAtATime, LockHasHolder, In, Quiet
  <2>5. SessionsDoNotMix'
    <3>1. \A f \in In({"activating", "active", "failed"})' : f.session = sessionPath'
      BY <2>1, <2>3 DEF In, Quiet
    <3>2. \A f \in Elements(deferredStartList') \cup Elements(loading') :
             f.session = sessionPath'
      BY DEF Quiet, Result
    <3> QED
      BY <3>1, <3>2, <2>4 DEF SessionsDoNotMix
  <2>6. QueueInFileOrder'
    <3>1. \A f \in Elements(deferredStartList') \cup Elements(loading') :
              f \in Entry /\ f # e /\ ph[f] = "absent"
      BY <2>1, <2>2, ElementsType DEF Quiet, Result
    <3>2. \A f \in Elements(deferredStartList') \cup Elements(loading') :
              phase'[f] = "absent"
      BY <3>1, <2>3
    <3> QED
      BY <3>2 DEF QueueInFileOrder, Result, InFileOrder
  <2>7. NoDanglingEventSystem'
    BY <2>1, <2>3 DEF NoDanglingEventSystem, In, Quiet
  <2> QED
    BY <2>1, <2>2, <2>4, <2>5, <2>6, <2>7 DEF ManagerInv
<1> QED
  BY <1>1, <1>2 DEF Result

----------------------------------------------------------------------------
(***************************************************************************)
(* When it is quiet.                                                       *)
(***************************************************************************)
LEMMA QuietWhenFree ==
    ASSUME ManagerInv, ~moduleStartLock
    PROVE  Quiet(deferredStartList, moduleList, phase)
<1>1. \A e \in Entry : phase[e] \in {"absent", "active"}
  BY DEF ManagerInv, LockHasHolder, In, Phase
<1>2. \A e \in moduleList : e.session = sessionPath
  BY <1>1 DEF ManagerInv, ListIsAlive, SessionsDoNotMix, In
<1> QED
  BY <1>1, <1>2 DEF Quiet, ManagerInv, ListIsAlive, SessionsDoNotMix, QueueInFileOrder

(* The lock is free when there is no module.                               *)
LEMMA QuietWhenEmpty ==
    ASSUME ManagerInv, moduleList = {}
    PROVE  ~moduleStartLock
BY DEF ManagerInv, ListIsAlive, LockHasHolder, In

(* The lock is held for the module that activates, and nothing else comes  *)
(* up or goes down: after it the next module may be started.               *)
LEMMA QuietWhenActivated ==
    ASSUME ManagerInv, NEW e \in Entry, phase[e] = "activating"
    PROVE  /\ moduleStartLock
           /\ Quiet(deferredStartList, moduleList, [phase EXCEPT ![e] = "active"])
<1> DEFINE ph == [phase EXCEPT ![e] = "active"]
<1>1. In({"stopping"}) = {}
  BY DEF ManagerInv, SessionsDoNotMix, In
<1>2. \A f \in Entry : f # e => phase[f] \in {"absent", "active"}
  <2> SUFFICES ASSUME NEW f \in Entry, f # e, phase[f] \notin {"absent", "active"}
               PROVE  FALSE
    OBVIOUS
  <2>1. phase[f] \in {"activating", "failed"}
    BY <1>1 DEF ManagerInv, Phase, In
  <2> QED
    BY <2>1 DEF ManagerInv, OneModuleAtATime, In
<1>3. /\ ph \in [Entry -> Phase]
      /\ \A f \in Entry : ph[f] \in {"absent", "active"}
      /\ \A f \in Entry : ph[f] = "absent" <=> phase[f] = "absent"
  BY <1>2 DEF ManagerInv, Phase
<1>4. \A f \in moduleList : f.session = sessionPath
  BY <1>1 DEF ManagerInv, ListIsAlive, SessionsDoNotMix, In, Phase
<1>5. \A f \in Elements(deferredStartList) : f.session = sessionPath /\ ph[f] = "absent"
  <2>1. Elements(deferredStartList) \subseteq Entry
    BY ElementsType DEF ManagerInv
  <2> QED
    BY <2>1, <1>3 DEF ManagerInv, SessionsDoNotMix, QueueInFileOrder
<1>6. moduleStartLock
  BY DEF ManagerInv, LockHasHolder, In
<1> QED
  BY <1>3, <1>4, <1>5, <1>6 DEF Quiet, ManagerInv, ListIsAlive, QueueInFileOrder

(* The last module of a session is gone.                                   *)
LEMMA QuietWhenGone ==
    ASSUME ManagerInv, NEW e \in Entry, phase[e] = "stopping", moduleList \ {e} = {}
    PROVE  Quiet(deferredStartList, moduleList \ {e}, [phase EXCEPT ![e] = "absent"])
<1> DEFINE ph == [phase EXCEPT ![e] = "absent"]
<1>1. \A f \in Entry : ph[f] = "absent"
  BY DEF ManagerInv, ListIsAlive
<1>2. ph \in [Entry -> Phase]
  BY DEF ManagerInv, Phase
<1>3. Elements(deferredStartList) \subseteq Entry
  BY ElementsType DEF ManagerInv
<1> QED
  BY <1>1, <1>2, <1>3 DEF Quiet, ManagerInv, SessionsDoNotMix, QueueInFileOrder

(* Event systems belong to modules in the list.                            *)
LEMMA SystemsListed ==
    ASSUME ManagerInv
    PROVE  moduleSystems \subseteq moduleList
BY DEF ManagerInv, NoDanglingEventSystem, ListIsAlive, In

(* A step of another component keeps the invariant of the manager.         *)
LEMMA Silent ==
    ASSUME ManagerInv, ManagerSilent
    PROVE  ManagerInv' /\ sigModulesLoaded' = FALSE
<1>1. /\ deferredStartList' = deferredStartList /\ loading' = loading
      /\ moduleList' = moduleList /\ phase' = phase
      /\ moduleStartLock' = moduleStartLock /\ sessionPath' = sessionPath
      /\ moduleSystems' = moduleSystems /\ sigModulesLoaded' = FALSE
  BY DEF ManagerSilent
<1>2. ListIsAlive' /\ OneModuleAtATime' /\ LockHasHolder' /\ NoDanglingEventSystem'
  BY <1>1 DEF ManagerInv, ListIsAlive, OneModuleAtATime, LockHasHolder,
              NoDanglingEventSystem, In
<1>3. SessionsDoNotMix'
  BY <1>1 DEF ManagerInv, SessionsDoNotMix, In, Elements
<1>4. QueueInFileOrder'
  BY <1>1 DEF ManagerInv, QueueInFileOrder, InFileOrder, Elements
<1> QED
  BY <1>1, <1>2, <1>3, <1>4 DEF ManagerInv

----------------------------------------------------------------------------
(***************************************************************************)
(* The actions.                                                            *)
(***************************************************************************)
LEMMA InitIInv == Init => IInv
<1> SUFFICES ASSUME Init PROVE IInv
  OBVIOUS
<1>1. loading \in Seq(Entry) /\ InFileOrder(loading)
      /\ \A e \in Elements(loading) : e.session = sessionPath
  BY EntriesOfSession, EmptyQueue DEF Init
<1>2. ManagerInv
  <2>1. \A e \in Entry : phase[e] = "absent"
    BY DEF Init
  <2>2. Elements(loading) \subseteq Entry
    BY <1>1, ElementsType
  <2> QED
    BY <1>1, <2>1, <2>2, EmptyQueue
    DEF Init, ManagerInv, Phase, ListIsAlive, OneModuleAtATime, LockHasHolder,
        SessionsDoNotMix, QueueInFileOrder, NoDanglingEventSystem, In
<1>3. OtherTypes
  <2>1. LicenseTypeOK
    <3>1. month \in 0 .. MaxMonth
      BY LicenseAssumption DEF Init, LicenseInit
    <3>2. universalLicenseFound \in BOOLEAN
      BY DEF Init, LicenseInit
    <3> QED
      BY <3>1, <3>2 DEF Init, LicenseInit, LicenseTypeOK
  <2>2. destroying \in 0 .. MaxDestroying
    BY ModuleManagerAssumption DEF Init
  <2>3. /\ sessionPath \in Session \cup {NoSession}
        /\ moduleSystems = {} /\ pausedModules = {} /\ subsystems = {}
        /\ currentSession = NoSession /\ sessionReady = FALSE /\ modulesPaused = FALSE
        /\ control \in Control
    BY DEF Init, ControllerInit, Control
  <2> QED
    BY <2>1, <2>2, <2>3 DEF OtherTypes
<1>4. GateOpenOnlyWhenSettled /\ SerialBeforeSwitch /\ ControlInv
  BY DEF Init, LicenseInit, ControllerInit, GateOpenOnlyWhenSettled, SerialBeforeSwitch,
         ControlInv, In
<1> QED
  BY <1>2, <1>3, <1>4 DEF IInv

(* Steps in which the manager takes no part.                               *)
LEMMA SilentSteps ==
    ASSUME IInv,
           \/ EnterEventLoop \/ SessionChanged \/ AddSubsystems \/ MonthPasses
           \/ \E s \in SessionName : DropSession(s)
           \/ \E serial \in Serial : PublishSerial(serial)
    PROVE  IInv'
<1> USE DEF IInv
<1>1. ManagerSilent
  BY DEF EnterEventLoop, SessionChanged, AddSubsystems, MonthPasses, DropSession,
         PublishSerial
<1>2. ManagerInv'
  BY <1>1, Silent
<1>3. /\ deferredStartList' = deferredStartList /\ loading' = loading
      /\ phase' = phase /\ moduleStartLock' = moduleStartLock
      /\ sessionPath' = sessionPath /\ destroying' = destroying
      /\ moduleSystems' = moduleSystems /\ pausedModules' = pausedModules
  BY <1>1 DEF ManagerSilent
<1>4. In({"stopping"})' = In({"stopping"})
  BY <1>3 DEF In
<1>5. CASE EnterEventLoop
  <2>1. OtherTypes'
    BY <1>3, <1>5
    DEF EnterEventLoop, OtherTypes, LicenseTypeOK, licenseVars, controllerVars, Control
  <2> QED
    BY <2>1, <1>2, <1>3, <1>4, <1>5
    DEF EnterEventLoop, licenseVars, controllerVars, GateOpenOnlyWhenSettled,
        SerialBeforeSwitch, ControlInv
<1>6. CASE SessionChanged
  <2>1. OtherTypes'
    BY <1>3, <1>6
    DEF SessionChanged, afterChangeSession, OtherTypes, LicenseTypeOK, licenseVars, Control
  <2> QED
    BY <2>1, <1>2, <1>3, <1>4, <1>6
    DEF SessionChanged, afterChangeSession, licenseVars, GateOpenOnlyWhenSettled,
        SerialBeforeSwitch, ControlInv
<1>7. CASE AddSubsystems
  <2>1. licensedSystems' \subseteq System
    BY <1>7, RememberType, MainAssumption
    DEF AddSubsystems, AskForSubsystems, OtherTypes, LicenseTypeOK
  <2>2. OtherTypes'
    BY <2>1, <1>3, <1>7
    DEF AddSubsystems, OtherTypes, LicenseTypeOK, licenseRest, controllerVars, Control
  <2> QED
    BY <2>2, <1>2, <1>3, <1>4, <1>7
    DEF AddSubsystems, licenseRest, controllerVars, GateOpenOnlyWhenSettled,
        SerialBeforeSwitch, ControlInv
<1>8. CASE MonthPasses
  <2>1. month' \in 0 .. MaxMonth
    BY <1>8, LicenseAssumption DEF MonthPasses, NextMonth, OtherTypes, LicenseTypeOK
  <2>2. OtherTypes'
    BY <2>1, <1>3, <1>8
    DEF MonthPasses, NextMonth, OtherTypes, LicenseTypeOK, controllerVars
  <2> QED
    BY <2>2, <1>2, <1>3, <1>4, <1>8
    DEF MonthPasses, NextMonth, controllerVars, GateOpenOnlyWhenSettled,
        SerialBeforeSwitch, ControlInv
<1>9. ASSUME NEW s \in SessionName, DropSession(s) PROVE IInv'
  <2>1. OtherTypes'
    BY <1>3, <1>9
    DEF DropSession, requestSession, OtherTypes, LicenseTypeOK, licenseVars
  <2> QED
    BY <2>1, <1>2, <1>3, <1>4, <1>9
    DEF DropSession, requestSession, licenseVars, GateOpenOnlyWhenSettled,
        SerialBeforeSwitch, ControlInv
<1>10. ASSUME NEW serial \in Serial, PublishSerial(serial) PROVE IInv'
  <2>1. OtherTypes'
    BY <1>3, <1>10
    DEF PublishSerial, SetDeviceSerial, OtherTypes, LicenseTypeOK, controllerVars, Control
  <2> QED
    BY <2>1, <1>2, <1>3, <1>4, <1>10
    DEF PublishSerial, SetDeviceSerial, controllerVars, GateOpenOnlyWhenSettled,
        SerialBeforeSwitch, ControlInv
<1> QED
  BY <1>5, <1>6, <1>7, <1>8, <1>9, <1>10

(* A request that passes the gate.                                         *)
LEMMA SetSessionStep ==
    ASSUME IInv, NEW s \in SessionName, SetSession(s)
    PROVE  IInv'
<1> USE DEF IInv
<1>1. /\ control = "eventLoop" /\ sessionReady /\ ~moduleStartLock
      /\ deferredStartList = <<>> /\ loading = <<>> /\ serialNumberInitialized
  BY DEF SetSession, GateOpenOnlyWhenSettled, ControlInv, SerialBeforeSwitch
<1>2. /\ deferredStartList' = <<>> /\ moduleList' = moduleList
      /\ destroying' = destroying /\ pausedModules' = pausedModules
      /\ sigModulesLoaded' = FALSE /\ control' = "changeSession"
      /\ serialNumberInitialized' /\ UNCHANGED <<licenseVars, subsystems>>
  BY <1>1 DEF SetSession, changeSessionFile, licenseRest, licenseVars
<1>3. OtherTypes' /\ GateOpenOnlyWhenSettled' /\ SerialBeforeSwitch' /\ ControlInv'
  <2>1. moduleSystems' \subseteq Entry /\ sessionPath' \in Session \cup {NoSession}
    BY DEF SetSession, changeSessionFile, clearSystems, SwitchesTo, OtherTypes
  <2>2. /\ currentSession' = s /\ sessionReady' = sessionReady
        /\ modulesPaused' = modulesPaused
    BY DEF SetSession, requestSession
  <2> QED
    BY <1>2, <2>1, <2>2
    DEF OtherTypes, LicenseTypeOK, licenseVars, Control, GateOpenOnlyWhenSettled,
        SerialBeforeSwitch, ControlInv
<1>4. CASE ~SwitchesTo(s)
  <2>1. ManagerSilent
    BY <1>4 DEF SetSession, changeSessionFile, ManagerSilent
  <2> QED
    BY <2>1, <1>3, Silent
<1>5. CASE SwitchesTo(s)
  <2>1. /\ s \in Session /\ s # sessionPath /\ sessionPath' = s
        /\ moduleSystems' = {} /\ loading' = Entries(s)
        /\ moduleStartLock' = (moduleList # {})
        /\ phase' = [e \in Entry |-> IF e \in moduleList THEN "stopping" ELSE phase[e]]
    BY <1>5 DEF SetSession, changeSessionFile, SwitchesTo, clearSystems, LockToStop
  <2>2. Quiet(deferredStartList, moduleList, phase)
    BY <1>1, QuietWhenFree
  <2>3. \A e \in Entry : /\ e \in moduleList => phase'[e] = "stopping"
                         /\ e \notin moduleList => phase'[e] = "absent"
    BY <2>1, <2>2 DEF Quiet
  <2>4. phase' \in [Entry -> Phase]
    BY <2>1, <2>3 DEF Phase
  <2>5. ListIsAlive' /\ OneModuleAtATime' /\ NoDanglingEventSystem'
    BY <1>2, <2>1, <2>3 DEF ListIsAlive, OneModuleAtATime, NoDanglingEventSystem, In
  <2>6. LockHasHolder'
    BY <1>2, <2>1, <2>3 DEF LockHasHolder, In, ManagerInv
  <2>7. /\ loading' \in Seq(Entry) /\ InFileOrder(loading')
        /\ Elements(loading') \subseteq Entry
        /\ \A e \in Elements(loading') : e.session = s
    BY <2>1, EntriesOfSession, ElementsType
  <2>8. \A e \in Elements(loading') : phase'[e] = "absent"
    <3>1. \A e \in moduleList : e.session # s
      BY <2>1, <2>2 DEF Quiet
    <3> QED
      BY <2>3, <2>7, <3>1
  <2>9. SessionsDoNotMix'
    BY <1>2, <2>1, <2>3, <2>7, EmptyQueue DEF SessionsDoNotMix, In
  <2>10. QueueInFileOrder'
    BY <1>2, <2>7, <2>8, EmptyQueue DEF QueueInFileOrder
  <2>11. ManagerInv'
    BY <1>2, <2>1, <2>4, <2>5, <2>6, <2>7, <2>9, <2>10, EmptyQueue DEF ManagerInv
  <2> QED
    BY <2>11, <1>3
<1> QED
  BY <1>4, <1>5

(* The controller's reaction keeps its types.                              *)
LEMMA ReactionTypes ==
    ASSUME OtherTypes, ControllerReacts
    PROVE  /\ currentSession' \in SessionName \cup {NoSession}
           /\ sessionReady' \in BOOLEAN
           /\ modulesPaused' \in BOOLEAN
BY MainAssumption DEF OtherTypes, ControllerReacts, initializeEntity, controllerVars

(* A handler of the event loop that ends in onModuleStartNext.             *)
LEMMA StartStep ==
    ASSUME IInv, NEW list, NEW ph,
           Quiet(deferredStartList, list, ph),
           serialNumberInitialized,
           onModuleStartNext(deferredStartList, list, ph),
           moduleSystems \subseteq list,
           UNCHANGED <<sessionPath, moduleSystems, loading, licenseRest, subsystems>>,
           loading = <<>>,
           destroying' \in 0 .. MaxDestroying,
           pausedModules' \subseteq Entry,
           ControllerReacts,
           control \in {"eventLoop", "serialStart"},
           control' = "eventLoop"
    PROVE  IInv'
<1>1. /\ Result(Elements(deferredStartList), deferredStartList, list, ph)
      /\ deferredStartList = <<>> => sigModulesLoaded'
  BY NextStarted DEF IInv, OtherTypes, LicenseTypeOK
<1>2. loading' = <<>> /\ loading' \in Seq(Entry) /\ InFileOrder(loading')
      /\ Elements(loading') = {}
  BY EmptyQueue
<1>3. /\ ManagerInv'
      /\ In({"stopping"})' = {}
      /\ sigModulesLoaded' => ~moduleStartLock' /\ deferredStartList' = <<>>
  BY <1>1, <1>2, StartKeeps
<1>4. OtherTypes'
  <2>1. licensedSystems' \subseteq System
    BY <1>1 DEF Result
  <2> QED
    BY <2>1, ReactionTypes DEF IInv, OtherTypes, LicenseTypeOK, licenseRest, Control
<1>5. GateOpenOnlyWhenSettled'
  <2>1. CASE sigModulesLoaded'
    BY <2>1, <1>3 DEF ControllerReacts, initializeEntity, GateOpenOnlyWhenSettled
  <2>2. CASE ~sigModulesLoaded'
    <3>1. UNCHANGED controllerVars
      BY <2>2 DEF ControllerReacts
    <3>2. ~sessionReady
      BY <1>1, <2>2 DEF IInv, GateOpenOnlyWhenSettled
    <3> QED
      BY <3>1, <3>2 DEF controllerVars, GateOpenOnlyWhenSettled
  <2> QED
    BY <2>1, <2>2
<1>6. SerialBeforeSwitch' /\ ControlInv'
  BY <1>2 DEF licenseRest, SerialBeforeSwitch, ControlInv
<1> QED
  BY <1>3, <1>4, <1>5, <1>6 DEF IInv

(* moduleActivated: the lock is released and the next module is started.   *)
LEMMA ActivatedStep ==
    ASSUME IInv, NEW e \in Entry, Activated(e)
    PROVE  IInv'
<1> DEFINE ph == [phase EXCEPT ![e] = "active"]
<1>1. /\ control = "eventLoop" /\ loading = <<>> /\ phase[e] = "activating"
      /\ delayedModuleStartNext(FALSE, ph)
      /\ UNCHANGED <<sessionPath, destroying, moduleSystems, pausedModules, loading,
                     licenseRest>>
      /\ ControllerReacts /\ UNCHANGED <<control, subsystems>>
  BY DEF Activated, moduleActivated
<1>2. Quiet(deferredStartList, moduleList, ph) /\ moduleStartLock
  BY <1>1, QuietWhenActivated DEF IInv
<1>3. moduleSystems \subseteq moduleList
  BY SystemsListed DEF IInv
<1>4. CASE serialNumberInitialized
  <2>1. onModuleStartNext(deferredStartList, moduleList, ph)
    BY <1>1, <1>4 DEF delayedModuleStartNext
  <2>2. destroying' \in 0 .. MaxDestroying /\ pausedModules' \subseteq Entry
    BY <1>1 DEF IInv, OtherTypes
  <2> HIDE DEF ph
  <2> QED
    BY <1>1, <1>2, <1>3, <1>4, <2>1, <2>2, StartStep
<1>5. CASE ~serialNumberInitialized
  <2>1. /\ deferredStartList' = deferredStartList /\ moduleList' = moduleList
        /\ phase' = ph /\ moduleStartLock' = FALSE /\ sigModulesLoaded' = FALSE
        /\ licensedSystems' = licensedSystems
    BY <1>1, <1>5 DEF delayedModuleStartNext, NoStart
  <2> HIDE DEF ph
  <2>2. Result({}, deferredStartList, moduleList, ph)
    BY <1>2, <2>1 DEF Result, Nothing, Quiet, IInv, OtherTypes, LicenseTypeOK
  <2>3. loading' = <<>> /\ loading' \in Seq(Entry) /\ InFileOrder(loading')
        /\ Elements(loading') = {}
    BY <1>1, EmptyQueue
  <2>4. ManagerInv' /\ In({"stopping"})' = {}
    BY <1>1, <1>2, <1>3, <2>2, <2>3, StartKeeps
  <2>5. UNCHANGED controllerVars
    BY <1>1, <2>1 DEF ControllerReacts
  <2>6. OtherTypes'
    BY <1>1, <2>1, <2>5
    DEF IInv, OtherTypes, LicenseTypeOK, licenseRest, controllerVars
  <2>7. ~sessionReady
    BY <1>5 DEF IInv, SerialBeforeSwitch
  <2>8. GateOpenOnlyWhenSettled' /\ SerialBeforeSwitch' /\ ControlInv'
    BY <1>1, <2>3, <2>4, <2>5, <2>7
    DEF IInv, controllerVars, licenseRest, GateOpenOnlyWhenSettled, SerialBeforeSwitch,
        ControlInv
  <2> QED
    BY <2>4, <2>6, <2>8 DEF IInv
<1> QED
  BY <1>4, <1>5

(* The manager's slot of sigSerialNumberInitialized.                       *)
LEMMA SerialStartStep ==
    ASSUME IInv, SerialStart
    PROVE  IInv'
<1>1. /\ control = "serialStart" /\ control' = "eventLoop" /\ loading = <<>>
      /\ delayedModuleStartNext(moduleStartLock, phase)
      /\ UNCHANGED <<sessionPath, destroying, moduleSystems, pausedModules, loading,
                     licenseRest>>
      /\ ControllerReacts /\ UNCHANGED subsystems
  BY DEF SerialStart, serialNumberSignalled
<1>2. serialNumberInitialized
  BY <1>1 DEF IInv, ControlInv
<1>3. destroying' \in 0 .. MaxDestroying /\ pausedModules' \subseteq Entry
  BY <1>1 DEF IInv, OtherTypes
<1>4. CASE ~moduleStartLock
  <2>1. Quiet(deferredStartList, moduleList, phase)
    BY <1>4, QuietWhenFree DEF IInv
  <2>2. onModuleStartNext(deferredStartList, moduleList, phase)
    BY <1>1, <1>2, <1>4 DEF delayedModuleStartNext
  <2>3. moduleSystems \subseteq moduleList
    BY SystemsListed DEF IInv
  <2> QED
    BY <1>1, <1>2, <1>3, <2>1, <2>2, <2>3, StartStep
<1>5. CASE moduleStartLock
  <2>1. ManagerSilent /\ UNCHANGED licensedSystems
    BY <1>1, <1>5 DEF delayedModuleStartNext, NoStart, ManagerSilent
  <2>2. ManagerInv' /\ sigModulesLoaded' = FALSE
    BY <2>1, Silent DEF IInv
  <2>3. UNCHANGED controllerVars
    BY <1>1, <2>2 DEF ControllerReacts
  <2>4. OtherTypes'
    BY <1>1, <2>1, <2>3
    DEF IInv, OtherTypes, LicenseTypeOK, licenseRest, controllerVars, Control
  <2>5. ~sessionReady
    BY <1>1, <1>5 DEF IInv, GateOpenOnlyWhenSettled
  <2>6. GateOpenOnlyWhenSettled' /\ SerialBeforeSwitch' /\ ControlInv'
    BY <1>1, <1>2, <2>3, <2>5
    DEF controllerVars, licenseRest, GateOpenOnlyWhenSettled, SerialBeforeSwitch, ControlInv
  <2> QED
    BY <2>2, <2>4, <2>6 DEF IInv
<1> QED
  BY <1>4, <1>5

(* checkModuleList finds modules left.                                     *)
LEMMA DeactivatedStep ==
    ASSUME IInv, NEW e \in Entry, Deactivated(e)
    PROVE  IInv'
<1> DEFINE list == moduleList \ {e}
           ph == [phase EXCEPT ![e] = "absent"]
<1>1. /\ control = "eventLoop" /\ loading = <<>> /\ phase[e] = "stopping"
      /\ destroying < MaxDestroying /\ destroying' = destroying + 1
      /\ pausedModules' = pausedModules \ {e}
      /\ checkModuleList(list, ph)
      /\ UNCHANGED <<sessionPath, moduleSystems, loading, licenseRest>>
      /\ ControllerReacts /\ UNCHANGED <<control, subsystems>>
  BY DEF Deactivated, onModuleDelete
<1>2. serialNumberInitialized
  BY <1>1 DEF IInv, SerialBeforeSwitch, In
<1>3. destroying' \in 0 .. MaxDestroying /\ pausedModules' \subseteq Entry
  BY <1>1, ModuleManagerAssumption DEF IInv, OtherTypes
<1>4. \A f \in Entry : phase[f] \in {"absent", "stopping"}
  BY <1>1 DEF IInv, ManagerInv, SessionsDoNotMix, In, Phase
<1>5. moduleSystems = {}
  BY <1>4 DEF IInv, ManagerInv, NoDanglingEventSystem, In
<1>6. CASE list = {}
  <2>1. Quiet(deferredStartList, list, ph)
    BY <1>1, <1>6, QuietWhenGone DEF IInv
  <2>2. onModuleStartNext(deferredStartList, list, ph)
    BY <1>1, <1>6 DEF checkModuleList
  <2> HIDE DEF list, ph
  <2> QED
    BY <1>1, <1>2, <1>3, <1>5, <2>1, <2>2, StartStep
<1>7. CASE list # {}
  <2>1. /\ deferredStartList' = deferredStartList /\ moduleList' = list
        /\ phase' = ph /\ moduleStartLock' = moduleStartLock /\ sigModulesLoaded' = FALSE
        /\ licensedSystems' = licensedSystems
    BY <1>1, <1>7 DEF checkModuleList, NoStart
  <2>2. phase' \in [Entry -> Phase] /\ phase'[e] = "absent"
        /\ \A f \in Entry : f # e => phase'[f] = phase[f]
    BY <2>1 DEF IInv, ManagerInv, Phase
  <2>3. moduleStartLock
    BY <1>1 DEF IInv, ManagerInv, LockHasHolder, In
  <2>4. PICK f \in Entry : f # e /\ f \in moduleList
    BY <1>7 DEF IInv, ManagerInv
  <2>5. phase'[f] = "stopping"
    BY <1>4, <2>2, <2>4 DEF IInv, ManagerInv, ListIsAlive
  <2>6. ListIsAlive' /\ OneModuleAtATime' /\ LockHasHolder' /\ NoDanglingEventSystem'
    <3>1. ListIsAlive'
      BY <2>1, <2>2 DEF IInv, ManagerInv, ListIsAlive
    <3>2. OneModuleAtATime'
      BY <1>4, <2>2 DEF OneModuleAtATime, In
    <3>3. LockHasHolder'
      BY <2>1, <2>3, <2>5 DEF LockHasHolder, In
    <3>4. NoDanglingEventSystem'
      BY <1>1, <1>5 DEF NoDanglingEventSystem
    <3> QED
      BY <3>1, <3>2, <3>3, <3>4
  <2>7. SessionsDoNotMix'
    <3>1. In({"activating", "active", "failed"})' = {}
      BY <1>4, <2>2 DEF In
    <3> QED
      BY <3>1, <1>1, <2>1 DEF IInv, ManagerInv, SessionsDoNotMix, Elements
  <2>8. QueueInFileOrder'
    <3>1. Elements(deferredStartList) \subseteq Entry /\ Elements(loading) \subseteq Entry
      BY ElementsType DEF IInv, ManagerInv
    <3>2. \A g \in Elements(deferredStartList) \cup Elements(loading) : phase'[g] = "absent"
      BY <3>1, <2>2 DEF IInv, ManagerInv, QueueInFileOrder
    <3>3. deferredStartList' = deferredStartList /\ loading' = loading
      BY <1>1, <2>1
    <3> QED
      BY <3>2, <3>3 DEF IInv, ManagerInv, QueueInFileOrder, InFileOrder, Elements
  <2>9. ManagerInv'
    BY <1>1, <2>1, <2>2, <2>6, <2>7, <2>8 DEF IInv, ManagerInv
  <2>10. UNCHANGED controllerVars
    BY <1>1, <2>1 DEF ControllerReacts
  <2>11. OtherTypes'
    BY <1>1, <1>3, <2>1, <2>10
    DEF IInv, OtherTypes, LicenseTypeOK, licenseRest, controllerVars
  <2>12. ~sessionReady
    BY <1>1, <2>3 DEF IInv, GateOpenOnlyWhenSettled
  <2>13. GateOpenOnlyWhenSettled' /\ SerialBeforeSwitch' /\ ControlInv'
    BY <1>1, <1>2, <2>10, <2>12
    DEF IInv, controllerVars, licenseRest, GateOpenOnlyWhenSettled, SerialBeforeSwitch,
        ControlInv
  <2> QED
    BY <2>9, <2>11, <2>13 DEF IInv
<1> QED
  BY <1>6, <1>7

(* A step that leaves the modules, the queue and the lock as they are.      *)
LEMMA ManagerKept ==
    ASSUME IInv,
           UNCHANGED <<sessionPath, moduleStartLock, deferredStartList, moduleList,
                       phase, loading>>,
           sigModulesLoaded' \in BOOLEAN,
           moduleSystems' \subseteq In({"activating", "active", "failed"})
    PROVE  ManagerInv'
<1>1. ListIsAlive' /\ OneModuleAtATime' /\ LockHasHolder'
  BY DEF IInv, ManagerInv, ListIsAlive, OneModuleAtATime, LockHasHolder, In
<1>2. SessionsDoNotMix' /\ NoDanglingEventSystem'
  BY DEF IInv, ManagerInv, SessionsDoNotMix, NoDanglingEventSystem, In, Elements
<1>3. QueueInFileOrder'
  BY DEF IInv, ManagerInv, QueueInFileOrder, InFileOrder, Elements
<1> QED
  BY <1>1, <1>2, <1>3 DEF IInv, ManagerInv

(* destroyed of a deleted module runs checkModuleList.                     *)
LEMMA DestroyedStep ==
    ASSUME IInv, Destroyed
    PROVE  IInv'
<1>1. /\ control = "eventLoop" /\ loading = <<>>
      /\ destroying > 0 /\ destroying' = destroying - 1
      /\ checkModuleList(moduleList, phase)
      /\ UNCHANGED <<sessionPath, moduleSystems, pausedModules, loading, licenseRest>>
      /\ ControllerReacts /\ UNCHANGED <<control, subsystems>>
  BY DEF Destroyed, moduleDestroyed
<1>2. serialNumberInitialized
  BY <1>1 DEF IInv, SerialBeforeSwitch
<1>3. destroying' \in 0 .. MaxDestroying /\ pausedModules' \subseteq Entry
  BY <1>1, ModuleManagerAssumption DEF IInv, OtherTypes
<1>4. CASE moduleList = {}
  <2>1. Quiet(deferredStartList, moduleList, phase)
    BY <1>4, QuietWhenEmpty, QuietWhenFree DEF IInv
  <2>2. onModuleStartNext(deferredStartList, moduleList, phase)
    BY <1>1, <1>4 DEF checkModuleList
  <2>3. moduleSystems \subseteq moduleList
    BY SystemsListed DEF IInv
  <2> QED
    BY <1>1, <1>2, <1>3, <2>1, <2>2, <2>3, StartStep
<1>5. CASE moduleList # {}
  <2>1. /\ UNCHANGED <<deferredStartList, moduleList, phase, moduleStartLock, licensedSystems>>
        /\ sigModulesLoaded' = FALSE
    BY <1>1, <1>5 DEF checkModuleList, NoStart
  <2>2. ManagerInv'
    BY <1>1, <2>1, ManagerKept DEF IInv, ManagerInv, NoDanglingEventSystem
  <2>3. UNCHANGED controllerVars
    BY <1>1, <2>1 DEF ControllerReacts
  <2>4. OtherTypes'
    BY <1>1, <1>3, <2>1, <2>3
    DEF IInv, OtherTypes, LicenseTypeOK, licenseRest, controllerVars
  <2>5. GateOpenOnlyWhenSettled' /\ SerialBeforeSwitch' /\ ControlInv'
    BY <1>1, <1>2, <2>1, <2>3
    DEF IInv, controllerVars, licenseRest, GateOpenOnlyWhenSettled, SerialBeforeSwitch,
        ControlInv
  <2> QED
    BY <2>2, <2>4, <2>5 DEF IInv
<1> QED
  BY <1>4, <1>5

(* An activating module hands over its event system.                       *)
LEMMA AddEventSystemStep ==
    ASSUME IInv, NEW e \in Entry, AddEventSystem(e)
    PROVE  IInv'
<1>1. /\ phase[e] = "activating"
      /\ moduleSystems' = moduleSystems \cup {e} /\ sigModulesLoaded' = FALSE
      /\ UNCHANGED <<sessionPath, moduleStartLock, deferredStartList, moduleList, phase,
                     destroying, pausedModules, loading>>
      /\ UNCHANGED licenseVars /\ UNCHANGED controllerVars
      /\ UNCHANGED <<control, subsystems>>
  BY DEF AddEventSystem, onModuleEventSystemAdded
<1>2. ManagerInv'
  <2>1. moduleSystems' \subseteq In({"activating", "active", "failed"})
    BY <1>1 DEF IInv, ManagerInv, NoDanglingEventSystem, In
  <2> QED
    BY <1>1, <2>1, ManagerKept
<1>3. OtherTypes'
  BY <1>1 DEF IInv, OtherTypes, LicenseTypeOK, licenseVars, controllerVars
<1>4. GateOpenOnlyWhenSettled' /\ SerialBeforeSwitch' /\ ControlInv'
  BY <1>1 DEF IInv, licenseVars, controllerVars, GateOpenOnlyWhenSettled,
              SerialBeforeSwitch, ControlInv, In
<1> QED
  BY <1>2, <1>3, <1>4 DEF IInv

(* A client pauses the modules or lets them go on.                         *)
LEMMA SetPausedStep ==
    ASSUME IInv, NEW paused \in BOOLEAN, SetPaused(paused)
    PROVE  IInv'
<1>1. /\ sigModulesLoaded' = FALSE
      /\ pausedModules' \subseteq Entry
      /\ modulesPaused' = paused /\ UNCHANGED <<currentSession, sessionReady>>
      /\ UNCHANGED <<sessionPath, moduleStartLock, deferredStartList, moduleList, phase,
                     destroying, moduleSystems, loading>>
      /\ UNCHANGED licenseVars
      /\ UNCHANGED <<control, subsystems>>
  BY DEF SetPaused, setModulesPaused, Paused, storePaused, IInv, ManagerInv, OtherTypes
<1>2. ManagerInv'
  BY <1>1, ManagerKept DEF IInv, ManagerInv, NoDanglingEventSystem
<1>3. OtherTypes'
  BY <1>1 DEF IInv, ManagerInv, OtherTypes, LicenseTypeOK, licenseVars
<1>4. GateOpenOnlyWhenSettled' /\ SerialBeforeSwitch' /\ ControlInv'
  BY <1>1 DEF IInv, licenseVars, GateOpenOnlyWhenSettled, SerialBeforeSwitch,
              ControlInv, In
<1> QED
  BY <1>2, <1>3, <1>4 DEF IInv

(* A module fails: the lock stays taken.                                   *)
LEMMA FailsStep ==
    ASSUME IInv, NEW e \in Entry, Fails(e)
    PROVE  IInv'
<1>1. /\ phase[e] = "activating" /\ phase' = [phase EXCEPT ![e] = "failed"]
      /\ sigModulesLoaded' = FALSE
      /\ UNCHANGED <<deferredStartList, moduleList, moduleStartLock, licensedSystems>>
      /\ UNCHANGED <<sessionPath, destroying, moduleSystems, pausedModules, loading,
                     licenseRest>>
      /\ UNCHANGED controllerVars /\ UNCHANGED <<control, subsystems>>
  BY DEF Fails, moduleFails, NoStart
<1>2. /\ phase' \in [Entry -> Phase] /\ phase'[e] = "failed"
      /\ \A f \in Entry : f # e => phase'[f] = phase[f]
  BY <1>1 DEF IInv, ManagerInv, Phase
<1>3. /\ \A f \in Entry : phase'[f] = "absent" <=> phase[f] = "absent"
      /\ \A f \in Entry : phase'[f] = "stopping" <=> phase[f] = "stopping"
      /\ \A f \in Entry : phase'[f] \in {"activating", "failed"}
                              <=> phase[f] \in {"activating", "failed"}
      /\ \A f \in Entry : phase'[f] \in {"activating", "active", "failed"}
                              <=> phase[f] \in {"activating", "active", "failed"}
  BY <1>1, <1>2
<1>4. ListIsAlive' /\ OneModuleAtATime' /\ NoDanglingEventSystem'
  BY <1>1, <1>3 DEF IInv, ManagerInv, ListIsAlive, OneModuleAtATime,
                    NoDanglingEventSystem, In
<1>5. LockHasHolder'
  <2>1. moduleStartLock
    BY <1>1 DEF IInv, ManagerInv, LockHasHolder, In
  <2> QED
    BY <1>1, <1>2, <2>1 DEF LockHasHolder, In
<1>6. SessionsDoNotMix'
  BY <1>1, <1>3 DEF IInv, ManagerInv, SessionsDoNotMix, In, Elements
<1>7. QueueInFileOrder'
  <2>1. Elements(deferredStartList) \subseteq Entry /\ Elements(loading) \subseteq Entry
    BY ElementsType DEF IInv, ManagerInv
  <2>2. \A g \in Elements(deferredStartList) \cup Elements(loading) : phase'[g] = "absent"
    BY <2>1, <1>3 DEF IInv, ManagerInv, QueueInFileOrder
  <2> QED
    BY <1>1, <2>2 DEF IInv, ManagerInv, QueueInFileOrder, InFileOrder, Elements
<1>8. ManagerInv'
  BY <1>1, <1>2, <1>4, <1>5, <1>6, <1>7 DEF IInv, ManagerInv
<1>9. OtherTypes'
  BY <1>1 DEF IInv, OtherTypes, LicenseTypeOK, licenseRest, controllerVars
<1>10. GateOpenOnlyWhenSettled' /\ SerialBeforeSwitch' /\ ControlInv'
  BY <1>1, <1>3 DEF IInv, licenseRest, controllerVars, GateOpenOnlyWhenSettled,
                    SerialBeforeSwitch, ControlInv, In
<1> QED
  BY <1>8, <1>9, <1>10 DEF IInv

(* One round of loadSession.                                               *)
LEMMA LoadSessionStep ==
    ASSUME IInv, LoadSession
    PROVE  IInv'
<1> DEFINE e == Head(loading)
<1>1. /\ loading # <<>> /\ loading' = Tail(loading)
      /\ UNCHANGED <<sessionPath, destroying, moduleSystems, pausedModules, licenseRest>>
      /\ ControllerReacts /\ UNCHANGED <<control, subsystems>>
      /\ \/ startModule(e)
         \/ NoStart(deferredStartList, moduleList, phase, moduleStartLock)
  BY DEF LoadSession, LoadNext
<1>2. loading \in Seq(Entry) /\ InFileOrder(loading)
  BY DEF IInv, ManagerInv, QueueInFileOrder
<1>3. /\ e \in Entry /\ e \in Elements(loading)
      /\ loading' \in Seq(Entry) /\ InFileOrder(loading')
      /\ Elements(loading') \subseteq Elements(loading)
      /\ \A f \in Elements(loading') : e.pos < f.pos
  BY <1>1, <1>2, HeadTail
<1>4. \A f \in Elements(loading) : f \in Entry /\ f.session = sessionPath
                                   /\ phase[f] = "absent"
  BY <1>2, ElementsType DEF IInv, ManagerInv, SessionsDoNotMix, QueueInFileOrder
<1>5. \A f \in Elements(deferredStartList), g \in Elements(loading) : f.pos < g.pos
  BY DEF IInv, ManagerInv, QueueInFileOrder
<1>6. deferredStartList \in Seq(Entry) /\ InFileOrder(deferredStartList)
      /\ Elements(deferredStartList) \subseteq Entry
  BY ElementsType DEF IInv, ManagerInv, QueueInFileOrder
<1>7. \A f \in Entry : f.pos \in Nat
  BY EntryType
<1>8. moduleSystems \subseteq moduleList
  BY SystemsListed DEF IInv
<1>9. control \in {"startup", "changeSession"}
  BY <1>1 DEF IInv, ControlInv
<1> HIDE DEF e
(* The controller, the types and the gate, whatever was started.           *)
<1>10. ASSUME licensedSystems' \subseteq System, ManagerInv',
              In({"stopping"})' # {} => In({"stopping"}) # {}
       PROVE  IInv'
  <2>1. OtherTypes'
    BY <1>1, <1>10, ReactionTypes DEF IInv, OtherTypes, LicenseTypeOK, licenseRest
  <2>2. control = "startup" => UNCHANGED controllerVars
    BY DEF ControllerReacts, LoadSession
  <2>3. control = "startup" => ~sessionReady'
    BY <2>2 DEF IInv, ControlInv, controllerVars
  <2>4. GateOpenOnlyWhenSettled' /\ ControlInv'
    BY <1>1, <1>9, <2>3 DEF IInv, GateOpenOnlyWhenSettled, ControlInv, licenseRest
  <2>5. SerialBeforeSwitch'
    <3>1. ~serialNumberInitialized => control = "startup"
      BY <1>9 DEF IInv, ControlInv
    <3> QED
      BY <1>1, <1>10, <2>3, <3>1 DEF IInv, SerialBeforeSwitch, licenseRest
  <2> QED
    BY <1>10, <2>1, <2>4, <2>5 DEF IInv
(* startModule starts this entry.                                          *)
<1>11. CASE /\ ~moduleStartLock
            /\ StartStartable(e, deferredStartList, moduleList, phase)
  <2>1. Quiet(deferredStartList, moduleList, phase)
    BY <1>11, QuietWhenFree DEF IInv
  <2>2. e \notin Elements(deferredStartList)
    BY <1>3, <1>5, <1>6, <1>7
  <2>3. Result({e}, deferredStartList, moduleList, phase)
    BY <1>3, <1>4, <1>11, <2>1, <2>2, Started DEF IInv, OtherTypes, LicenseTypeOK
  <2>4. \A f \in Elements(loading') :
           f.session = sessionPath /\ phase[f] = "absent" /\ f \notin {e}
    BY <1>3, <1>4, <1>7
  <2>5. \A f \in Elements(deferredStartList), g \in Elements(loading') : f.pos < g.pos
    BY <1>3, <1>5
  <2>6. ManagerInv' /\ In({"stopping"})' = {}
    BY <1>1, <1>3, <1>8, <2>1, <2>3, <2>4, <2>5, StartKeeps
  <2> QED
    BY <1>10, <2>3, <2>6 DEF Result
(* It is not licensed, and the queue is looked at.                         *)
<1>12. CASE /\ ~moduleStartLock /\ serialNumberInitialized
            /\ onModuleStartNext(deferredStartList, moduleList, phase)
  <2>1. Quiet(deferredStartList, moduleList, phase)
    BY <1>12, QuietWhenFree DEF IInv
  <2>2. Result(Elements(deferredStartList), deferredStartList, moduleList, phase)
    BY <1>12, <2>1, NextStarted DEF IInv, OtherTypes, LicenseTypeOK
  <2>3. \A f \in Elements(loading') :
           f.session = sessionPath /\ phase[f] = "absent"
           /\ f \notin Elements(deferredStartList)
    BY <1>3, <1>4, <1>5, <1>6, <1>7
  <2>4. \A f \in Elements(deferredStartList), g \in Elements(loading') : f.pos < g.pos
    BY <1>3, <1>5
  <2>5. ManagerInv' /\ In({"stopping"})' = {}
    BY <1>1, <1>3, <1>8, <2>1, <2>2, <2>3, <2>4, StartKeeps
  <2> QED
    BY <1>10, <2>2, <2>5 DEF Result
(* It waits, or is passed over.                                            *)
<1>13. ASSUME /\ sigModulesLoaded' = FALSE
              /\ UNCHANGED <<moduleStartLock, moduleList, phase, licensedSystems>>,
              \/ deferredStartList' = Append(deferredStartList, e)
              \/ deferredStartList' = deferredStartList
       PROVE  IInv'
  <2>1. \A f \in Elements(deferredStartList) : f.pos < e.pos
    BY <1>3, <1>5
  <2>2. /\ deferredStartList' \in Seq(Entry) /\ InFileOrder(deferredStartList')
        /\ Elements(deferredStartList') \subseteq Elements(deferredStartList) \cup {e}
    BY <1>3, <1>6, <1>13, <2>1, Appended
  <2>3. \A f \in Elements(deferredStartList'), g \in Elements(loading') : f.pos < g.pos
    BY <1>3, <1>5, <2>2
  <2>4. \A f \in Elements(deferredStartList') \cup Elements(loading') :
            f.session = sessionPath /\ phase[f] = "absent"
    BY <1>3, <1>4, <2>2 DEF IInv, ManagerInv, SessionsDoNotMix, QueueInFileOrder
  <2>5. ListIsAlive' /\ OneModuleAtATime' /\ LockHasHolder' /\ NoDanglingEventSystem'
    BY <1>1, <1>13 DEF IInv, ManagerInv, ListIsAlive, OneModuleAtATime, LockHasHolder,
                       NoDanglingEventSystem, In
  <2>6. SessionsDoNotMix'
    BY <1>1, <1>13, <2>4 DEF IInv, ManagerInv, SessionsDoNotMix, In
  <2>7. QueueInFileOrder'
    BY <1>3, <1>13, <2>2, <2>3, <2>4 DEF QueueInFileOrder
  <2>8. ManagerInv'
    BY <1>3, <1>13, <2>2, <2>5, <2>6, <2>7 DEF IInv, ManagerInv
  <2> QED
    BY <1>10, <1>13, <2>8 DEF In, IInv, OtherTypes, LicenseTypeOK
<1>14. CASE NoStart(deferredStartList, moduleList, phase, moduleStartLock)
  BY <1>13, <1>14 DEF NoStart
<1>15. CASE startModule(e)
  BY <1>11, <1>12, <1>13, <1>15 DEF startModule, Enqueued
<1> QED
  BY <1>1, <1>14, <1>15

(* A step that changes nothing keeps the invariant.                        *)
LEMMA StutterStep ==
    ASSUME IInv, UNCHANGED vars
    PROVE  IInv'
<1>1. UNCHANGED <<licenseVars, managerVars, controllerVars, control, subsystems>>
  BY DEF vars
<1>2. ManagerInv'
  BY <1>1
  DEF IInv, managerVars, ManagerInv, ListIsAlive, OneModuleAtATime, LockHasHolder,
      SessionsDoNotMix, QueueInFileOrder, InFileOrder, NoDanglingEventSystem, In, Elements
<1>3. OtherTypes'
  BY <1>1 DEF IInv, OtherTypes, LicenseTypeOK, licenseVars, managerVars, controllerVars
<1>4. GateOpenOnlyWhenSettled' /\ SerialBeforeSwitch' /\ ControlInv'
  BY <1>1 DEF IInv, licenseVars, managerVars, controllerVars, GateOpenOnlyWhenSettled,
              SerialBeforeSwitch, ControlInv, In
<1> QED
  BY <1>2, <1>3, <1>4 DEF IInv

(* The invariant is inductive: one lemma for each action.                  *)
LEMMA NextIInv == IInv /\ [Next]_vars => IInv'
<1> SUFFICES ASSUME IInv, [Next]_vars PROVE IInv'
  OBVIOUS
<1>1. CASE UNCHANGED vars
  BY <1>1, StutterStep
<1>2. CASE Client
  BY <1>2, SetSessionStep, SilentSteps, SetPausedStep DEF Client
<1>3. CASE Program
  BY <1>3, LoadSessionStep, SilentSteps, SerialStartStep DEF Program
<1>4. ASSUME NEW e \in Entry, Module(e) PROVE IInv'
  BY <1>4, AddEventSystemStep, ActivatedStep, FailsStep, DeactivatedStep DEF Module
<1>5. CASE Destroyed
  BY <1>5, DestroyedStep
<1>6. CASE (\E serial \in Serial : PublishSerial(serial)) \/ MonthPasses
  BY <1>6, SilentSteps
<1> QED
  BY <1>1, <1>2, <1>3, <1>4, <1>5, <1>6 DEF Next

----------------------------------------------------------------------------
(* The invariant of the program.                                           *)
THEOREM Invariance == Spec => []IInv
<1>1. Init => IInv
  BY InitIInv
<1>2. IInv /\ [Next]_vars => IInv'
  BY NextIInv
<1> QED
  BY <1>1, <1>2, PTL DEF Spec

(* Every variable keeps its type.                                          *)
THEOREM TypeCorrect == Spec => []TypeOK
<1>1. IInv => TypeOK
  BY DEF IInv, OtherTypes, ManagerInv, TypeOK, ManagerTypeOK
<1> QED
  BY <1>1, Invariance, PTL

(* The lock is held exactly while a module owes the signal that gives it   *)
(* back.                                                                   *)
THEOREM LockCorrect == Spec => []LockHasHolder
<1>1. IInv => LockHasHolder
  BY DEF IInv, ManagerInv
<1> QED
  BY <1>1, Invariance, PTL

(* Modules come up one at a time.                                          *)
THEOREM OneAtATimeCorrect == Spec => []OneModuleAtATime
<1>1. IInv => OneModuleAtATime
  BY DEF IInv, ManagerInv
<1> QED
  BY <1>1, Invariance, PTL

(* Two sessions never run together.                                        *)
THEOREM SessionsCorrect == Spec => []SessionsDoNotMix
<1>1. IInv => SessionsDoNotMix
  BY DEF IInv, ManagerInv
<1> QED
  BY <1>1, Invariance, PTL

(* The queue of modules that wait is in file order, none twice.            *)
THEOREM QueueCorrect == Spec => []QueueInFileOrder
<1>1. IInv => QueueInFileOrder
  BY DEF IInv, ManagerInv
<1> QED
  BY <1>1, Invariance, PTL

(* A request that passes the gate finds the lock free: the Q_ASSERT(false) *)
(* of changeSessionFile cannot be reached through the controller.          *)
THEOREM GateCorrect == Spec => []GateOpenOnlyWhenSettled
<1>1. IInv => GateOpenOnlyWhenSettled
  BY DEF IInv
<1> QED
  BY <1>1, Invariance, PTL

(* No session is left before the serial number is known.                   *)
THEOREM SerialCorrect == Spec => []SerialBeforeSwitch
<1>1. IInv => SerialBeforeSwitch
  BY DEF IInv
<1> QED
  BY <1>1, Invariance, PTL

(* The event handler never holds the event system of a module that is      *)
(* being destroyed.                                                        *)
THEOREM EventSystemsCorrect == Spec => []NoDanglingEventSystem
<1>1. IInv => NoDanglingEventSystem
  BY DEF IInv, ManagerInv
<1> QED
  BY <1>1, Invariance, PTL

(***************************************************************************)
(* The pause.  Only a client changes it, and a module that is not in the   *)
(* list is not paused.                                                     *)
(***************************************************************************)
PauseInv == PauseEnds /\ pausedModules \subseteq moduleList

(* What the start of the next module leaves alone.                         *)
LEMMA StartKeepsList ==
    ASSUME NEW d, NEW list, NEW ph, NEW lock,
           \/ onModuleStartNext(d, list, ph) \/ NoStart(d, list, ph, lock)
    PROVE  list \subseteq moduleList'
BY DEF onModuleStartNext, StartNextLicensed, StartNextWithoutSerial, StartStartable,
       CreateModule, CreateNothing, ModulesLoaded, Defer, NoStart

LEMMA StepPauseInv ==
    ASSUME PauseInv, [Next]_vars
    PROVE  PauseInv'
<1> USE DEF PauseInv, PauseEnds
<1>1. CASE \E paused \in BOOLEAN : SetPaused(paused)
  BY <1>1 DEF SetPaused, setModulesPaused, Paused, storePaused
<1>2. ASSUME NEW e \in Entry, Deactivated(e)
      PROVE  PauseInv'
  <2>1. moduleList \ {e} \subseteq moduleList'
    BY <1>2, StartKeepsList DEF Deactivated, onModuleDelete, checkModuleList
  <2>2. pausedModules' = pausedModules \ {e} /\ modulesPaused' = modulesPaused
    BY <1>2 DEF Deactivated, onModuleDelete, ControllerReacts, initializeEntity,
                controllerVars
  <2> QED
    BY <2>1, <2>2
<1>3. ASSUME \/ UNCHANGED vars
             \/ \E s \in SessionName : SetSession(s) \/ DropSession(s)
             \/ LoadSession \/ EnterEventLoop \/ SessionChanged \/ AddSubsystems
             \/ SerialStart \/ Destroyed \/ MonthPasses
             \/ \E serial \in Serial : PublishSerial(serial)
             \/ \E e \in Entry : AddEventSystem(e) \/ Activated(e) \/ Fails(e)
      PROVE  PauseInv'
  <2>1. moduleList \subseteq moduleList'
    BY <1>3, StartKeepsList
    DEF vars, managerVars, SetSession, DropSession, LoadSession, EnterEventLoop,
        SessionChanged, AddSubsystems, SerialStart, Destroyed, MonthPasses,
        PublishSerial, AddEventSystem, Activated, Fails, ManagerSilent, LoadNext,
        startModule, changeSessionFile, onModuleEventSystemAdded, moduleActivated,
        moduleFails, moduleDestroyed, serialNumberSignalled, checkModuleList,
        delayedModuleStartNext, StartStartable, CreateModule, CreateNothing, Defer
  <2>2. pausedModules' = pausedModules /\ modulesPaused' = modulesPaused
    BY <1>3
    DEF vars, managerVars, controllerVars, SetSession, DropSession, LoadSession,
        EnterEventLoop, SessionChanged, AddSubsystems, SerialStart, Destroyed,
        MonthPasses, PublishSerial, AddEventSystem, Activated, Fails, ManagerSilent,
        LoadNext, changeSessionFile, onModuleEventSystemAdded, moduleActivated,
        moduleFails, moduleDestroyed, serialNumberSignalled, ControllerReacts,
        initializeEntity, requestSession, afterChangeSession
  <2> QED
    BY <2>1, <2>2
<1> QED
  BY <1>1, <1>2, <1>3 DEF Next, Client, Program, Module

(* When ModulesPaused is taken back no module is left paused.              *)
THEOREM PauseCorrect == Spec => []PauseEnds
<1>1. Init => PauseInv
  BY DEF Init, PauseInv, PauseEnds
<1>2. PauseInv /\ [Next]_vars => PauseInv'
  BY StepPauseInv
<1>3. PauseInv => PauseEnds
  BY DEF PauseInv
<1> QED
  BY <1>1, <1>2, <1>3, PTL DEF Spec
=============================================================================
