----------------------- MODULE CustomerDataSystem_proofs -----------------------
(***************************************************************************)
(* Proofs about the procedures of the customer data system, for any        *)
(* number of calls and searches: types, WatcherHasCall, SearchFindsAll and *)
(* the contract of remote procedures.  The files keep their invariant,     *)
(* whose steps are proved in CustomerDataFiles_proofs.                     *)
(***************************************************************************)
EXTENDS CustomerDataSystem, CustomerDataFiles_proofs

(* Every search has a record of its own.                                   *)
WatcherType ==
    /\ Searching \subseteq Call
    /\ \A c \in Searching : m_pendingSearchResultWatchers[c] \in Search

(* A call is searched for only while it is pending, and pending only       *)
(* before it is answered.                                                  *)
PendingInv ==
    /\ m_pendingRpcHash \subseteq Call
    /\ WatcherHasCall
    /\ answer \in [Call -> {"none", "named", "nameless"}]
    /\ \A c \in m_pendingRpcHash : answer[c] = "none"

(* A listed file that matched at the call and did not change since waits   *)
(* for a worker, for delivery, or has been delivered.                      *)
Accounted(search) ==
    \A f \in search.steady :
        \/ f \in search.todo /\ Matches(disk[f], search.searchMap)
        \/ f \in search.ready \cup search.found

SearchInv == \A c \in Searching : Accounted(m_pendingSearchResultWatchers[c])

CInv == IInv /\ WatcherType /\ PendingInv /\ SearchInv

----------------------------------------------------------------------------
(* A step of the calls is one of the files, or leaves them alone.          *)
LEMMA FilesPart ==
    ASSUME [CallsNext]_vars
    PROVE  [FilesNext]_fileVars
BY DEF CallsNext, vars, FilesStep, FilesNext, CallAdd, CallRemove, CallRefused,
       CallSearch, SearchTest, SearchResultReady, SearchFinished

(* A change of the directory leaves the files that are still steady as     *)
(* they were.                                                              *)
LEMMA WatchedKeeps ==
    ASSUME WatcherType, SearchInv,
           m_pendingSearchResultWatchers' = Watched(m_pendingSearchResultWatchers)
    PROVE  /\ WatcherType' /\ Searching' = Searching /\ SearchInv'
           /\ \A c \in Searching : m_pendingSearchResultWatchers'[c].found
                                      = m_pendingSearchResultWatchers[c].found
<1> DEFINE old(c) == m_pendingSearchResultWatchers[c]
           new(c) == [old(c) EXCEPT !.steady = {f \in @ : disk'[f] = disk[f]}]
<1>1. Searching' = Searching /\ \A c \in Searching : m_pendingSearchResultWatchers'[c] = new(c)
  BY DEF Watched, Searching
<1>2. ASSUME NEW c \in Searching
      PROVE  /\ new(c) \in Search
             /\ new(c).searchMap = old(c).searchMap
             /\ new(c).todo = old(c).todo
             /\ new(c).ready = old(c).ready
             /\ new(c).found = old(c).found
             /\ new(c).steady = {f \in old(c).steady : disk'[f] = disk[f]}
  <2>1. old(c) \in Search
    BY DEF WatcherType
  <2> QED
    BY <2>1 DEF Search
<1> HIDE DEF new
<1>3. WatcherType'
  BY <1>1, <1>2 DEF WatcherType
<1>4. ASSUME NEW c \in Searching
      PROVE  Accounted(m_pendingSearchResultWatchers[c])'
  <2>1. m_pendingSearchResultWatchers'[c] = new(c)
    BY <1>1
  <2>2. ASSUME NEW f \in new(c).steady
        PROVE  \/ f \in new(c).todo /\ Matches(disk'[f], new(c).searchMap)
               \/ f \in new(c).ready \cup new(c).found
    <3>1. f \in old(c).steady /\ disk'[f] = disk[f]
      BY <1>2
    <3>2. \/ f \in old(c).todo /\ Matches(disk[f], old(c).searchMap)
          \/ f \in old(c).ready \cup old(c).found
      BY <3>1 DEF SearchInv, Accounted
    <3> QED
      BY <1>2, <3>1, <3>2
  <2> QED
    BY <2>1, <2>2 DEF Accounted
<1>5. SearchInv'
  BY <1>1, <1>4 DEF SearchInv
<1> QED
  BY <1>1, <1>2, <1>3, <1>5

(* A new search accounts for all it has to find.                           *)
LEMMA NewSearchFits ==
    ASSUME IInv, NEW searchMap \in SearchMap
    PROVE  /\ NewSearch(searchMap) \in Search
           /\ NewSearch(searchMap).found = {}
           /\ Accounted(NewSearch(searchMap))
<1>1. m_fileList \subseteq File
  BY FilesAssumption DEF IInv, FilesTypeOK
<1> QED
  BY <1>1 DEF NewSearch, Search, Accounted

(* A search that is changed by itself keeps the others as they are.        *)
LEMMA OneSearchChanges ==
    ASSUME WatcherType, SearchInv, NEW c \in Searching, NEW search \in Search,
           Accounted(search), UNCHANGED disk,
           m_pendingSearchResultWatchers' = [m_pendingSearchResultWatchers EXCEPT ![c] = search]
    PROVE  WatcherType' /\ SearchInv' /\ Searching' = Searching
<1>1. /\ Searching' = Searching
      /\ \A d \in Searching : m_pendingSearchResultWatchers'[d] =
            IF d = c THEN search ELSE m_pendingSearchResultWatchers[d]
  BY DEF Searching
<1>2. WatcherType'
  BY <1>1 DEF WatcherType
<1>3. ASSUME NEW d \in Searching
      PROVE  Accounted(m_pendingSearchResultWatchers[d])'
  BY <1>1 DEF SearchInv, Accounted
<1> QED
  BY <1>1, <1>2, <1>3 DEF SearchInv

LEMMA TestStep ==
    ASSUME CInv, NEW c \in Call, SearchTest(c)
    PROVE  /\ WatcherType' /\ SearchInv' /\ Searching' = Searching
           /\ \A d \in Searching : m_pendingSearchResultWatchers'[d].found
                                      = m_pendingSearchResultWatchers[d].found
<1> DEFINE old == m_pendingSearchResultWatchers[c]
<1>1. c \in Searching /\ UNCHANGED disk
  BY DEF SearchTest, fileVars
<1>2. old \in Search
  BY <1>1 DEF CInv, WatcherType
<1>3. PICK f \in old.todo :
         m_pendingSearchResultWatchers' =
            [m_pendingSearchResultWatchers EXCEPT
               ![c].todo = @ \ {f},
               ![c].ready = IF Matches(disk[f], old.searchMap) THEN @ \cup {f} ELSE @]
  BY DEF SearchTest
<1> DEFINE new == [old EXCEPT !.todo = @ \ {f},
                              !.ready = IF Matches(disk[f], old.searchMap)
                                        THEN @ \cup {f} ELSE @]
<1>4. m_pendingSearchResultWatchers' = [m_pendingSearchResultWatchers EXCEPT ![c] = new]
  BY <1>1, <1>3 DEF Searching
<1>5. /\ new \in Search
      /\ new.searchMap = old.searchMap /\ new.steady = old.steady
      /\ new.found = old.found /\ new.todo = old.todo \ {f}
      /\ new.ready = IF Matches(disk[f], old.searchMap) THEN old.ready \cup {f} ELSE old.ready
  BY <1>2 DEF Search
<1> HIDE DEF new
<1>6. Accounted(new)
  <2>1. Accounted(old)
    BY <1>1 DEF CInv, SearchInv
  <2> QED
    BY <1>5, <2>1 DEF Accounted
<1>7. WatcherType' /\ SearchInv' /\ Searching' = Searching
  BY <1>1, <1>4, <1>5, <1>6, OneSearchChanges DEF CInv
<1> QED
  BY <1>1, <1>4, <1>5, <1>7 DEF Searching

LEMMA ResultStep ==
    ASSUME CInv, NEW c \in Call, SearchResultReady(c)
    PROVE  /\ WatcherType' /\ SearchInv' /\ Searching' = Searching
           /\ c \in Searching
           /\ \E f \in File : \A d \in Searching :
                 m_pendingSearchResultWatchers'[d].found =
                    IF d = c THEN m_pendingSearchResultWatchers[c].found \cup {f}
                    ELSE m_pendingSearchResultWatchers[d].found
<1> DEFINE old == m_pendingSearchResultWatchers[c]
<1>1. c \in Searching /\ UNCHANGED disk
  BY DEF SearchResultReady, fileVars
<1>2. old \in Search
  BY <1>1 DEF CInv, WatcherType
<1>3. PICK f \in old.ready :
         m_pendingSearchResultWatchers' =
            [m_pendingSearchResultWatchers EXCEPT
               ![c].ready = @ \ {f}, ![c].found = @ \cup {f}]
  BY DEF SearchResultReady
<1> DEFINE new == [old EXCEPT !.ready = @ \ {f}, !.found = @ \cup {f}]
<1>4. m_pendingSearchResultWatchers' = [m_pendingSearchResultWatchers EXCEPT ![c] = new]
  BY <1>1, <1>3 DEF Searching
<1>5. /\ f \in File /\ new \in Search
      /\ new.searchMap = old.searchMap /\ new.steady = old.steady
      /\ new.found = old.found \cup {f} /\ new.todo = old.todo
      /\ new.ready = old.ready \ {f}
  BY <1>2 DEF Search
<1> HIDE DEF new
<1>6. Accounted(new)
  <2>1. Accounted(old)
    BY <1>1 DEF CInv, SearchInv
  <2> QED
    BY <1>5, <2>1 DEF Accounted
<1>7. WatcherType' /\ SearchInv' /\ Searching' = Searching
  BY <1>1, <1>4, <1>5, <1>6, OneSearchChanges DEF CInv
<1> QED
  BY <1>1, <1>4, <1>5, <1>7 DEF Searching

(* A call of customerDataSearch takes the call, with a search of its own   *)
(* or with none.                                                           *)
LEMMA SearchCallStep ==
    ASSUME CInv, NEW c \in Call, NEW searchMap \in SearchMap, CallSearch(c, searchMap)
    PROVE  /\ WatcherType' /\ PendingInv' /\ SearchInv'
           /\ c \notin Searching /\ c \notin m_pendingRpcHash /\ answer[c] = "none"
           /\ Searching \subseteq Searching' /\ Searching' \subseteq Searching \cup {c}
           /\ \A d \in Searching : m_pendingSearchResultWatchers'[d].found
                                      = m_pendingSearchResultWatchers[d].found
           /\ c \in Searching' => m_pendingSearchResultWatchers'[c].found = {}
<1>1. /\ c \notin Searching /\ c \notin m_pendingRpcHash /\ answer[c] = "none"
      /\ m_pendingRpcHash' = m_pendingRpcHash \cup {c}
      /\ UNCHANGED <<answer, disk>>
  BY DEF CallSearch, Fresh, customerDataSearch, CInv, PendingInv, WatcherHasCall, fileVars
<1>2. CASE searchMap = <<>>
  <2>1. UNCHANGED m_pendingSearchResultWatchers
    BY <1>2 DEF CallSearch, customerDataSearch
  <2>2. WatcherType' /\ SearchInv' /\ Searching' = Searching
    BY <1>1, <2>1 DEF CInv, WatcherType, SearchInv, Searching, Accounted
  <2>3. PendingInv'
    BY <1>1, <2>2 DEF CInv, PendingInv, WatcherHasCall
  <2> QED
    BY <1>1, <2>1, <2>2, <2>3
<1>3. CASE searchMap # <<>>
  <2>1. m_pendingSearchResultWatchers' =
           [d \in Searching \cup {c} |->
               IF d = c THEN NewSearch(searchMap) ELSE m_pendingSearchResultWatchers[d]]
    BY <1>3 DEF CallSearch, customerDataSearch
  <2>2. /\ Searching' = Searching \cup {c}
        /\ m_pendingSearchResultWatchers'[c] = NewSearch(searchMap)
        /\ \A d \in Searching : m_pendingSearchResultWatchers'[d]
                                   = m_pendingSearchResultWatchers[d]
    BY <1>1, <2>1 DEF Searching
  <2>3. /\ NewSearch(searchMap) \in Search /\ NewSearch(searchMap).found = {}
        /\ Accounted(NewSearch(searchMap))
    BY NewSearchFits DEF CInv
  <2>4. WatcherType'
    BY <2>2, <2>3 DEF CInv, WatcherType
  <2>5. ASSUME NEW d \in Searching'
        PROVE  Accounted(m_pendingSearchResultWatchers[d])'
    BY <1>1, <2>2, <2>3 DEF CInv, SearchInv, Accounted
  <2>6. PendingInv'
    BY <1>1, <2>2 DEF CInv, PendingInv, WatcherHasCall
  <2> QED
    BY <1>1, <2>2, <2>3, <2>4, <2>5, <2>6 DEF SearchInv
<1> QED
  BY <1>2, <1>3

LEMMA FinishStep ==
    ASSUME CInv, NEW c \in Call, SearchFinished(c)
    PROVE  /\ WatcherType' /\ PendingInv' /\ SearchInv'
           /\ c \in Searching /\ Searching' = Searching \ {c}
           /\ \A d \in Searching \ {c} : m_pendingSearchResultWatchers'[d]
                                            = m_pendingSearchResultWatchers[d]
<1>1. /\ c \in Searching
      /\ m_pendingSearchResultWatchers' =
            [d \in Searching \ {c} |-> m_pendingSearchResultWatchers[d]]
      /\ m_pendingRpcHash' = m_pendingRpcHash \ {c}
      /\ answer' = [answer EXCEPT ![c] = "named"]
      /\ UNCHANGED disk
  BY DEF SearchFinished, Restrict, fileVars
<1>2. /\ Searching' = Searching \ {c}
      /\ \A d \in Searching \ {c} : m_pendingSearchResultWatchers'[d]
                                       = m_pendingSearchResultWatchers[d]
  BY <1>1 DEF Searching
<1>3. WatcherType' /\ SearchInv'
  BY <1>1, <1>2 DEF CInv, WatcherType, SearchInv, Accounted
<1>4. PendingInv'
  BY <1>1, <1>2 DEF CInv, PendingInv, WatcherHasCall
<1> QED
  BY <1>1, <1>2, <1>3, <1>4

----------------------------------------------------------------------------
LEMMA CallsStart == ASSUME CallsInit PROVE CInv
<1>1. IInv
  BY FilesStart DEF CallsInit
<1>2. Searching = {} /\ m_pendingRpcHash = {} /\ answer = [c \in Call |-> "none"]
  BY DEF CallsInit, Searching
<1> QED
  BY <1>1, <1>2 DEF CInv, WatcherType, PendingInv, SearchInv, WatcherHasCall

(* The steps that only change the directory, or answer at once.            *)
LEMMA DirectorySteps ==
    ASSUME CInv,
           \/ FilesStep
           \/ \E c \in Call, result \in {"named", "nameless"} :
                 Fresh(c) /\ Answered(c, result)
    PROVE  WatcherType' /\ PendingInv' /\ SearchInv' /\ Searching' = Searching
<1>1. /\ WatcherType' /\ SearchInv' /\ Searching' = Searching
      /\ m_pendingRpcHash' = m_pendingRpcHash
  BY WatchedKeeps DEF CInv, FilesStep, Answered
<1>2. PendingInv'
  <2>1. CASE FilesStep
    BY <1>1, <2>1 DEF CInv, PendingInv, WatcherHasCall, FilesStep
  <2>2. ASSUME NEW c \in Call, NEW result \in {"named", "nameless"},
               Fresh(c), Answered(c, result)
        PROVE  PendingInv'
    BY <1>1, <2>2 DEF CInv, PendingInv, WatcherHasCall, Fresh, Answered
  <2> QED
    BY <2>1, <2>2
<1> QED
  BY <1>1, <1>2

LEMMA CallsKeep ==
    ASSUME CInv, [CallsNext]_vars
    PROVE  CInv'
<1>1. IInv'
  BY FilesPart, FilesStepKeeps DEF CInv
<1>2. CASE \/ FilesStep
           \/ \E c \in Call : \/ \E f \in File : CallAdd(c, f) \/ CallRemove(c, f)
                              \/ CallRefused(c)
  <2>1. \/ FilesStep
        \/ \E c \in Call, result \in {"named", "nameless"} :
              Fresh(c) /\ Answered(c, result)
    BY <1>2 DEF CallAdd, CallRemove, CallRefused
  <2> QED
    BY <1>1, <2>1, DirectorySteps DEF CInv
<1>3. ASSUME NEW c \in Call, SearchTest(c) \/ SearchResultReady(c)
      PROVE  CInv'
  <2>1. WatcherType' /\ SearchInv' /\ Searching' = Searching
    BY <1>3, TestStep, ResultStep
  <2>2. UNCHANGED <<m_pendingRpcHash, answer>>
    BY <1>3 DEF SearchTest, SearchResultReady
  <2>3. PendingInv'
    BY <2>1, <2>2 DEF CInv, PendingInv, WatcherHasCall
  <2> QED
    BY <1>1, <2>1, <2>3 DEF CInv
<1>4. ASSUME NEW c \in Call,
             \/ SearchFinished(c)
             \/ \E searchMap \in SearchMap : CallSearch(c, searchMap)
      PROVE  CInv'
  BY <1>1, <1>4, FinishStep, SearchCallStep DEF CInv
<1>5. CASE UNCHANGED vars
  <2>1. UNCHANGED <<disk, m_pendingRpcHash, m_pendingSearchResultWatchers, answer>>
    BY <1>5 DEF vars, fileVars, callVars
  <2> QED
    BY <1>1, <2>1 DEF CInv, WatcherType, PendingInv, SearchInv, Accounted, Searching,
                      WatcherHasCall
<1> QED
  BY <1>2, <1>3, <1>4, <1>5 DEF CallsNext

LEMMA CallsInvariance == CallsSpec => []CInv
<1>1. CallsInit => CInv
  BY CallsStart
<1>2. CInv /\ [CallsNext]_vars => CInv'
  BY CallsKeep
<1> QED
  BY <1>1, <1>2, PTL DEF CallsSpec

----------------------------------------------------------------------------
(* Every variable keeps its type.                                          *)
THEOREM CallsCorrect == CallsSpec => []CallsTypeOK
<1>1. CInv => CallsTypeOK
  BY DEF CInv, IInv, WatcherType, PendingInv, CallsTypeOK, Searching, Range
<1> QED
  BY <1>1, CallsInvariance, PTL

(* Results and the end of a search reach a call that still waits: the      *)
(* assertions of rpcFinished and rpcProgress hold.                         *)
THEOREM WatchersCorrect == CallsSpec => []WatcherHasCall
<1>1. CInv => WatcherHasCall
  BY DEF CInv, PendingInv
<1> QED
  BY <1>1, CallsInvariance, PTL

(* A search that ends has announced every file that matched and did not    *)
(* change.                                                                 *)
THEOREM SearchesCorrect == CallsSpec => SearchFindsAll
<1> DEFINE Found ==
      \A c \in Searching : c \notin DOMAIN m_pendingSearchResultWatchers' =>
         m_pendingSearchResultWatchers[c].steady \subseteq m_pendingSearchResultWatchers[c].found
<1>1. CInv /\ [CallsNext]_vars => [Found]_vars
  <2> SUFFICES ASSUME CInv, CallsNext, NEW c \in Searching, c \notin Searching'
               PROVE  m_pendingSearchResultWatchers[c].steady
                         \subseteq m_pendingSearchResultWatchers[c].found
    BY DEF Searching
  <2>1. SearchFinished(c)
    <3>1. CASE \/ FilesStep
               \/ \E d \in Call : \/ \E f \in File : CallAdd(d, f) \/ CallRemove(d, f)
                                  \/ CallRefused(d)
      <4>1. \/ FilesStep
            \/ \E d \in Call, result \in {"named", "nameless"} :
                  Fresh(d) /\ Answered(d, result)
        BY <3>1 DEF CallAdd, CallRemove, CallRefused
      <4> QED
        BY <4>1, DirectorySteps
    <3>2. CASE \E d \in Call : \/ SearchTest(d) \/ SearchResultReady(d)
                               \/ \E searchMap \in SearchMap : CallSearch(d, searchMap)
      BY <3>2, TestStep, ResultStep, SearchCallStep
    <3>3. ASSUME NEW d \in Call, SearchFinished(d)
          PROVE  d = c
      BY <3>3, FinishStep
    <3> QED
      BY <3>1, <3>2, <3>3 DEF CallsNext
  <2>2. FinishReported(m_pendingSearchResultWatchers[c])
    BY <2>1 DEF SearchFinished
  <2> QED
    BY <2>2 DEF FinishReported, CInv, SearchInv, Accounted
<1> QED
  BY <1>1, CallsInvariance, PTL DEF CallsSpec, SearchFindsAll

(* A step of the procedures is a step of the contract, or none of it.      *)
LEMMA CallsKeepContract ==
    ASSUME CInv, [CallsNext]_vars
    PROVE  [Contract!Next]_(Contract!callsVars)
<1> USE DEF Contract!callsVars
<1>1. CASE UNCHANGED vars
  BY <1>1 DEF vars, callVars, Status, Streamed, Searching
<1>2. CASE FilesStep
  <2>1. UNCHANGED <<m_pendingRpcHash, answer>>
        /\ m_pendingSearchResultWatchers' = Watched(m_pendingSearchResultWatchers)
    BY <1>2 DEF FilesStep
  <2>2. UNCHANGED Status
    BY <2>1 DEF Status
  <2>3. UNCHANGED Streamed
    BY <2>1, WatchedKeeps DEF CInv, Streamed
  <2> QED
    BY <2>2, <2>3
<1>3. ASSUME NEW c \in Call, NEW result \in {"named", "nameless"},
             Fresh(c), Answered(c, result)
      PROVE  Contract!Answer(c)
  <2>1. Status[c] = "none" /\ c \notin Searching
    BY <1>3 DEF Status, Fresh, CInv, PendingInv, WatcherHasCall
  <2>2. Status' = [Status EXCEPT ![c] = "answered"]
    BY <1>3 DEF Status, Answered, CInv, PendingInv
  <2>3. UNCHANGED Streamed
    BY <1>3, WatchedKeeps DEF CInv, Streamed, Answered
  <2>4. Streamed' = [Streamed EXCEPT ![c] = {}]
    BY <2>1, <2>3 DEF Streamed
  <2> QED
    BY <2>1, <2>2, <2>4 DEF Contract!Answer
<1>4. ASSUME NEW c \in Call, NEW searchMap \in SearchMap, CallSearch(c, searchMap)
      PROVE  Contract!Take(c)
  <2>1. Status[c] = "none" /\ answer[c] = "none"
    BY <1>4, SearchCallStep DEF Status
  <2>2. Status' = [Status EXCEPT ![c] = "pending"]
    <3>1. m_pendingRpcHash' = m_pendingRpcHash \cup {c} /\ answer' = answer
      BY <1>4 DEF CallSearch, customerDataSearch
    <3>2. \A d \in Call : Status'[d] = IF d = c THEN "pending" ELSE Status[d]
      BY <2>1, <3>1 DEF Status
    <3> QED
      BY <3>2 DEF Status
  <2>3. UNCHANGED Streamed
    BY <1>4, SearchCallStep DEF Streamed
  <2> QED
    BY <2>1, <2>2, <2>3 DEF Contract!Take
<1>5. ASSUME NEW c \in Call, SearchTest(c)
      PROVE  UNCHANGED <<Status, Streamed>>
  <2>1. UNCHANGED Status
    BY <1>5 DEF SearchTest, Status
  <2>2. UNCHANGED Streamed
    BY <1>5, TestStep DEF Streamed
  <2> QED
    BY <2>1, <2>2
<1>6. ASSUME NEW c \in Call, SearchResultReady(c)
      PROVE  \E f \in File : Contract!Progress(c, f)
  <2>1. UNCHANGED Status
    BY <1>6 DEF SearchResultReady, Status
  <2>2. c \in Searching /\ Searching' = Searching
    BY <1>6, ResultStep
  <2>3. PICK f \in File : \A d \in Searching :
                 m_pendingSearchResultWatchers'[d].found =
                    IF d = c THEN m_pendingSearchResultWatchers[c].found \cup {f}
                    ELSE m_pendingSearchResultWatchers[d].found
    BY <1>6, ResultStep
  <2>4. Streamed' = [Streamed EXCEPT ![c] = @ \cup {f}]
    BY <2>2, <2>3 DEF Streamed
  <2>5. Status[c] = "pending"
    BY <2>2 DEF Status, CInv, PendingInv, WatcherHasCall
  <2> QED
    BY <2>1, <2>4, <2>5 DEF Contract!Progress
<1>7. ASSUME NEW c \in Call, SearchFinished(c)
      PROVE  Contract!Answer(c)
  <2>1. Status[c] = "pending"
    BY <1>7, FinishStep DEF Status, CInv, PendingInv, WatcherHasCall
  <2>2. Status' = [Status EXCEPT ![c] = "answered"]
    BY <1>7 DEF Status, SearchFinished, CInv, PendingInv
  <2>3. Streamed' = [Streamed EXCEPT ![c] = {}]
    BY <1>7, FinishStep DEF Streamed
  <2> QED
    BY <2>1, <2>2, <2>3 DEF Contract!Answer
<1>8. ASSUME NEW c \in Call,
             \/ \E f \in File : CallAdd(c, f) \/ CallRemove(c, f)
             \/ CallRefused(c)
      PROVE  Contract!Answer(c)
  BY <1>3, <1>8 DEF CallAdd, CallRemove, CallRefused
<1> QED
  BY <1>1, <1>2, <1>4, <1>5, <1>6, <1>7, <1>8 DEF CallsNext, Contract!Next

(* Every call is taken once, streamed to while it waits, and answered at   *)
(* most once, with nothing after the answer.                               *)
THEOREM ContractKept == CallsSpec => KeepsContract
<1>1. CallsInit => Contract!Init
  BY DEF CallsInit, Contract!Init, Status, Streamed, Searching
<1>2. CInv /\ [CallsNext]_vars => [Contract!Next]_(Contract!callsVars)
  BY CallsKeepContract
<1> QED
  BY <1>1, <1>2, CallsInvariance, PTL DEF CallsSpec, KeepsContract, Contract!Spec

----------------------------------------------------------------------------
(* What calls and searches do to the files is what CustomerDataFiles       *)
(* allows, so that its theorems hold of the whole component ...            *)
THEOREM FilesKept == CallsSpec => FilesSpec
<1>1. CallsInit => FilesInit
  BY DEF CallsInit
<1>2. [CallsNext]_vars => [FilesNext]_fileVars
  BY FilesPart
<1> QED
  BY <1>1, <1>2, PTL DEF CallsSpec, FilesSpec

(* ... the write timer never fires without a file ...                      *)
COROLLARY CallsTimerCorrect == CallsSpec => []TimerHasFile
BY FilesKept, TimerCorrect, PTL

(* ... no value of another customer is left over in what clients see ...   *)
COROLLARY CallsShownCorrect == CallsSpec => []ShownIsStoredOrUnset
BY FilesKept, ShownCorrect, PTL

(* ... and no accepted value is forgotten while searches read the files.   *)
COROLLARY CallsPendingCorrect ==
    ASSUME ~MayFail
    PROVE  CallsSpec => PendingWriteKept
<1>1. FilesSpec => PendingWriteKept
  BY PendingCorrect
<1> QED
  BY <1>1, FilesKept

----------------------------------------------------------------------------
(* A call is lost when it waits and nothing searches for it.               *)
Lost(c) == c \in m_pendingRpcHash /\ c \notin Searching

(* The step that makes a call wait without a search is the call with an    *)
(* empty map, and once there is such a call no step answers it.            *)
LEMMA LostSteps ==
    ASSUME CInv, [CallsNext]_vars, NEW c \in Call
    PROVE  /\ Lost(c) => Lost(c)' /\ UNCHANGED answer[c]
           /\ ~Lost(c) /\ Lost(c)' => <<>> \in SearchMap /\ CallSearch(c, <<>>)
<1>1. WatcherType /\ PendingInv
  BY DEF CInv
<1>2. CASE UNCHANGED vars
  BY <1>2 DEF vars, callVars, Lost, Searching
<1>3. CASE FilesStep
  <2>1. Searching' = Searching
    BY <1>3, DirectorySteps
  <2> QED
    BY <1>3, <2>1 DEF FilesStep, Lost
<1>4. ASSUME NEW d \in Call, NEW result \in {"named", "nameless"},
             Fresh(d), Answered(d, result)
      PROVE  (Lost(c) => Lost(c)' /\ UNCHANGED answer[c]) /\ (Lost(c)' => Lost(c))
  <2>1. Searching' = Searching /\ m_pendingRpcHash' = m_pendingRpcHash
    BY <1>4, DirectorySteps DEF Answered
  <2>2. c # d => answer'[c] = answer[c]
    BY <1>1, <1>4 DEF Answered, PendingInv
  <2> QED
    BY <1>4, <2>1, <2>2 DEF Lost, Fresh
<1>5. ASSUME NEW d \in Call,
             \/ \E f \in File : CallAdd(d, f) \/ CallRemove(d, f)
             \/ CallRefused(d)
      PROVE  (Lost(c) => Lost(c)' /\ UNCHANGED answer[c]) /\ (Lost(c)' => Lost(c))
  <2>1. PICK result \in {"named", "nameless"} : Fresh(d) /\ Answered(d, result)
    BY <1>5 DEF CallAdd, CallRemove, CallRefused
  <2> QED
    BY <1>4, <2>1
<1>6. ASSUME NEW d \in Call, NEW searchMap \in SearchMap, CallSearch(d, searchMap)
      PROVE  /\ Lost(c) => Lost(c)' /\ UNCHANGED answer[c]
             /\ ~Lost(c) /\ Lost(c)' => <<>> \in SearchMap /\ CallSearch(c, <<>>)
  <2>1. /\ d \notin m_pendingRpcHash /\ Searching \subseteq Searching'
        /\ Searching' \subseteq Searching \cup {d}
    BY <1>6, SearchCallStep
  <2>2. m_pendingRpcHash' = m_pendingRpcHash \cup {d} /\ UNCHANGED answer
    BY <1>6 DEF CallSearch, customerDataSearch
  <2>3. searchMap # <<>> => d \in Searching'
    BY <1>6 DEF CallSearch, customerDataSearch, Searching
  <2>4. ~Lost(c) /\ Lost(c)' => c = d /\ searchMap = <<>>
    BY <2>1, <2>2, <2>3 DEF Lost
  <2> QED
    BY <1>6, <2>1, <2>2, <2>4 DEF Lost
<1>7. ASSUME NEW d \in Call, SearchTest(d) \/ SearchResultReady(d)
      PROVE  (Lost(c) => Lost(c)' /\ UNCHANGED answer[c]) /\ (Lost(c)' => Lost(c))
  <2>1. Searching' = Searching
    BY <1>7, TestStep, ResultStep
  <2>2. UNCHANGED <<m_pendingRpcHash, answer>>
    BY <1>7 DEF SearchTest, SearchResultReady
  <2> QED
    BY <2>1, <2>2 DEF Lost
<1>8. ASSUME NEW d \in Call, SearchFinished(d)
      PROVE  (Lost(c) => Lost(c)' /\ UNCHANGED answer[c]) /\ (Lost(c)' => Lost(c))
  <2>1. d \in Searching /\ Searching' = Searching \ {d}
    BY <1>8, FinishStep
  <2>2. /\ m_pendingRpcHash' = m_pendingRpcHash \ {d}
        /\ c # d => answer'[c] = answer[c]
    BY <1>1, <1>8 DEF SearchFinished, PendingInv
  <2> QED
    BY <2>1, <2>2 DEF Lost
<1> QED
  BY <1>2, <1>3, <1>5, <1>6, <1>7, <1>8 DEF CallsNext

(* As long as clients search for something, every call that waits has a    *)
(* search that works for it: WatcherHasCall holds in both directions.      *)
THEOREM PendingIsSearched ==
    ASSUME <<>> \notin SearchMap
    PROVE  CallsSpec => [](m_pendingRpcHash = Searching)
<1> DEFINE NoneLost == \A c \in Call : ~Lost(c)
<1>1. CallsInit => NoneLost
  BY DEF CallsInit, Lost
<1>2. CInv /\ NoneLost /\ [CallsNext]_vars => NoneLost'
  BY LostSteps
<1>3. CInv /\ NoneLost => m_pendingRpcHash = Searching
  BY DEF CInv, PendingInv, WatcherHasCall, Lost
<1> QED
  BY <1>1, <1>2, <1>3, CallsInvariance, PTL DEF CallsSpec

(* A call that waits without a search stays without an answer: what the    *)
(* run customer_answers shows of one call with an empty map is so for all. *)
THEOREM LostStaysLost ==
    CallsSpec => [][\A c \in Call : Lost(c) => Lost(c)' /\ UNCHANGED answer[c]]_vars
<1>1. CInv /\ [CallsNext]_vars
         => [\A c \in Call : Lost(c) => Lost(c)' /\ UNCHANGED answer[c]]_vars
  BY LostSteps
<1> QED
  BY <1>1, CallsInvariance, PTL DEF CallsSpec
=============================================================================
