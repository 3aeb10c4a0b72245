-------------------------- MODULE CustomerDataSystem --------------------------
(***************************************************************************)
(* The remote procedures of the CustomerDataSystem on top of its files:    *)
(* customerDataAdd and customerDataRemove answer before they return;       *)
(* customerDataSearch hands the file list to worker threads, which read    *)
(* the files while clients and others go on changing them, and whose       *)
(* results come back through the event loop.                               *)
(*                                                                         *)
(* A search asks for a string in each key of searchMap; an empty string is *)
(* a pattern that matches everything.                                      *)
(***************************************************************************)
EXTENDS CustomerDataFiles, Functions

CONSTANTS
    Call,       \* the ids clients give their calls, each used once
    SearchMap   \* what clients search for: functions from keys to strings

ASSUME CallsAssumption ==
    SearchMap \subseteq UNION {[keys -> Value] : keys \in SUBSET Key}

VARIABLES
    m_pendingRpcHash,               \* the calls taken and not answered
    m_pendingSearchResultWatchers,  \* call -> the state of its search
    answer                          \* call -> what the client got of it

callVars == <<m_pendingRpcHash, m_pendingSearchResultWatchers, answer>>
vars == <<fileVars, callVars>>

(* A search: the files no worker has read yet, the results the event loop  *)
(* has not delivered, and for the properties the results it has delivered  *)
(* and the files that matched at the call and did not change since.        *)
Search == [searchMap : SearchMap, todo : SUBSET File, ready : SUBSET File,
           found : SUBSET File, steady : SUBSET File]

(* An answer names its call, or it does not ("nameless"): the result of    *)
(* customerDataRemove is built from the inner map, without the call id.    *)
CallsTypeOK ==
    /\ FilesTypeOK
    /\ m_pendingRpcHash \subseteq Call
    /\ DOMAIN m_pendingSearchResultWatchers \subseteq Call
    /\ Range(m_pendingSearchResultWatchers) \subseteq Search
    /\ answer \in [Call -> {"none", "named", "nameless"}]

Searching == DOMAIN m_pendingSearchResultWatchers

(* What a worker finds in a file.  A key the file lacks reads as empty     *)
(* when the assertion on it is compiled out.                               *)
Matches(content, searchMap) ==
    /\ content \in Document
    /\ \A x \in DOMAIN searchMap :
          searchMap[x] \in {Empty} \cup (IF x \in Keys(content) THEN {toString(content[x])} ELSE {})

(* The searches after a step that may have changed the directory.          *)
Watched(watchers) ==
    [c \in DOMAIN watchers |->
        [watchers[c] EXCEPT !.steady = {f \in @ : disk'[f] = disk[f]}]]

Fresh(c) == answer[c] = "none" /\ c \notin m_pendingRpcHash

----------------------------------------------------------------------------
CallsInit ==
    /\ FilesInit
    /\ m_pendingRpcHash = {}
    /\ m_pendingSearchResultWatchers = <<>>
    /\ answer = [c \in Call |-> "none"]

(* The client's own values, the timer, the watcher and the others.         *)
FilesStep ==
    /\ \/ \E f \in File : SelectFile(f) \/ OutsideRemove(f)
       \/ \E x \in Field, v \in Value : SetField(x, v)
       \/ WriteTimeout
       \/ DirectoryChanged
       \/ \E f \in File, content \in Outside : OutsideWrite(f, content)
    /\ m_pendingSearchResultWatchers' = Watched(m_pendingSearchResultWatchers)
    /\ UNCHANGED <<m_pendingRpcHash, answer>>

(* A call that is answered before the procedure returns.  The result of    *)
(* customerDataAdd copies the whole call, that of customerDataRemove only  *)
(* its parameters, so that it does not say which call it answers.          *)
Answered(c, result) ==
    /\ answer' = [answer EXCEPT ![c] = result]
    /\ m_pendingSearchResultWatchers' = Watched(m_pendingSearchResultWatchers)
    /\ UNCHANGED m_pendingRpcHash

CallAdd(c, f) == Fresh(c) /\ customerDataAdd(f) /\ Answered(c, "named")

CallRemove(c, f) == Fresh(c) /\ customerDataRemove(f) /\ Answered(c, "nameless")

(* A call whose parameter is missing or not a legal file name is refused.  *)
CallRefused(c) ==
    /\ Fresh(c)
    /\ UNCHANGED fileVars
    /\ \E result \in {"named", "nameless"} : Answered(c, result)

(***************************************************************************)
(* customerDataSearch.                                                     *)
(***************************************************************************)
NewSearch(searchMap) ==
    [searchMap |-> searchMap, todo |-> m_fileList, ready |-> {}, found |-> {},
     steady |-> {f \in m_fileList : Matches(disk[f], searchMap)}]

(* Faulty variant: it answers before it returns, as the others do.         *)
customerDataSearch_AnswersAtOnce(c, searchMap) ==
    /\ m_pendingSearchResultWatchers' =
          IF searchMap = <<>> THEN m_pendingSearchResultWatchers
          ELSE [d \in Searching \cup {c} |->
                  IF d = c THEN NewSearch(searchMap) ELSE m_pendingSearchResultWatchers[d]]
    /\ answer' = [answer EXCEPT ![c] = "named"]
    /\ UNCHANGED m_pendingRpcHash

(* An empty map starts no search, and nothing answers the call.            *)
customerDataSearch(c, searchMap) ==
    /\ m_pendingRpcHash' = m_pendingRpcHash \cup {c}
    /\ m_pendingSearchResultWatchers' =
          IF searchMap = <<>> THEN m_pendingSearchResultWatchers
          ELSE [d \in Searching \cup {c} |->
                  IF d = c THEN NewSearch(searchMap) ELSE m_pendingSearchResultWatchers[d]]
    /\ UNCHANGED answer

CallSearch(c, searchMap) ==
    /\ Fresh(c)
    /\ customerDataSearch(c, searchMap)
    /\ UNCHANGED fileVars

(* A worker thread reads one of the files and tests it.                    *)
SearchTest(c) ==
    /\ c \in Searching
    /\ \E f \in m_pendingSearchResultWatchers[c].todo :
          m_pendingSearchResultWatchers' =
             [m_pendingSearchResultWatchers EXCEPT
                ![c].todo = @ \ {f},
                ![c].ready = IF Matches(disk[f], m_pendingSearchResultWatchers[c].searchMap)
                             THEN @ \cup {f} ELSE @]
    /\ UNCHANGED <<fileVars, m_pendingRpcHash, answer>>

(* The event loop delivers a result (resultReadyAt, rpcProgress).          *)
SearchResultReady(c) ==
    /\ c \in Searching
    /\ \E f \in m_pendingSearchResultWatchers[c].ready :
          m_pendingSearchResultWatchers' =
             [m_pendingSearchResultWatchers EXCEPT
                ![c].ready = @ \ {f}, ![c].found = @ \cup {f}]
    /\ UNCHANGED <<fileVars, m_pendingRpcHash, answer>>

(* The search is over: its results came before (finished, rpcFinished).    *)
(* Faulty variants: finished overtakes the results that wait; the watcher  *)
(* goes without an answer.                                                 *)
FinishReported_Overtakes(search) == search.todo = {}
FinishReported_Never(search) == FALSE
FinishReported(search) == search.todo = {} /\ search.ready = {}

SearchFinished(c) ==
    /\ c \in Searching
    /\ FinishReported(m_pendingSearchResultWatchers[c])
    /\ m_pendingSearchResultWatchers' =
          Restrict(m_pendingSearchResultWatchers, Searching \ {c})
    /\ m_pendingRpcHash' = m_pendingRpcHash \ {c}
    /\ answer' = [answer EXCEPT ![c] = "named"]
    /\ UNCHANGED fileVars

CallsNext ==
    \/ FilesStep
    \/ \E c \in Call :
          \/ \E f \in File : CallAdd(c, f) \/ CallRemove(c, f)
          \/ CallRefused(c)
          \/ \E searchMap \in SearchMap : CallSearch(c, searchMap)
          \/ SearchTest(c) \/ SearchResultReady(c) \/ SearchFinished(c)

CallsSpec == CallsInit /\ [][CallsNext]_vars

(* The thread pool runs what it was given, and the event loop delivers     *)
(* what is posted to it.                                                   *)
CallsFairSpec ==
    /\ CallsSpec
    /\ \A c \in Call : /\ WF_vars(SearchTest(c))
                       /\ WF_vars(SearchResultReady(c))
                       /\ WF_vars(SearchFinished(c))

----------------------------------------------------------------------------
(* Results and the end of a search reach a call that still waits for them: *)
(* the assertions of rpcFinished and rpcProgress hold.                     *)
WatcherHasCall == Searching \subseteq m_pendingRpcHash

(* A search that ends has announced every file that was listed and matched *)
(* when it was asked for and did not change since, whatever clients and    *)
(* others did to the other files meanwhile.                                *)
SearchFindsAll ==
    [][\A c \in Searching :
          c \notin DOMAIN m_pendingSearchResultWatchers' =>
             m_pendingSearchResultWatchers[c].steady
                \subseteq m_pendingSearchResultWatchers[c].found]_vars

(* The procedures keep the contract of remote procedures.                  *)
Status == [c \in Call |-> IF answer[c] # "none" THEN "answered"
                          ELSE IF c \in m_pendingRpcHash THEN "pending" ELSE "none"]

Streamed == [c \in Call |-> IF c \in Searching
                            THEN m_pendingSearchResultWatchers[c].found ELSE {}]

Contract == INSTANCE RemoteCalls
                WITH Result <- File, status <- Status, streamed <- Streamed

KeepsContract == Contract!Spec

(* Every search that was started is answered.                              *)
SearchesEnd == \A c \in Call : (c \in Searching) ~> (answer[c] = "named")

(* Every call that was taken is answered (m_pendingRpcHash holds calls     *)
(* until rpcFinished).                                                     *)
EveryCallAnswered == Contract!EveryCallAnswered
=============================================================================
