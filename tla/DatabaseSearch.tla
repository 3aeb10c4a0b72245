---------------------------- MODULE DatabaseSearch ----------------------------
(***************************************************************************)
(* The remote procedures of the ZeraDBLogger (zeradblogger.cpp) and the    *)
(* DirIteratorWorker (diriteratorworker.cpp): listStorages answers before  *)
(* it returns; findDBFile starts a thread whose worker iterates over the   *)
(* files of a storage, tests each and posts what it finds, and at last     *)
(* that it is finished, to the event loop of the logger, while files are   *)
(* put on the storage and removed from it.                                 *)
(*                                                                         *)
(* Nobody requests the interruption of these threads, so that the branch   *)
(* of startSearch that ends in sigInterrupted is never taken.              *)
(***************************************************************************)
EXTENDS Naturals, Sequences

CONSTANTS
    Call,       \* the ids clients give their calls, each used once
    Path,       \* paths below the search path that fit the patterns
    Database    \* the paths at which there is a valid database, if a file

ASSUME SearchAssumption == Database \subseteq Path

VARIABLES
    storage,            \* the paths at which there is a file
    m_pendingRpcHash,   \* the calls taken and not answered
    worker,             \* call -> the state of its DirIteratorWorker
    posted,             \* the queued invocations of the logger, in order
    answered,           \* the calls that got their result
    streamed            \* call -> the results its client got while it waits

vars == <<storage, m_pendingRpcHash, worker, posted, answered, streamed>>

(* A worker: whether its thread is starting, searching or idle (a thread   *)
(* is never told to quit), the paths the iterator has returned, and for    *)
(* the properties the files there all the time since the iterator was made *)
(* (in findDBFile, before the thread runs).                                *)
Worker == [phase : {"none", "starting", "searching", "idle"},
           visited : SUBSET Path, steady : SUBSET Path]

NoWorker == [phase |-> "none", visited |-> {}, steady |-> {}]

Post == [slot : {"rpcProgress"}, call : Call, result : Path]
           \cup [slot : {"rpcFinished"}, call : Call]

SearchTypeOK ==
    /\ storage \subseteq Path
    /\ m_pendingRpcHash \subseteq Call
    /\ worker \in [Call -> Worker]
    /\ posted \in Seq(Post)
    /\ answered \subseteq Call
    /\ streamed \in [Call -> SUBSET Path]

Fresh(c) == c \notin m_pendingRpcHash \cup answered

Init ==
    /\ storage \in SUBSET Path
    /\ m_pendingRpcHash = {}
    /\ worker = [c \in Call |-> NoWorker]
    /\ posted = <<>>
    /\ answered = {}
    /\ streamed = [c \in Call |-> {}]

----------------------------------------------------------------------------
(* listStorages, and findDBFile without its parameters: rpcFinished in the *)
(* same call of processEvent.                                              *)
AnsweredAtOnce(c) ==
    /\ Fresh(c)
    /\ answered' = answered \cup {c}
    /\ UNCHANGED <<storage, m_pendingRpcHash, worker, posted, streamed>>

findDBFile(c) ==
    /\ Fresh(c)
    /\ m_pendingRpcHash' = m_pendingRpcHash \cup {c}
    /\ worker' = [worker EXCEPT ![c].phase = "starting", ![c].steady = storage]
    /\ UNCHANGED <<storage, posted, answered, streamed>>

(* The thread's event loop runs startSearch.                               *)
startSearch(c) ==
    /\ worker[c].phase = "starting"
    /\ worker' = [worker EXCEPT ![c].phase = "searching"]
    /\ UNCHANGED <<storage, m_pendingRpcHash, posted, answered, streamed>>

(* The iterator returns a file, which is tested; a database is posted.     *)
(* Faulty variant: every file is posted.                                   *)
Filtered_Default(p) == TRUE
Filtered(p) == p \in Database

IterateNext(c) ==
    /\ worker[c].phase = "searching"
    /\ \E p \in storage \ worker[c].visited :
          /\ worker' = [worker EXCEPT ![c].visited = @ \cup {p}]
          /\ posted' = IF Filtered(p)
                       THEN Append(posted, [slot |-> "rpcProgress", call |-> c, result |-> p])
                       ELSE posted
    /\ UNCHANGED <<storage, m_pendingRpcHash, answered, streamed>>

(* The iterator is through: it has returned every file that stayed.  That  *)
(* the search is finished is posted behind the results.                    *)
(* Faulty variant: rpcFinished is called from the thread.                  *)
postFinished_Direct(c) ==
    /\ m_pendingRpcHash' = m_pendingRpcHash \ {c}
    /\ answered' = answered \cup {c}
    /\ streamed' = [streamed EXCEPT ![c] = {}]
    /\ UNCHANGED posted

(* Faulty variant: the invocation is lost.                                 *)
postFinished_Lost(c) == UNCHANGED <<posted, m_pendingRpcHash, answered, streamed>>

postFinished(c) ==
    /\ posted' = Append(posted, [slot |-> "rpcFinished", call |-> c])
    /\ UNCHANGED <<m_pendingRpcHash, answered, streamed>>

IterateEnd(c) ==
    /\ worker[c].phase = "searching"
    /\ worker[c].steady \subseteq worker[c].visited
    /\ worker' = [worker EXCEPT ![c].phase = "idle"]
    /\ postFinished(c)
    /\ UNCHANGED storage

(* The event loop runs the invocation posted first.                        *)
rpcProgress ==
    /\ posted # <<>> /\ Head(posted).slot = "rpcProgress"
    /\ streamed' = [streamed EXCEPT ![Head(posted).call] = @ \cup {Head(posted).result}]
    /\ posted' = Tail(posted)
    /\ UNCHANGED <<storage, m_pendingRpcHash, worker, answered>>

rpcFinished ==
    /\ posted # <<>> /\ Head(posted).slot = "rpcFinished"
    /\ m_pendingRpcHash' = m_pendingRpcHash \ {Head(posted).call}
    /\ answered' = answered \cup {Head(posted).call}
    /\ streamed' = [streamed EXCEPT ![Head(posted).call] = {}]
    /\ posted' = Tail(posted)
    /\ UNCHANGED <<storage, worker>>

(* Others put a file on the storage or remove one.                         *)
StorageChanges(p) ==
    /\ storage' = IF p \in storage THEN storage \ {p} ELSE storage \cup {p}
    /\ worker' = [c \in Call |-> [worker[c] EXCEPT !.steady = @ \ {p}]]
    /\ UNCHANGED <<m_pendingRpcHash, posted, answered, streamed>>

Next ==
    \/ \E c \in Call : AnsweredAtOnce(c) \/ findDBFile(c) \/ startSearch(c)
                          \/ IterateNext(c) \/ IterateEnd(c)
    \/ rpcProgress \/ rpcFinished
    \/ \E p \in Path : StorageChanges(p)

Spec == Init /\ [][Next]_vars

(* Threads run, and so does the event loop; an iterator that has returned  *)
(* every file that stayed comes to its end.                                *)
FairSpec ==
    /\ Spec
    /\ WF_vars(rpcProgress \/ rpcFinished)
    /\ \A c \in Call : /\ WF_vars(startSearch(c))
                       /\ WF_vars(IterateNext(c))
                       /\ WF_vars(IterateEnd(c))

----------------------------------------------------------------------------
(* What is posted reaches a call that still waits for it, and nothing is   *)
(* posted behind the end of a search: the assertions of rpcFinished and    *)
(* rpcProgress hold however the threads run.                               *)
PostsHaveCall ==
    \A i \in 1..Len(posted) :
        /\ posted[i].call \in m_pendingRpcHash
        /\ posted[i].slot = "rpcFinished" =>
              \A j \in (i+1)..Len(posted) : posted[j].call # posted[i].call

(* No call is orphaned: whoever waits has a worker that is not through, or *)
(* the end of its search is on its way.  (The liveness property below      *)
(* rests on this; it says that both come to an end.)                       *)
PendingIsServed ==
    \A c \in m_pendingRpcHash :
        \/ worker[c].phase \in {"starting", "searching"}
        \/ \E i \in 1..Len(posted) :
              posted[i].slot = "rpcFinished" /\ posted[i].call = c

(* When a search is answered, its client has got every database that was   *)
(* there all the time, and only paths that were databases.                 *)
SearchFindsAll ==
    [][\A c \in m_pendingRpcHash :
          c \notin m_pendingRpcHash' =>
             /\ worker[c].steady \cap Database \subseteq streamed[c]
             /\ streamed[c] \subseteq Database]_vars

(* The searches keep the contract of remote procedures ...                 *)
Status == [c \in Call |-> IF c \in answered THEN "answered"
                          ELSE IF c \in m_pendingRpcHash THEN "pending" ELSE "none"]

Contract == INSTANCE RemoteCalls WITH Result <- Path, status <- Status

KeepsContract == Contract!Spec

(* ... and every one of them is answered.                                  *)
EveryCallAnswered == Contract!EveryCallAnswered
=============================================================================
