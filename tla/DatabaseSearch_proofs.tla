------------------------ MODULE DatabaseSearch_proofs ------------------------
(***************************************************************************)
(* Proofs about DatabaseSearch, for any number of calls and files: what is *)
(* posted reaches a call that waits for it, an answered search found what  *)
(* stayed, and the procedures keep the contract of remote procedures.      *)
(***************************************************************************)
EXTENDS DatabaseSearch, TLAPS

(* A search whose worker is not through is pending, and its end has not    *)
(* been posted; a call is pending or answered, and streams while pending.  *)
WorkerInv ==
    /\ \A c \in Call : worker[c].phase \in {"starting", "searching"} => c \in m_pendingRpcHash
    /\ \A i \in 1..Len(posted) :
          posted[i].slot = "rpcFinished" => worker[posted[i].call].phase = "idle"

CallInv ==
    /\ m_pendingRpcHash \cap answered = {}
    /\ \A c \in Call : c \notin m_pendingRpcHash => streamed[c] = {}

IInv == SearchTypeOK /\ PostsHaveCall /\ WorkerInv /\ CallInv

----------------------------------------------------------------------------
(* The elements of a queue of posts with one more at its end.              *)
LEMMA Appended ==
    ASSUME NEW queue \in Seq(Post), NEW p \in Post
    PROVE  /\ Append(queue, p) \in Seq(Post)
           /\ Len(Append(queue, p)) = Len(queue) + 1
           /\ \A i \in 1..Len(queue) : Append(queue, p)[i] = queue[i]
           /\ Append(queue, p)[Len(queue) + 1] = p
OBVIOUS

(* What the first element of a queue of posts and the rest are.            *)
LEMMA Taken ==
    ASSUME NEW queue \in Seq(Post), queue # <<>>
    PROVE  /\ Tail(queue) \in Seq(Post)
           /\ Len(Tail(queue)) = Len(queue) - 1
           /\ \A i \in 1..Len(Tail(queue)) : Tail(queue)[i] = queue[i + 1]
           /\ Head(queue) = queue[1] /\ 1 \in 1..Len(queue)
OBVIOUS

(* The fields of what is posted.                                           *)
LEMMA PostFields ==
    ASSUME NEW p \in Post
    PROVE  /\ p.call \in Call
           /\ p.slot = "rpcProgress" => p.result \in Path
BY DEF Post

(* A post of a call that is pending and whose worker is searching may be   *)
(* added; when it is the last one, the worker is idle from then on.        *)
LEMMA PostKeeps ==
    ASSUME IInv, NEW c \in Call, NEW p \in Post, p.call = c,
           worker[c].phase = "searching",
           posted' = Append(posted, p), worker' \in [Call -> Worker],
           \A d \in Call : d # c => worker'[d] = worker[d],
           worker'[c].phase = IF p.slot = "rpcFinished" THEN "idle" ELSE "searching",
           UNCHANGED <<storage, m_pendingRpcHash, answered, streamed>>
    PROVE  IInv'
<1>1. posted \in Seq(Post)
  BY DEF IInv, SearchTypeOK
<1>2. /\ posted' \in Seq(Post)
      /\ Len(posted) \in Nat
      /\ Len(posted') = Len(posted) + 1
      /\ \A i \in 1..Len(posted) : posted'[i] = posted[i]
      /\ posted'[Len(posted) + 1] = p
  BY <1>1, Appended
<1>3. SearchTypeOK'
  BY <1>2 DEF IInv, SearchTypeOK
<1>4. \A i \in 1..Len(posted) : posted[i].slot = "rpcFinished" => posted[i].call # c
  BY DEF IInv, WorkerInv
<1>5. c \in m_pendingRpcHash
  BY DEF IInv, WorkerInv
<1>6. PostsHaveCall'
  <2> SUFFICES ASSUME NEW i \in 1..Len(posted')
               PROVE  /\ posted'[i].call \in m_pendingRpcHash
                      /\ posted'[i].slot = "rpcFinished" =>
                            \A j \in (i+1)..Len(posted') : posted'[j].call # posted'[i].call
    BY DEF PostsHaveCall
  <2>1. CASE i = Len(posted) + 1
    BY <1>2, <1>5, <2>1
  <2>2. CASE i # Len(posted) + 1
    <3>1. i \in 1..Len(posted)
      BY <1>2, <2>2
    <3>2. posted[i].call \in m_pendingRpcHash
      BY <3>1 DEF IInv, PostsHaveCall
    <3>3. ASSUME posted[i].slot = "rpcFinished", NEW j \in (i+1)..Len(posted')
          PROVE  posted'[j].call # posted[i].call
      <4>1. CASE j = Len(posted) + 1
        BY <1>2, <1>4, <3>1, <3>3, <4>1
      <4>2. CASE j # Len(posted) + 1
        <5>1. j \in (i+1)..Len(posted) /\ j \in 1..Len(posted)
          BY <1>2, <3>1, <4>2
        <5> QED  BY <1>2, <3>1, <3>3, <5>1 DEF IInv, PostsHaveCall
      <4> QED  BY <4>1, <4>2
    <3> QED  BY <1>2, <3>1, <3>2, <3>3
  <2> QED  BY <2>1, <2>2
<1>7. WorkerInv'
  <2>1. \A d \in Call : worker'[d].phase \in {"starting", "searching"} => d \in m_pendingRpcHash
    BY <1>5 DEF IInv, WorkerInv
  <2>2. ASSUME NEW i \in 1..Len(posted'), posted'[i].slot = "rpcFinished"
        PROVE  worker'[posted'[i].call].phase = "idle"
    <3>1. CASE i = Len(posted) + 1
      BY <1>2, <2>2, <3>1
    <3>2. CASE i # Len(posted) + 1
      <4>1. i \in 1..Len(posted)
        BY <1>2, <3>2
      <4>2. posted'[i] = posted[i] /\ posted[i] \in Post
        BY <1>1, <1>2, <4>1
      <4>3. posted[i].call \in Call /\ posted[i].call # c
        BY <1>4, <2>2, <4>1, <4>2, PostFields
      <4> QED  BY <2>2, <4>1, <4>2, <4>3 DEF IInv, WorkerInv
    <3> QED  BY <3>1, <3>2
  <2> QED  BY <2>1, <2>2 DEF WorkerInv
<1>8. CallInv'
  BY DEF IInv, CallInv
<1> QED  BY <1>3, <1>6, <1>7, <1>8 DEF IInv

(* Steps that leave the queue alone, and do not take a call from it.       *)
LEMMA QueueKept ==
    ASSUME IInv, UNCHANGED posted, SearchTypeOK', CallInv',
           m_pendingRpcHash \subseteq m_pendingRpcHash',
           \A c \in Call : worker'[c].phase \in {"starting", "searching"}
                              => c \in m_pendingRpcHash',
           \A c \in m_pendingRpcHash : worker[c].phase = "idle" => worker'[c].phase = "idle"
    PROVE  IInv'
<1>1. PostsHaveCall'
  BY DEF IInv, PostsHaveCall
<1>2. WorkerInv'
  BY DEF IInv, WorkerInv, PostsHaveCall
<1> QED  BY <1>1, <1>2 DEF IInv

(* The event loop takes the first invocation.                              *)
LEMMA HeadTaken ==
    ASSUME IInv, posted # <<>>, posted' = Tail(posted), UNCHANGED worker,
           SearchTypeOK', CallInv',
           m_pendingRpcHash' = IF Head(posted).slot = "rpcFinished"
                               THEN m_pendingRpcHash \ {Head(posted).call}
                               ELSE m_pendingRpcHash
    PROVE  IInv'
<1>1. posted \in Seq(Post) /\ Len(posted) \in Nat
  BY DEF IInv, SearchTypeOK
<1>2. /\ Len(posted') = Len(posted) - 1
      /\ \A i \in 1..Len(posted') : posted'[i] = posted[i + 1]
      /\ Head(posted) = posted[1] /\ 1 \in 1..Len(posted)
  BY <1>1, Taken
<1>3. \A i \in 1..Len(posted') : i + 1 \in 2..Len(posted) /\ i + 1 \in 1..Len(posted)
  BY <1>1, <1>2
<1>4. posted[1].slot = "rpcFinished" => \A j \in 2..Len(posted) : posted[j].call # posted[1].call
  BY <1>2 DEF IInv, PostsHaveCall
<1>5. PostsHaveCall'
  <2> SUFFICES ASSUME NEW i \in 1..Len(posted')
               PROVE  /\ posted'[i].call \in m_pendingRpcHash'
                      /\ posted'[i].slot = "rpcFinished" =>
                            \A j \in (i+1)..Len(posted') : posted'[j].call # posted'[i].call
    BY DEF PostsHaveCall
  <2>1. posted'[i].call \in m_pendingRpcHash'
    BY <1>2, <1>3, <1>4 DEF IInv, PostsHaveCall
  <2>2. ASSUME posted'[i].slot = "rpcFinished", NEW j \in (i+1)..Len(posted')
        PROVE  posted'[j].call # posted'[i].call
    <3>1. j \in 1..Len(posted') /\ j + 1 \in ((i + 1) + 1)..Len(posted)
      BY <1>1, <1>2
    <3> QED  BY <1>2, <1>3, <2>2, <3>1 DEF IInv, PostsHaveCall
  <2> QED  BY <2>1, <2>2
<1>6. WorkerInv'
  <2>1. ASSUME NEW c \in Call, worker[c].phase \in {"starting", "searching"}
        PROVE  c \in m_pendingRpcHash'
    BY <1>2, <2>1 DEF IInv, WorkerInv
  <2>2. ASSUME NEW i \in 1..Len(posted'), posted'[i].slot = "rpcFinished"
        PROVE  worker'[posted'[i].call].phase = "idle"
    BY <1>2, <1>3, <2>2 DEF IInv, WorkerInv
  <2> QED  BY <2>1, <2>2 DEF WorkerInv
<1> QED  BY <1>5, <1>6 DEF IInv

----------------------------------------------------------------------------
(* The initial state.                                                      *)
LEMMA SearchStart == ASSUME Init PROVE IInv
BY DEF Init, IInv, SearchTypeOK, PostsHaveCall, WorkerInv, CallInv, NoWorker, Worker

(* Every step keeps the invariant.                                         *)
LEMMA SearchKeeps == ASSUME IInv, [Next]_vars PROVE IInv'
<1>1. CASE UNCHANGED vars
  BY <1>1 DEF vars, IInv, SearchTypeOK, PostsHaveCall, WorkerInv, CallInv
<1>2. ASSUME NEW c \in Call, AnsweredAtOnce(c) PROVE IInv'
  <2>1. SearchTypeOK' /\ CallInv'
    BY <1>2 DEF AnsweredAtOnce, Fresh, IInv, SearchTypeOK, CallInv
  <2> QED  BY <1>2, <2>1, QueueKept DEF AnsweredAtOnce, IInv, WorkerInv
<1>3. ASSUME NEW c \in Call, findDBFile(c) PROVE IInv'
  <2>1. worker' = [worker EXCEPT ![c].phase = "starting", ![c].steady = storage]
    BY <1>3 DEF findDBFile
  <2>2. worker' \in [Call -> Worker]
    BY <2>1 DEF IInv, SearchTypeOK, Worker
  <2>3. SearchTypeOK' /\ CallInv'
    BY <1>3, <2>2 DEF findDBFile, Fresh, IInv, SearchTypeOK, CallInv
  <2>4. c \notin m_pendingRpcHash /\ m_pendingRpcHash' = m_pendingRpcHash \cup {c}
    BY <1>3 DEF findDBFile, Fresh
  <2>5. \A d \in Call : d # c => worker'[d] = worker[d]
    BY <2>1 DEF IInv, SearchTypeOK
  <2>6. m_pendingRpcHash \subseteq Call
    BY DEF IInv, SearchTypeOK
  <2>7. UNCHANGED posted
    BY <1>3 DEF findDBFile
  <2>8. \A d \in Call : worker'[d].phase \in {"starting", "searching"} => d \in m_pendingRpcHash'
    BY <2>4, <2>5 DEF IInv, WorkerInv
  <2> QED  BY <2>3, <2>4, <2>5, <2>6, <2>7, <2>8, QueueKept
<1>4. ASSUME NEW c \in Call, startSearch(c) PROVE IInv'
  <2>1. worker' = [worker EXCEPT ![c].phase = "searching"] /\ worker[c].phase = "starting"
    BY <1>4 DEF startSearch
  <2>2. worker' \in [Call -> Worker] /\ \A d \in Call : d # c => worker'[d] = worker[d]
    BY <2>1 DEF IInv, SearchTypeOK, Worker
  <2>3. SearchTypeOK' /\ CallInv'
    BY <1>4, <2>2 DEF startSearch, IInv, SearchTypeOK, CallInv
  <2>4. m_pendingRpcHash \subseteq Call /\ UNCHANGED <<posted, m_pendingRpcHash>>
    BY <1>4 DEF startSearch, IInv, SearchTypeOK
  <2>5. \A d \in Call : worker'[d].phase \in {"starting", "searching"} => d \in m_pendingRpcHash'
    BY <2>1, <2>2, <2>4 DEF IInv, WorkerInv
  <2>6. \A d \in m_pendingRpcHash : worker[d].phase = "idle" => worker'[d].phase = "idle"
    BY <2>1, <2>2, <2>4
  <2> QED  BY <2>3, <2>4, <2>5, <2>6, QueueKept
<1>5. ASSUME NEW c \in Call, IterateNext(c) PROVE IInv'
  <2>1. PICK p \in storage :
           /\ worker' = [worker EXCEPT ![c].visited = @ \cup {p}]
           /\ posted' = IF Filtered(p)
                        THEN Append(posted, [slot |-> "rpcProgress", call |-> c, result |-> p])
                        ELSE posted
    BY <1>5 DEF IterateNext
  <2>2. /\ worker[c].phase = "searching"
        /\ UNCHANGED <<storage, m_pendingRpcHash, answered, streamed>>
    BY <1>5 DEF IterateNext
  <2>3. /\ worker' \in [Call -> Worker]
        /\ \A d \in Call : d # c => worker'[d] = worker[d]
        /\ \A d \in Call : worker'[d].phase = worker[d].phase
    BY <2>1 DEF IInv, SearchTypeOK, Worker
  <2>4. CASE Filtered(p)
    <3>1. [slot |-> "rpcProgress", call |-> c, result |-> p] \in Post
      BY DEF Post, IInv, SearchTypeOK
    <3> DEFINE post == [slot |-> "rpcProgress", call |-> c, result |-> p]
    <3>2. post \in Post /\ post.call = c /\ post.slot = "rpcProgress"
      BY <3>1
    <3>3. posted' = Append(posted, post)
      BY <2>1, <2>4
    <3> HIDE DEF post
    <3> QED  BY <2>2, <2>3, <3>2, <3>3, PostKeeps
  <2>5. CASE ~Filtered(p)
    <3>1. UNCHANGED posted
      BY <2>1, <2>5
    <3>2. SearchTypeOK' /\ CallInv'
      BY <2>2, <2>3, <3>1 DEF IInv, SearchTypeOK, CallInv
    <3>3. \A d \in Call : worker'[d].phase \in {"starting", "searching"} => d \in m_pendingRpcHash'
      BY <2>2, <2>3 DEF IInv, WorkerInv
    <3> QED  BY <2>2, <2>3, <3>1, <3>2, <3>3, QueueKept DEF IInv, SearchTypeOK
  <2> QED  BY <2>4, <2>5
<1>6. ASSUME NEW c \in Call, IterateEnd(c) PROVE IInv'
  <2> DEFINE post == [slot |-> "rpcFinished", call |-> c]
  <2>1. post \in Post /\ post.call = c /\ post.slot = "rpcFinished"
    BY DEF Post
  <2>2. /\ worker[c].phase = "searching"
        /\ worker' = [worker EXCEPT ![c].phase = "idle"]
        /\ posted' = Append(posted, post)
        /\ UNCHANGED <<storage, m_pendingRpcHash, answered, streamed>>
    BY <1>6 DEF IterateEnd, postFinished
  <2>3. /\ worker' \in [Call -> Worker]
        /\ \A d \in Call : d # c => worker'[d] = worker[d]
        /\ worker'[c].phase = "idle"
    BY <2>2 DEF IInv, SearchTypeOK, Worker
  <2> HIDE DEF post
  <2> QED  BY <2>1, <2>2, <2>3, PostKeeps
<1>7. ASSUME rpcProgress \/ rpcFinished PROVE IInv'
  <2>1. posted \in Seq(Post) /\ posted # <<>> /\ posted' = Tail(posted)
    BY <1>7 DEF rpcProgress, rpcFinished, IInv, SearchTypeOK
  <2>2. /\ Head(posted) \in Post /\ posted' \in Seq(Post)
        /\ Head(posted).call \in m_pendingRpcHash
    BY <2>1, Taken DEF IInv, PostsHaveCall
  <2>3. Head(posted).call \in Call
    BY <2>2, PostFields
  <2>4. CASE rpcProgress
    <3>1. Head(posted).result \in Path
      BY <2>2, <2>4, PostFields DEF rpcProgress
    <3>2. SearchTypeOK' /\ CallInv'
      BY <2>2, <2>3, <2>4, <3>1 DEF rpcProgress, IInv, SearchTypeOK, CallInv
    <3>3. Head(posted).slot # "rpcFinished" /\ UNCHANGED <<worker, m_pendingRpcHash>>
      BY <2>4 DEF rpcProgress
    <3> QED  BY <2>1, <3>2, <3>3, HeadTaken
  <2>5. CASE rpcFinished
    <3>1. SearchTypeOK' /\ CallInv'
      BY <2>2, <2>3, <2>5 DEF rpcFinished, IInv, SearchTypeOK, CallInv
    <3>2. /\ Head(posted).slot = "rpcFinished" /\ UNCHANGED worker
          /\ m_pendingRpcHash' = m_pendingRpcHash \ {Head(posted).call}
      BY <2>5 DEF rpcFinished
    <3> QED  BY <2>1, <3>1, <3>2, HeadTaken
  <2> QED  BY <1>7, <2>4, <2>5
<1>8. ASSUME NEW p \in Path, StorageChanges(p) PROVE IInv'
  <2>1. worker' = [c \in Call |-> [worker[c] EXCEPT !.steady = @ \ {p}]]
    BY <1>8 DEF StorageChanges
  <2>2. worker' \in [Call -> Worker] /\ \A c \in Call : worker'[c].phase = worker[c].phase
    BY <2>1 DEF IInv, SearchTypeOK, Worker
  <2>3. SearchTypeOK' /\ CallInv'
    BY <1>8, <2>2 DEF StorageChanges, IInv, SearchTypeOK, CallInv
  <2>4. UNCHANGED <<posted, m_pendingRpcHash>> /\ m_pendingRpcHash \subseteq Call
    BY <1>8 DEF StorageChanges, IInv, SearchTypeOK
  <2>5. \A c \in Call : worker'[c].phase \in {"starting", "searching"} => c \in m_pendingRpcHash'
    BY <2>2, <2>4 DEF IInv, WorkerInv
  <2> QED  BY <2>2, <2>3, <2>4, <2>5, QueueKept
<1> QED  BY <1>1, <1>2, <1>3, <1>4, <1>5, <1>6, <1>7, <1>8 DEF Next

----------------------------------------------------------------------------
(* PostsHaveCall, and the types: the assertions of rpcFinished and         *)
(* rpcProgress hold for any number of concurrent searches.                 *)
THEOREM PostsCorrect == Spec => [](SearchTypeOK /\ PostsHaveCall)
<1>1. Init => IInv
  BY SearchStart
<1>2. IInv /\ [Next]_vars => IInv'
  BY SearchKeeps
<1>3. IInv => SearchTypeOK /\ PostsHaveCall
  BY DEF IInv
<1> QED  BY <1>1, <1>2, <1>3, PTL DEF Spec

(* A step of the searches is a step of the contract, or none of it.        *)
LEMMA StepKeepsContract ==
    ASSUME IInv, [Next]_vars
    PROVE  [Contract!Next]_(Contract!callsVars)
<1> USE DEF Contract!callsVars
<1>1. CASE UNCHANGED vars
  BY <1>1 DEF vars, Status
<1>2. ASSUME NEW c \in Call, AnsweredAtOnce(c) PROVE Contract!Answer(c)
  <2>1. streamed[c] = {} /\ Status[c] = "none"
    BY <1>2 DEF AnsweredAtOnce, Fresh, IInv, CallInv, Status
  <2>2. Status' = [Status EXCEPT ![c] = "answered"]
    BY <1>2 DEF AnsweredAtOnce, Status
  <2>3. streamed' = [streamed EXCEPT ![c] = {}]
    BY <1>2, <2>1 DEF AnsweredAtOnce, IInv, SearchTypeOK
  <2> QED  BY <2>1, <2>2, <2>3 DEF Contract!Answer
<1>3. ASSUME NEW c \in Call, findDBFile(c) PROVE Contract!Take(c)
  <2>1. Status[c] = "none"
    BY <1>3 DEF findDBFile, Fresh, Status
  <2>2. Status' = [Status EXCEPT ![c] = "pending"]
    BY <1>3 DEF findDBFile, Fresh, Status
  <2> QED  BY <1>3, <2>1, <2>2 DEF Contract!Take, findDBFile
<1>4. ASSUME NEW c \in Call, startSearch(c) \/ IterateNext(c) \/ IterateEnd(c)
      PROVE  UNCHANGED <<Status, streamed>>
  BY <1>4 DEF startSearch, IterateNext, IterateEnd, postFinished, Status
<1>5. ASSUME NEW p \in Path, StorageChanges(p) PROVE UNCHANGED <<Status, streamed>>
  BY <1>5 DEF StorageChanges, Status
<1>6. ASSUME rpcProgress \/ rpcFinished
      PROVE  /\ Head(posted).call \in Call
             /\ Head(posted).slot = "rpcProgress" => Head(posted).result \in Path
             /\ Status[Head(posted).call] = "pending"
  <2>1. posted \in Seq(Post) /\ posted # <<>>
    BY <1>6 DEF rpcProgress, rpcFinished, IInv, SearchTypeOK
  <2>2. Head(posted) \in Post /\ Head(posted).call \in m_pendingRpcHash
    BY <2>1, Taken DEF IInv, PostsHaveCall
  <2>3. Head(posted).call \notin answered
    BY <2>2 DEF IInv, CallInv
  <2> QED  BY <2>2, <2>3, PostFields DEF Status
<1>7. CASE rpcProgress
  <2>1. Contract!Progress(Head(posted).call, Head(posted).result)
    BY <1>6, <1>7 DEF Contract!Progress, rpcProgress, Status
  <2> QED  BY <1>6, <1>7, <2>1 DEF Contract!Next, rpcProgress
<1>8. CASE rpcFinished
  <2>1. Status' = [Status EXCEPT ![Head(posted).call] = "answered"]
    BY <1>6, <1>8 DEF rpcFinished, Status
  <2>2. Contract!Answer(Head(posted).call)
    BY <1>6, <1>8, <2>1 DEF Contract!Answer, rpcFinished
  <2> QED  BY <1>6, <1>8, <2>2 DEF Contract!Next
<1> QED  BY <1>1, <1>2, <1>3, <1>4, <1>5, <1>7, <1>8 DEF Next, Contract!Next

(* KeepsContract: every call is taken once, streamed to while it waits,    *)
(* and answered at most once, with nothing after the answer.               *)
THEOREM ContractKept == Spec => KeepsContract
<1>1. Init => Contract!Init
  BY DEF Init, Contract!Init, Status
<1>2. Init => IInv
  BY SearchStart
<1>3. IInv /\ [Next]_vars => IInv'
  BY SearchKeeps
<1>4. IInv /\ [Next]_vars => [Contract!Next]_(Contract!callsVars)
  BY StepKeepsContract
<1> QED  BY <1>1, <1>2, <1>3, <1>4, PTL DEF Spec, KeepsContract, Contract!Spec

----------------------------------------------------------------------------
(***************************************************************************)
(* SearchFindsAll.  A database that the iterator has returned was sent to  *)
(* the client or waits in the queue, and a worker that is through has      *)
(* returned every file that stayed.                                        *)
(***************************************************************************)
Sends(p, c, file) == p.slot = "rpcProgress" /\ p.call = c /\ p.result = file

OnItsWay(c, file) == \E i \in 1..Len(posted) : Sends(posted[i], c, file)

FoundInv ==
    /\ \A c \in Call : Fresh(c) => worker[c].visited = {}
    /\ \A c \in m_pendingRpcHash : \A file \in worker[c].visited \cap Database :
          file \in streamed[c] \/ OnItsWay(c, file)
    /\ \A c \in Call : worker[c].phase = "idle" => worker[c].steady \subseteq worker[c].visited
    /\ \A c \in Call : streamed[c] \subseteq Database
    /\ \A i \in 1..Len(posted) : posted[i].slot = "rpcProgress" => posted[i].result \in Database

(* What waits still waits behind a further invocation.                     *)
LEMMA PostAdded ==
    ASSUME posted \in Seq(Post), NEW p \in Post, posted' = Append(posted, p)
    PROVE  /\ \A c, file : OnItsWay(c, file) => OnItsWay(c, file)'
           /\ \A c, file : Sends(p, c, file) => OnItsWay(c, file)'
           /\ \A i \in 1..Len(posted') : posted'[i] = p \/ \E j \in 1..Len(posted) :
                                                              posted'[i] = posted[j]
<1>1. /\ Len(posted) \in Nat
      /\ Len(posted') = Len(posted) + 1
      /\ \A i \in 1..Len(posted) : posted'[i] = posted[i]
      /\ posted'[Len(posted) + 1] = p
  BY Appended
<1>2. Len(posted) + 1 \in 1..Len(posted')
  BY <1>1
<1>3. \A i \in 1..Len(posted) : i \in 1..Len(posted')
  BY <1>1
<1>4. \A i \in 1..Len(posted') : i \in 1..Len(posted) \/ i = Len(posted) + 1
  BY <1>1
<1> QED  BY <1>1, <1>2, <1>3, <1>4 DEF OnItsWay

(* What waits is the invocation taken, or still waits.                     *)
LEMMA PostTaken ==
    ASSUME posted \in Seq(Post), posted # <<>>, posted' = Tail(posted)
    PROVE  /\ \A c, file : OnItsWay(c, file) => \/ Sends(Head(posted), c, file)
                                                \/ OnItsWay(c, file)'
           /\ \A i \in 1..Len(posted') : \E j \in 1..Len(posted) : posted'[i] = posted[j]
<1>1. /\ Len(posted) \in Nat
      /\ Len(posted') = Len(posted) - 1
      /\ \A i \in 1..Len(posted') : posted'[i] = posted[i + 1]
      /\ Head(posted) = posted[1] /\ 1 \in 1..Len(posted)
  BY Taken
<1>2. \A i \in 1..Len(posted') : i + 1 \in 1..Len(posted)
  BY <1>1
<1>3. ASSUME NEW i \in 1..Len(posted), i # 1
      PROVE  i - 1 \in 1..Len(posted') /\ posted'[i - 1] = posted[i]
  <2>1. i - 1 \in 1..Len(posted') /\ (i - 1) + 1 = i
    BY <1>1, <1>3
  <2> QED  BY <1>1, <2>1
<1> QED  BY <1>1, <1>2, <1>3 DEF OnItsWay

(* Steps that leave the queue and what clients got alone.                  *)
LEMMA FoundKept ==
    ASSUME IInv, FoundInv, UNCHANGED <<posted, streamed>>,
           \A c \in Call : Fresh(c)' => worker'[c].visited = {},
           \A c \in m_pendingRpcHash' :
              \/ worker'[c].visited \cap Database = {}
              \/ /\ c \in m_pendingRpcHash
                 /\ worker'[c].visited \cap Database \subseteq worker[c].visited,
           \A c \in Call : worker'[c].phase = "idle" =>
                              worker'[c].steady \subseteq worker'[c].visited
    PROVE  FoundInv'
<1>1. \A c, file : OnItsWay(c, file)' <=> OnItsWay(c, file)
  BY DEF OnItsWay
<1> QED  BY <1>1 DEF FoundInv

(* The end of a search is answered when everything was sent.               *)
LEMMA EndFindsAll ==
    ASSUME IInv, FoundInv, rpcFinished
    PROVE  LET c == Head(posted).call
           IN /\ c \in m_pendingRpcHash
              /\ worker[c].steady \cap Database \subseteq streamed[c]
              /\ streamed[c] \subseteq Database
<1> DEFINE c == Head(posted).call
<1>1. posted \in Seq(Post) /\ posted # <<>> /\ Head(posted).slot = "rpcFinished"
  BY DEF rpcFinished, IInv, SearchTypeOK
<1>2. /\ Head(posted) = posted[1] /\ 1 \in 1..Len(posted) /\ Len(posted) \in Nat
      /\ posted[1] \in Post
  BY <1>1, Taken
<1>3. c \in Call /\ c \in m_pendingRpcHash /\ worker[c].phase = "idle"
  BY <1>1, <1>2, PostFields DEF IInv, PostsHaveCall, WorkerInv
<1>4. \A file : ~OnItsWay(c, file)
  <2> SUFFICES ASSUME NEW i \in 1..Len(posted), posted[i].slot = "rpcProgress"
               PROVE  posted[i].call # c
    BY DEF OnItsWay, Sends
  <2>1. i \in (1 + 1)..Len(posted)
    BY <1>1, <1>2
  <2> QED  BY <1>1, <1>2, <2>1 DEF IInv, PostsHaveCall
<1>5. worker[c].steady \subseteq worker[c].visited
  BY <1>3 DEF FoundInv
<1>6. worker[c].steady \cap Database \subseteq streamed[c] /\ streamed[c] \subseteq Database
  BY <1>3, <1>4, <1>5 DEF FoundInv
<1> QED  BY <1>3, <1>6

LEMMA FoundKeeps == ASSUME IInv, IInv', FoundInv, [Next]_vars PROVE FoundInv'
<1>1. CASE UNCHANGED vars
  BY <1>1 DEF vars, FoundInv, Fresh, OnItsWay
<1>2. ASSUME NEW c \in Call, AnsweredAtOnce(c) PROVE FoundInv'
  <2>1. /\ UNCHANGED <<storage, m_pendingRpcHash, worker, posted, streamed>>
        /\ answered \subseteq answered'
    BY <1>2 DEF AnsweredAtOnce
  <2> QED  BY <2>1, FoundKept DEF FoundInv, Fresh
<1>3. ASSUME NEW c \in Call, findDBFile(c) PROVE FoundInv'
  <2>1. /\ Fresh(c) /\ m_pendingRpcHash' = m_pendingRpcHash \cup {c}
        /\ worker' = [worker EXCEPT ![c].phase = "starting", ![c].steady = storage]
        /\ UNCHANGED <<posted, answered, streamed>>
    BY <1>3 DEF findDBFile
  <2>2. /\ worker'[c].phase = "starting"
        /\ \A d \in Call : worker'[d].visited = worker[d].visited
        /\ \A d \in Call : d # c => worker'[d] = worker[d]
    BY <2>1 DEF IInv, SearchTypeOK, Worker
  <2>3. \A d \in Call : Fresh(d)' => Fresh(d)
    BY <2>1 DEF Fresh
  <2>4. worker'[c].visited = {}
    BY <2>1, <2>2 DEF FoundInv
  <2>5. m_pendingRpcHash \subseteq Call
    BY DEF IInv, SearchTypeOK
  <2> QED  BY <2>1, <2>2, <2>3, <2>4, <2>5, FoundKept DEF FoundInv
<1>4. ASSUME NEW c \in Call, startSearch(c) PROVE FoundInv'
  <2>1. /\ worker' = [worker EXCEPT ![c].phase = "searching"]
        /\ UNCHANGED <<m_pendingRpcHash, posted, answered, streamed>>
    BY <1>4 DEF startSearch
  <2>2. /\ worker'[c].phase = "searching"
        /\ \A d \in Call : worker'[d].visited = worker[d].visited
        /\ \A d \in Call : d # c => worker'[d] = worker[d]
    BY <2>1 DEF IInv, SearchTypeOK, Worker
  <2>3. m_pendingRpcHash \subseteq Call
    BY DEF IInv, SearchTypeOK
  <2> QED  BY <2>1, <2>2, <2>3, FoundKept DEF FoundInv, Fresh
<1>5. ASSUME NEW c \in Call, IterateNext(c) PROVE FoundInv'
  <2>1. PICK file \in storage :
           /\ worker' = [worker EXCEPT ![c].visited = @ \cup {file}]
           /\ posted' = IF Filtered(file)
                        THEN Append(posted, [slot |-> "rpcProgress", call |-> c,
                                             result |-> file])
                        ELSE posted
    BY <1>5 DEF IterateNext
  <2>2. /\ worker[c].phase = "searching" /\ c \in m_pendingRpcHash
        /\ UNCHANGED <<storage, m_pendingRpcHash, answered, streamed>>
    BY <1>5 DEF IterateNext, IInv, WorkerInv
  <2>3. /\ worker'[c].visited = worker[c].visited \cup {file}
        /\ worker'[c].phase = "searching"
        /\ \A d \in Call : d # c => worker'[d] = worker[d]
    BY <2>1, <2>2 DEF IInv, SearchTypeOK, Worker
  <2>4. m_pendingRpcHash \subseteq Call /\ posted \in Seq(Post) /\ file \in Path
    BY DEF IInv, SearchTypeOK
  <2>5. ~Fresh(c)' /\ \A d \in Call : Fresh(d)' => Fresh(d)
    BY <2>2 DEF Fresh
  <2>6. CASE file \in Database
    <3> DEFINE post == [slot |-> "rpcProgress", call |-> c, result |-> file]
    <3>1. post \in Post /\ Sends(post, c, file) /\ post.result = file
      BY <2>4 DEF Post, Sends
    <3>2. posted' = Append(posted, post)
      BY <2>1, <2>6 DEF Filtered
    <3> HIDE DEF post
    <3>3. /\ \A d, g : OnItsWay(d, g) => OnItsWay(d, g)'
          /\ OnItsWay(c, file)'
          /\ \A i \in 1..Len(posted') : posted'[i] = post \/ \E j \in 1..Len(posted) :
                                                              posted'[i] = posted[j]
      BY <2>4, <3>1, <3>2, PostAdded
    <3>4. \A d \in m_pendingRpcHash : \A g \in worker'[d].visited \cap Database :
             g \in streamed[d] \/ OnItsWay(d, g)'
      <4> SUFFICES ASSUME NEW d \in m_pendingRpcHash,
                          NEW g \in worker'[d].visited \cap Database
                   PROVE  g \in streamed[d] \/ OnItsWay(d, g)'
        OBVIOUS
      <4>1. CASE d = c /\ g = file
        BY <3>3, <4>1
      <4>2. CASE ~(d = c /\ g = file)
        <5>1. g \in worker[d].visited \cap Database
          BY <2>3, <2>4, <4>2
        <5> QED  BY <3>3, <5>1 DEF FoundInv
      <4> QED  BY <4>1, <4>2
    <3>5. \A d \in Call : Fresh(d)' => worker'[d].visited = {}
      BY <2>3, <2>5 DEF FoundInv
    <3>6. \A d \in Call : worker'[d].phase = "idle" =>
                             worker'[d].steady \subseteq worker'[d].visited
      BY <2>3 DEF FoundInv
    <3>7. \A i \in 1..Len(posted') :
             posted'[i].slot = "rpcProgress" => posted'[i].result \in Database
      BY <2>6, <3>1, <3>3 DEF FoundInv
    <3> QED  BY <2>2, <3>4, <3>5, <3>6, <3>7 DEF FoundInv
  <2>7. CASE file \notin Database
    <3>1. UNCHANGED posted
      BY <2>1, <2>7 DEF Filtered
    <3>2. \A d \in m_pendingRpcHash : worker'[d].visited \cap Database \subseteq worker[d].visited
      BY <2>3, <2>4, <2>7
    <3>3. \A d \in Call : Fresh(d)' => worker'[d].visited = {}
      BY <2>3, <2>5 DEF FoundInv
    <3>4. \A d \in Call : worker'[d].phase = "idle" =>
                             worker'[d].steady \subseteq worker'[d].visited
      BY <2>3 DEF FoundInv
    <3> QED  BY <2>2, <3>1, <3>2, <3>3, <3>4, FoundKept
  <2> QED  BY <2>6, <2>7
<1>6. ASSUME NEW c \in Call, IterateEnd(c) PROVE FoundInv'
  <2> DEFINE post == [slot |-> "rpcFinished", call |-> c]
  <2>1. post \in Post /\ post.slot = "rpcFinished"
    BY DEF Post
  <2>2. /\ worker[c].steady \subseteq worker[c].visited
        /\ worker' = [worker EXCEPT ![c].phase = "idle"]
        /\ posted' = Append(posted, post)
        /\ UNCHANGED <<m_pendingRpcHash, answered, streamed>>
    BY <1>6 DEF IterateEnd, postFinished
  <2> HIDE DEF post
  <2>3. /\ \A d \in Call : worker'[d].visited = worker[d].visited
        /\ \A d \in Call : worker'[d].steady = worker[d].steady
        /\ \A d \in Call : d # c => worker'[d] = worker[d]
    BY <2>2 DEF IInv, SearchTypeOK, Worker
  <2>4. m_pendingRpcHash \subseteq Call /\ posted \in Seq(Post)
    BY DEF IInv, SearchTypeOK
  <2>5. /\ \A d, g : OnItsWay(d, g) => OnItsWay(d, g)'
        /\ \A i \in 1..Len(posted') : posted'[i] = post \/ \E j \in 1..Len(posted) :
                                                            posted'[i] = posted[j]
    BY <2>1, <2>2, <2>4, PostAdded
  <2>6. \A d \in m_pendingRpcHash : \A g \in worker'[d].visited \cap Database :
           g \in streamed[d] \/ OnItsWay(d, g)'
    BY <2>3, <2>4, <2>5 DEF FoundInv
  <2>7. \A d \in Call : worker'[d].phase = "idle" =>
                           worker'[d].steady \subseteq worker'[d].visited
    BY <2>2, <2>3 DEF FoundInv
  <2>8. \A i \in 1..Len(posted') :
           posted'[i].slot = "rpcProgress" => posted'[i].result \in Database
    BY <2>1, <2>5 DEF FoundInv
  <2> QED  BY <2>2, <2>3, <2>6, <2>7, <2>8 DEF FoundInv, Fresh
<1>7. CASE rpcProgress
  <2> DEFINE c == Head(posted).call
             file == Head(posted).result
  <2>1. /\ posted \in Seq(Post) /\ posted # <<>> /\ posted' = Tail(posted)
        /\ Head(posted).slot = "rpcProgress"
        /\ streamed' = [streamed EXCEPT ![c] = @ \cup {file}]
        /\ UNCHANGED <<m_pendingRpcHash, worker, answered>>
    BY <1>7 DEF rpcProgress, IInv, SearchTypeOK
  <2>2. /\ Head(posted) = posted[1] /\ 1 \in 1..Len(posted) /\ posted[1] \in Post
        /\ c \in Call /\ file \in Database
    BY <2>1, Taken, PostFields DEF FoundInv
  <2>3. /\ streamed'[c] = streamed[c] \cup {file}
        /\ \A d \in Call : d # c => streamed'[d] = streamed[d]
    BY <2>1, <2>2 DEF IInv, SearchTypeOK
  <2>4. \A d, g : OnItsWay(d, g) => (d = c /\ g = file) \/ OnItsWay(d, g)'
    BY <2>1, PostTaken DEF Sends
  <2>5. \A i \in 1..Len(posted') : \E j \in 1..Len(posted) : posted'[i] = posted[j]
    BY <2>1, PostTaken
  <2> HIDE DEF c, file
  <2>6. \A d \in m_pendingRpcHash : \A g \in worker[d].visited \cap Database :
           g \in streamed'[d] \/ OnItsWay(d, g)'
    <3> SUFFICES ASSUME NEW d \in m_pendingRpcHash, NEW g \in worker[d].visited \cap Database
                 PROVE  g \in streamed'[d] \/ OnItsWay(d, g)'
      OBVIOUS
    <3>1. d \in Call /\ (g \in streamed[d] \/ OnItsWay(d, g))
      BY DEF FoundInv, IInv, SearchTypeOK
    <3> QED  BY <2>3, <2>4, <3>1
  <2>7. \A d \in Call : streamed'[d] \subseteq Database
    BY <2>2, <2>3 DEF FoundInv
  <2>8. \A i \in 1..Len(posted') :
           posted'[i].slot = "rpcProgress" => posted'[i].result \in Database
    BY <2>5 DEF FoundInv
  <2> QED  BY <2>1, <2>6, <2>7, <2>8 DEF FoundInv, Fresh
<1>8. CASE rpcFinished
  <2> DEFINE c == Head(posted).call
  <2>1. /\ posted \in Seq(Post) /\ posted # <<>> /\ posted' = Tail(posted)
        /\ Head(posted).slot = "rpcFinished"
        /\ m_pendingRpcHash' = m_pendingRpcHash \ {c}
        /\ answered' = answered \cup {c}
        /\ streamed' = [streamed EXCEPT ![c] = {}]
        /\ UNCHANGED worker
    BY <1>8 DEF rpcFinished, IInv, SearchTypeOK
  <2>2. \A d \in Call : d # c => streamed'[d] = streamed[d]
    BY <2>1 DEF IInv, SearchTypeOK
  <2>3. \A d \in Call : streamed'[d] \subseteq Database
    BY <2>1 DEF IInv, SearchTypeOK, FoundInv
  <2>4. \A d, g : OnItsWay(d, g) => OnItsWay(d, g)'
    BY <2>1, PostTaken DEF Sends
  <2>5. \A i \in 1..Len(posted') : \E j \in 1..Len(posted) : posted'[i] = posted[j]
    BY <2>1, PostTaken
  <2> HIDE DEF c
  <2>6. \A d \in m_pendingRpcHash' : \A g \in worker[d].visited \cap Database :
           g \in streamed'[d] \/ OnItsWay(d, g)'
    BY <2>1, <2>2, <2>4 DEF FoundInv, IInv, SearchTypeOK
  <2>7. \A i \in 1..Len(posted') :
           posted'[i].slot = "rpcProgress" => posted'[i].result \in Database
    BY <2>5 DEF FoundInv
  <2>8. \A d \in Call : Fresh(d)' => Fresh(d)
    BY <2>1 DEF Fresh
  <2> QED  BY <2>1, <2>3, <2>6, <2>7, <2>8 DEF FoundInv
<1>9. ASSUME NEW p \in Path, StorageChanges(p) PROVE FoundInv'
  <2>1. /\ worker' = [c \in Call |-> [worker[c] EXCEPT !.steady = @ \ {p}]]
        /\ UNCHANGED <<m_pendingRpcHash, posted, answered, streamed>>
    BY <1>9 DEF StorageChanges
  <2>2. \A c \in Call : /\ worker'[c].phase = worker[c].phase
                        /\ worker'[c].visited = worker[c].visited
                        /\ worker'[c].steady \subseteq worker[c].steady
    BY <2>1 DEF IInv, SearchTypeOK, Worker
  <2>3. m_pendingRpcHash \subseteq Call
    BY DEF IInv, SearchTypeOK
  <2> QED  BY <2>1, <2>2, <2>3, FoundKept DEF FoundInv, Fresh
<1> QED  BY <1>1, <1>2, <1>3, <1>4, <1>5, <1>6, <1>7, <1>8, <1>9 DEF Next

(* When a search is answered, its client has got every database that was   *)
(* there all the time, and only paths that were databases.                 *)
THEOREM SearchesComplete == Spec => SearchFindsAll
<1>1. Init => IInv
  BY SearchStart
<1>2. IInv /\ [Next]_vars => IInv'
  BY SearchKeeps
<1>3. Init => FoundInv
  <2> SUFFICES ASSUME Init PROVE FoundInv
    OBVIOUS
  <2>1. \A c \in Call : worker[c] = NoWorker /\ streamed[c] = {}
    BY DEF Init
  <2>2. m_pendingRpcHash = {} /\ Len(posted) = 0
    BY DEF Init
  <2> QED  BY <2>1, <2>2 DEF FoundInv, NoWorker
<1>4. IInv /\ IInv' /\ FoundInv /\ [Next]_vars => FoundInv'
  BY FoundKeeps
<1>5. IInv /\ FoundInv /\ [Next]_vars
         => [\A c \in m_pendingRpcHash :
                c \notin m_pendingRpcHash' =>
                   /\ worker[c].steady \cap Database \subseteq streamed[c]
                   /\ streamed[c] \subseteq Database]_vars
  <2> SUFFICES ASSUME IInv, FoundInv, Next,
                      NEW c \in m_pendingRpcHash, c \notin m_pendingRpcHash'
               PROVE  /\ worker[c].steady \cap Database \subseteq streamed[c]
                      /\ streamed[c] \subseteq Database
    OBVIOUS
  <2>1. rpcFinished
    BY DEF Next, AnsweredAtOnce, findDBFile, startSearch, IterateNext, IterateEnd,
           postFinished, rpcProgress, StorageChanges
  <2>2. c = Head(posted).call
    BY <2>1 DEF rpcFinished
  <2> QED  BY <2>1, <2>2, EndFindsAll
<1> QED  BY <1>1, <1>2, <1>3, <1>4, <1>5, PTL DEF Spec, SearchFindsAll

----------------------------------------------------------------------------
(* That the end of a search is on its way, and what keeps it there: a post *)
(* behind it, and the event loop taking another post.                      *)
EndPosted(c) == \E i \in 1..Len(posted) :
                   posted[i].slot = "rpcFinished" /\ posted[i].call = c

LEMMA EndStaysPosted ==
    ASSUME posted \in Seq(Post), NEW c, EndPosted(c),
           NEW p \in Post, posted' = Append(posted, p)
    PROVE  EndPosted(c)'
<1>1. PICK i \in 1..Len(posted) : posted[i].slot = "rpcFinished" /\ posted[i].call = c
  BY DEF EndPosted
<1>2. i \in 1..Len(posted') /\ posted'[i] = posted[i]
  BY <1>1, Appended
<1> QED  BY <1>1, <1>2 DEF EndPosted

LEMMA EndMovesUp ==
    ASSUME posted \in Seq(Post), posted # <<>>, NEW c, EndPosted(c),
           posted' = Tail(posted),
           ~(Head(posted).slot = "rpcFinished" /\ Head(posted).call = c)
    PROVE  EndPosted(c)'
<1>1. PICK i \in 1..Len(posted) : posted[i].slot = "rpcFinished" /\ posted[i].call = c
  BY DEF EndPosted
<1>2. /\ Len(posted') = Len(posted) - 1
      /\ \A k \in 1..Len(posted') : posted'[k] = posted[k + 1]
      /\ Head(posted) = posted[1] /\ Len(posted) \in Nat
  BY Taken
<1>3. i # 1
  BY <1>1, <1>2
<1>4. i - 1 \in 1..Len(posted') /\ posted'[i - 1] = posted[i]
  BY <1>2, <1>3
<1> QED  BY <1>1, <1>4 DEF EndPosted

(* Every step leaves each waiting call a worker or the end of its search.  *)
LEMMA ServedKeeps == ASSUME IInv, PendingIsServed, [Next]_vars PROVE PendingIsServed'
<1> DEFINE Works(c) == worker[c].phase \in {"starting", "searching"}
<1>1. /\ m_pendingRpcHash \subseteq Call /\ posted \in Seq(Post)
      /\ worker \in [Call -> Worker]
  BY DEF IInv, SearchTypeOK
<1>2. \A c \in m_pendingRpcHash : Works(c) \/ EndPosted(c)
  BY DEF PendingIsServed, EndPosted
<1> SUFFICES ASSUME NEW c \in m_pendingRpcHash' PROVE Works(c)' \/ EndPosted(c)'
  BY DEF PendingIsServed, EndPosted
<1>3. CASE UNCHANGED vars
  BY <1>2, <1>3 DEF vars, EndPosted
<1>4. ASSUME NEW d \in Call, AnsweredAtOnce(d) PROVE Works(c)' \/ EndPosted(c)'
  BY <1>2, <1>4 DEF AnsweredAtOnce, EndPosted
<1>5. ASSUME NEW d \in Call, findDBFile(d) PROVE Works(c)' \/ EndPosted(c)'
  <2>1. /\ m_pendingRpcHash' = m_pendingRpcHash \cup {d} /\ UNCHANGED posted
        /\ worker'[d].phase = "starting"
        /\ \A e \in Call : e # d => worker'[e] = worker[e]
    BY <1>1, <1>5 DEF findDBFile, Worker
  <2> QED  BY <1>1, <1>2, <2>1 DEF EndPosted
<1>6. ASSUME NEW d \in Call, startSearch(d) PROVE Works(c)' \/ EndPosted(c)'
  <2>1. /\ UNCHANGED <<m_pendingRpcHash, posted>>
        /\ worker'[d].phase = "searching"
        /\ \A e \in Call : e # d => worker'[e] = worker[e]
    BY <1>1, <1>6 DEF startSearch, Worker
  <2> QED  BY <1>1, <1>2, <2>1 DEF EndPosted
<1>7. ASSUME NEW d \in Call, IterateNext(d) PROVE Works(c)' \/ EndPosted(c)'
  <2>1. PICK p \in storage :
           /\ worker' = [worker EXCEPT ![d].visited = @ \cup {p}]
           /\ posted' = IF Filtered(p)
                        THEN Append(posted, [slot |-> "rpcProgress", call |-> d, result |-> p])
                        ELSE posted
    BY <1>7 DEF IterateNext
  <2>2. [slot |-> "rpcProgress", call |-> d, result |-> p] \in Post
    BY DEF Post, IInv, SearchTypeOK
  <2>3. UNCHANGED m_pendingRpcHash /\ \A e \in Call : worker'[e].phase = worker[e].phase
    BY <1>1, <1>7, <2>1 DEF IterateNext, Worker
  <2>4. EndPosted(c) => EndPosted(c)'
    <3>1. CASE Filtered(p)
      BY <1>1, <2>1, <2>2, <3>1, EndStaysPosted
    <3>2. CASE ~Filtered(p)
      BY <2>1, <3>2 DEF EndPosted
    <3> QED  BY <3>1, <3>2
  <2> QED  BY <1>1, <1>2, <2>3, <2>4
<1>8. ASSUME NEW d \in Call, IterateEnd(d) PROVE Works(c)' \/ EndPosted(c)'
  <2> DEFINE post == [slot |-> "rpcFinished", call |-> d]
  <2>1. /\ UNCHANGED m_pendingRpcHash /\ posted' = Append(posted, post)
        /\ \A e \in Call : e # d => worker'[e] = worker[e]
    BY <1>1, <1>8 DEF IterateEnd, postFinished
  <2>2. post \in Post /\ post.slot = "rpcFinished" /\ post.call = d
    BY DEF Post
  <2> HIDE DEF post
  <2>3. CASE c = d
    <3>1. Len(posted) + 1 \in 1..Len(posted') /\ posted'[Len(posted) + 1] = post
      BY <1>1, <2>1, <2>2, Appended
    <3> QED  BY <2>2, <2>3, <3>1 DEF EndPosted
  <2>4. CASE c # d
    BY <1>1, <1>2, <2>1, <2>2, <2>4, EndStaysPosted
  <2> QED  BY <2>3, <2>4
<1>9. CASE rpcProgress
  <2>1. /\ posted # <<>> /\ Head(posted).slot # "rpcFinished" /\ posted' = Tail(posted)
        /\ UNCHANGED <<m_pendingRpcHash, worker>>
    BY <1>9 DEF rpcProgress
  <2> QED  BY <1>1, <1>2, <2>1, EndMovesUp
<1>10. CASE rpcFinished
  <2>1. /\ posted # <<>> /\ posted' = Tail(posted) /\ UNCHANGED worker
        /\ m_pendingRpcHash' = m_pendingRpcHash \ {Head(posted).call}
    BY <1>10 DEF rpcFinished
  <2> QED  BY <1>1, <1>2, <2>1, EndMovesUp
<1>11. ASSUME NEW p \in Path, StorageChanges(p) PROVE Works(c)' \/ EndPosted(c)'
  <2>1. /\ UNCHANGED <<m_pendingRpcHash, posted>>
        /\ \A e \in Call : worker'[e].phase = worker[e].phase
    BY <1>1, <1>11 DEF StorageChanges, Worker
  <2> QED  BY <1>1, <1>2, <2>1 DEF EndPosted
<1> QED
  BY <1>3, <1>4, <1>5, <1>6, <1>7, <1>8, <1>9, <1>10, <1>11 DEF Next

(* No call is orphaned, however many threads search and whatever happens   *)
(* to the storage meanwhile.                                               *)
THEOREM ServedCorrect == Spec => []PendingIsServed
<1>1. Init => IInv /\ PendingIsServed
  BY SearchStart DEF Init, PendingIsServed
<1>2. IInv /\ [Next]_vars => IInv'
  BY SearchKeeps
<1>3. IInv /\ PendingIsServed /\ [Next]_vars => PendingIsServed'
  BY ServedKeeps
<1> QED  BY <1>1, <1>2, <1>3, PTL DEF Spec
=============================================================================
