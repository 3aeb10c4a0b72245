----------------------------- MODULE RemoteCalls -----------------------------
(***************************************************************************)
(* What a client of a remote procedure relies on, wherever the procedure   *)
(* is implemented: a call is taken once; results may be streamed to it     *)
(* only while it is pending, and no result is taken back; then it is       *)
(* answered, once, and nothing follows.  The rpcFinished and rpcProgress   *)
(* of CustomerDataSystem and of ZeraDBLogger assert their part of this.    *)
(***************************************************************************)
CONSTANTS Call, Result

VARIABLES
    status,    \* call -> "none", "pending" or "answered"
    streamed   \* call -> the results streamed to it while it is pending

callsVars == <<status, streamed>>

Init ==
    /\ status = [c \in Call |-> "none"]
    /\ streamed = [c \in Call |-> {}]

Take(c) ==
    /\ status[c] = "none"
    /\ status' = [status EXCEPT ![c] = "pending"]
    /\ UNCHANGED streamed

Progress(c, r) ==
    /\ status[c] = "pending"
    /\ streamed' = [streamed EXCEPT ![c] = @ \cup {r}]
    /\ UNCHANGED status

(* The answer ends the call; a procedure may give it as it takes the call. *)
Answer(c) ==
    /\ status[c] \in {"none", "pending"}
    /\ status' = [status EXCEPT ![c] = "answered"]
    /\ streamed' = [streamed EXCEPT ![c] = {}]

Next == \E c \in Call : Take(c) \/ Answer(c) \/ \E r \in Result : Progress(c, r)

Spec == Init /\ [][Next]_callsVars

EveryCallAnswered == \A c \in Call : (status[c] = "pending") ~> (status[c] = "answered")
=============================================================================
