-------------------------- MODULE SessionLifecycle ---------------------------
(***************************************************************************)
(* What the module manager promises, without locks, queues, licenses and   *)
(* signals: at any time the modules of one session run; they come up one   *)
(* after the other; another session is only taken while nothing is coming  *)
(* up or going down, and its first module comes up when the last module of *)
(* the session before it is gone.                                          *)
(***************************************************************************)
CONSTANTS Entry,      \* the modules, records with a field session
          Session, NoSession

VARIABLES
    session,
    alive,      \* modules that exist
    starting,   \* the one that is coming up, if any
    retiring,   \* modules that are going down
    accepting   \* a request to switch the session will be looked at

LifecycleTypeOK ==
    /\ session \in Session \cup {NoSession}
    /\ alive \subseteq Entry
    /\ starting \subseteq alive
    /\ retiring \subseteq alive
    /\ accepting \in BOOLEAN

LifecycleInit ==
    /\ session \in Session \cup {NoSession}
    /\ alive = {}
    /\ starting = {}
    /\ retiring = {}
    /\ accepting = FALSE

(* A further module comes up beside those that stay, or none does and the  *)
(* program may begin to listen.                                            *)
StartOne(stay) ==
    \E e \in Entry \ stay :
        /\ e.session = session
        /\ \A f \in stay : f.session = session
        /\ ~accepting
        /\ starting' = {e}
        /\ alive' = stay \cup {e}
        /\ UNCHANGED accepting

StartNone(stay) ==
    /\ starting' = {}
    /\ alive' = stay
    /\ accepting => accepting'
    /\ accepting' \in BOOLEAN

Begin ==
    /\ starting = {}
    /\ retiring = {}
    /\ StartOne(alive)
    /\ UNCHANGED <<session, retiring>>

Finish ==
    /\ starting # {}
    /\ StartOne(alive) \/ StartNone(alive)
    /\ UNCHANGED <<session, retiring>>

Settle ==
    /\ starting = {}
    /\ retiring = {}
    /\ StartNone(alive)
    /\ UNCHANGED <<session, retiring>>

Switch(s) ==
    /\ accepting
    /\ s # session
    /\ session' = s
    /\ retiring' = alive
    /\ accepting' = FALSE
    /\ UNCHANGED <<alive, starting>>

Refuse ==
    /\ accepting
    /\ accepting' = FALSE
    /\ UNCHANGED <<session, alive, starting, retiring>>

Retire(e) ==
    /\ e \in retiring
    /\ starting = {}
    /\ retiring' = retiring \ {e}
    /\ \/ StartNone(alive \ {e}) /\ (retiring' # {} => UNCHANGED accepting)
       \/ retiring' = {} /\ StartOne(alive \ {e})
    /\ UNCHANGED session

LifecycleNext ==
    \/ Begin
    \/ Finish
    \/ Settle
    \/ \E s \in Session : Switch(s)
    \/ Refuse
    \/ \E e \in Entry : Retire(e)

LifecycleSpec ==
    LifecycleInit /\ [][LifecycleNext]_<<session, alive, starting, retiring, accepting>>
=============================================================================
