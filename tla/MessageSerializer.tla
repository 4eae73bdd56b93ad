-------------------------- MODULE MessageSerializer --------------------------
(***************************************************************************)
(* The message serializer of src/raftengine/deck/deck.py at the            *)
(* granularity of its awaits.  Deck.on_message starts a task per message;  *)
(* inner_on_message queues the message in active_messages, waits on        *)
(* active_condition until it is the first one, runs the role's handler     *)
(* and notifies the others.  A handler that demotes its role calls         *)
(* inner_on_message again, for the same message, from within.              *)
(***************************************************************************)
EXTENDS Naturals, Sequences, SequencesExt

CONSTANTS
    Msg,      \* messages that come in, each once
    Demoting  \* those whose handler ends in demote_and_handle

ASSUME DemotingAssumption == Demoting \subseteq Msg

VARIABLES
    active,  \* the keys of deck.active_messages, in insertion order
    state,   \* where the task of a message is
    inner,   \* whether that is in the nested call
    woken    \* waiting tasks that notify_all has reached

vars == <<active, state, inner, woken>>

States == {"new", "waiting", "handling", "returning", "done", "lost"}

Waiting == {m \in Msg : state[m] = "waiting"}

Init ==
    /\ active = <<>>
    /\ state = [m \in Msg |-> "new"]
    /\ inner = [m \in Msg |-> FALSE]
    /\ woken = {}

\* Mutant of Enter: the key is added a second time by the nested call
EnterTwice(m) ==
    /\ active' = Append(active, m)
    /\ state' = [state EXCEPT ![m] = IF Len(active') > 1 THEN "waiting" ELSE "handling"]

\* The first block of inner_on_message: a key that is present keeps its place
Enter(m) ==
    /\ active' = IF Contains(active, m) THEN active ELSE Append(active, m)
    /\ state' = [state EXCEPT ![m] = IF Len(active') > 1 THEN "waiting" ELSE "handling"]

\* on_message: create_task(inner_on_message)
Arrive(m) ==
    /\ state[m] = "new"
    /\ Enter(m)
    /\ UNCHANGED <<inner, woken>>

\* The handler calls demote_and_handle, which calls inner_on_message
Demote(m) ==
    /\ m \in Demoting
    /\ state[m] = "handling" /\ ~inner[m]
    /\ Enter(m)
    /\ inner' = [inner EXCEPT ![m] = TRUE]
    /\ UNCHANGED woken

\* Mutant of WakeUp: whoever is woken goes ahead
WakeUpAnyway(m) ==
    /\ m \in woken
    /\ woken' = woken \ {m}
    /\ state' = [state EXCEPT ![m] = "handling"]
    /\ UNCHANGED <<active, inner>>

\* active_condition.wait() returns: go ahead if first, wait again if not
WakeUp(m) ==
    /\ m \in woken
    /\ woken' = woken \ {m}
    /\ state' = [state EXCEPT ![m] = IF Head(active) = m THEN "handling" ELSE @]
    /\ UNCHANGED <<active, inner>>

\* wait_for raises TimeoutError.  The exception of an outer call ends its
\* task and its key stays; that of a nested call is caught by the outer one.
TimeOut(m) ==
    /\ state[m] = "waiting"
    /\ state' = [state EXCEPT ![m] = IF inner[m] THEN "returning" ELSE "lost"]
    /\ inner' = [inner EXCEPT ![m] = FALSE]
    /\ woken' = woken \ {m}
    /\ UNCHANGED active

\* Mutant of Leave: without notify_all
LeaveSilently(m) ==
    /\ \/ state[m] = "handling" /\ (inner[m] \/ m \notin Demoting)
       \/ state[m] = "returning"
    /\ active' = Remove(active, m)
    /\ state' = [state EXCEPT ![m] = IF inner[m] THEN "returning" ELSE "done"]
    /\ inner' = [inner EXCEPT ![m] = FALSE]
    /\ UNCHANGED woken

\* The last block of inner_on_message, after the handler returned or raised.
\* The outer call of a nested one may find its key gone.
Leave(m) ==
    /\ \/ state[m] = "handling" /\ (inner[m] \/ m \notin Demoting)
       \/ state[m] = "returning"
    /\ active' = Remove(active, m)
    /\ state' = [state EXCEPT ![m] = IF inner[m] THEN "returning" ELSE "done"]
    /\ inner' = [inner EXCEPT ![m] = FALSE]
    /\ woken' = Waiting

Next ==
    \/ \E m \in Msg : Arrive(m)
    \/ \E m \in Msg : Demote(m)
    \/ \E m \in Msg : WakeUp(m)
    \/ \E m \in Msg : TimeOut(m)
    \/ \E m \in Msg : Leave(m)

\* The event loop runs every task that is ready, and handlers return
Fairness == \A m \in Msg : WF_vars(Demote(m) \/ WakeUp(m) \/ Leave(m))

Spec == Init /\ [][Next]_vars /\ Fairness

\* ... and message_serializer_timeout expires for who waits long enough
TimedSpec == Spec /\ \A m \in Msg : WF_vars(TimeOut(m))
-----------------------------------------------------------------------------
\* Types, and that a message between its first and its last block has its key
\* in active_messages once and only a waiting one is woken
TypeOK ==
    /\ active \in Seq(Msg)
    /\ \A a, b \in DOMAIN active : active[a] = active[b] => a = b
    /\ state \in [Msg -> States]
    /\ inner \in [Msg -> BOOLEAN]
    /\ woken \subseteq Waiting
    /\ \A m \in Msg : state[m] \in {"waiting", "handling"} => Contains(active, m)

Queue == INSTANCE MessageQueue WITH
    waiting <- SelectSeq(active, LAMBDA m : state[m] = "waiting" /\ ~inner[m]),
    current <- {m \in Msg : state[m] = "handling" \/ inner[m]}

\* inner_on_message "serializes message handling to FIFO order": one message
\* at a time in order of arrival, timeouts and nested calls included.
HandledInOrder == Queue!Spec

\* While no wait times out and no nested call has to wait, every message that
\* has come is handled to the end: notify_all reaches the task that is first
\* by then, also after a nested call has notified for the same message.
EveryMessageHandled ==
    [](\A m \in Msg : state[m] # "lost" /\ ~(inner[m] /\ state[m] = "waiting"))
    => \A m \in Msg : state[m] # "new" ~> state[m] = "done"

\* A demoting handler's nested call gets its turn, for the message to be
\* handled by the new Follower (demote_and_handle).
NestedCallHandled == \A m \in Msg : inner[m] ~> inner[m] /\ state[m] = "handling"
=============================================================================
