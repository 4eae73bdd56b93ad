---------------------------- MODULE MessageQueue ----------------------------
(***************************************************************************)
(* What Deck.inner_on_message promises the roles: messages are handled one *)
(* at a time and in the order in which they came, except for those that    *)
(* gave up waiting.                                                        *)
(***************************************************************************)
EXTENDS Sequences

CONSTANT Msg

VARIABLES
    waiting,  \* the messages that have come and are not handled yet, in order
    current   \* the message being handled, if any

Init == waiting = <<>> /\ current = {}

Arrive(m) ==
    \/ waiting' = Append(waiting, m) /\ UNCHANGED current
    \/ waiting = <<>> /\ current = {} /\ current' = {m} /\ UNCHANGED waiting

Start ==
    /\ waiting # <<>>
    /\ current = {}
    /\ current' = {Head(waiting)}
    /\ waiting' = Tail(waiting)

Finish == current # {} /\ current' = {} /\ UNCHANGED waiting

GiveUp(m) ==
    /\ waiting' = SelectSeq(waiting, LAMBDA x : x # m)
    /\ UNCHANGED current

Next == Start \/ Finish \/ \E m \in Msg : Arrive(m) \/ GiveUp(m)

Spec == Init /\ [][Next]_<<waiting, current>>
=============================================================================
