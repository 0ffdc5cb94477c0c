----------------------------- MODULE EventPromise -----------------------------
(***************************************************************************)
(* What SPMT promises of published events: each is tried a number of times *)
(* until every webhook that waits for it has it, and its fate is final.    *)
(***************************************************************************)
EXTENDS Naturals

CONSTANTS
    Event, Hook,
    MaxTries    \* failed tries after which an event is given up

VARIABLES
    fate,       \* of each event
    open,       \* webhooks that want events
    waiting,    \* of each event: the webhooks it was published to
    reached     \* of each event: the webhooks that got it

promiseVars == <<fate, open, waiting, reached>>

Fate == [state: {"none", "open", "delivered", "dead"}, tries: Nat]

Init ==
    /\ fate = [e \in Event |-> [state |-> "none", tries |-> 0]]
    /\ open = {}
    /\ waiting = [e \in Event |-> {}]
    /\ reached = [e \in Event |-> {}]

Publish(e) ==
    /\ fate[e].state = "none"
    /\ fate' = [fate EXCEPT ![e].state = "open"]
    /\ waiting' = [waiting EXCEPT ![e] = open]
    /\ UNCHANGED <<open, reached>>

Try(E) ==
    /\ \A e \in E : fate[e].state = "open"
    /\ fate' = [e \in Event |-> IF e \in E THEN [fate[e] EXCEPT !.tries = @ + 1] ELSE fate[e]]
    /\ UNCHANGED <<open, waiting, reached>>

Reach(e, h) ==
    /\ fate[e].tries > 0
    /\ reached' = [reached EXCEPT ![e] = @ \cup {h}]
    /\ UNCHANGED <<fate, open, waiting>>

\* Delivered: whoever waited and still wants events has it.
Deliver(e) ==
    /\ fate[e].state = "open" /\ waiting[e] \cap open \subseteq reached[e]
    /\ fate' = [fate EXCEPT ![e].state = "delivered"]
    /\ UNCHANGED <<open, waiting, reached>>

Bury(e) ==
    /\ fate[e].state = "open" /\ fate[e].tries >= MaxTries
    /\ fate' = [fate EXCEPT ![e].state = "dead"]
    /\ UNCHANGED <<open, waiting, reached>>

Subscribe(h) == open' = open \cup {h} /\ UNCHANGED <<fate, waiting, reached>>
Unsubscribe(h) == open' = open \ {h} /\ UNCHANGED <<fate, waiting, reached>>

Next ==
    \/ \E e \in Event : Publish(e) \/ Deliver(e) \/ Bury(e) \/ \E h \in Hook : Reach(e, h)
    \/ \E E \in SUBSET Event : Try(E)
    \/ \E h \in Hook : Subscribe(h) \/ Unsubscribe(h)

Spec == Init /\ [][Next]_promiseVars

=============================================================================
