---------------------------- MODULE ChatDelivery ----------------------------
(***************************************************************************)
(* What becomes of a chat event a provider sends: the gateway saves the    *)
(* cursor and the event, flushes it to its consumers and to SPMT's         *)
(* Commlink projection, and retries (apps/chat-gateway/src/index.ts, the   *)
(* Discord driver's dispatch, the service loop; packages/commlink-core).   *)
(*                                                                         *)
(* Flushes overlap: the service loop runs one after another, and every     *)
(* event that arrives runs one of its own, each over the rows it listed.   *)
(* A call of a consumer is applied there and answered here in two steps;   *)
(* either process can die in between.  A flush lost with its process is a  *)
(* flush that never calls again.                                           *)
(*                                                                         *)
(* Abstractions.  One tenant and one connection.  A text or rich content   *)
(* is named by the event that carried it, 0 being the original message's.  *)
(* Attempts and error texts, which nothing reads, and the observers and    *)
(* lifecycle events, which keep no state here, are left out.               *)
(***************************************************************************)
EXTENDS Naturals, Sequences, FiniteSets

CONSTANTS
    Message,     \* provider messages
    Consumers,   \* how many consumers the gateway may be started with
    Events,      \* bound: events the provider sends
    Streams,     \* what it may send: sequences of that many
    Flight,      \* bound: flushes under way at once
    Loop,        \* the one the service loop runs
    FlushLimit   \* rows a flush lists, 100

\* In the order they are registered in; SPMT's projection comes first, always.
Consumer == 1..Consumers
Commlink == 1

Field == {"text", "rich"}
EventType == [kind: {"create", "edit", "delete"}, message: Message,
              at: Nat, fields: SUBSET Field]

EventId == 1..Events

ASSUME StreamAssumption == Streams \subseteq [EventId -> EventType]
ASSUME ChatAssumption ==
    /\ Events \in Nat
    /\ Consumers \in Nat \ {0}
    /\ Loop \in Flight
    /\ IsFiniteSet(Message)
    /\ FlushLimit \in Nat

VARIABLES
    stream,      \* what the provider sends, in order
    cursor,      \* the saved resume cursor: the last event of stream taken in
    rowid,       \* chat_messages: the rank a message was stored at, or 0
    delivery,    \* chat_deliveries
    saved,       \* chat_mutations: the rank an edit or removal was saved at, or 0
    sent,        \* those marked sent
    registered,  \* consumers this process was started with
    pc,          \* where each flush is
    todo,        \* deliveries a flush has listed and not settled yet
    fixes,       \* corrections a flush has listed and not settled yet
    applied,     \* whether the call under way was applied
    handled,     \* deliveries the consumers have handled
    record,      \* commlink_live_chat
    patch        \* commlink_provider_mutations

gatewayVars == <<cursor, rowid, delivery, saved, sent>>
flushVars == <<pc, todo, fixes, applied>>
remoteVars == <<handled, record, patch>>
vars == <<stream, gatewayVars, registered, flushVars, remoteVars>>

Delivery == Message \X Consumer

Record == [state: {"absent", "shown", "removed"}, text: Nat, rich: Nat]
Patch == [kind: {"none", "edit", "delete"}, at: Nat, text: Nat, rich: Nat]
NoRecord == [state |-> "absent", text |-> 0, rich |-> 0]
Original == [state |-> "shown", text |-> 0, rich |-> 0]
Gone == [state |-> "removed", text |-> 0, rich |-> 0]
NoPatch == [kind |-> "none", at |-> 0, text |-> 0, rich |-> 0]
Removed == [kind |-> "delete", at |-> 0, text |-> 0, rich |-> 0]

Phase == {"idle", "listing", "delivering", "reviewing", "correcting"}

TypeOK ==
    /\ stream \in Streams
    /\ cursor \in 0..Events
    /\ rowid \in [Message -> Nat]
    /\ delivery \in [Delivery -> {"none", "pending", "delivered"}]
    /\ saved \in [EventId -> Nat]
    /\ sent \subseteq EventId
    /\ registered \subseteq Consumer
    /\ pc \in [Flight -> Phase]
    /\ todo \in [Flight -> SUBSET Delivery]
    /\ fixes \in [Flight -> SUBSET EventId]
    /\ applied \in [Flight -> BOOLEAN]
    /\ handled \subseteq Delivery
    /\ record \in [Message -> Record]
    /\ patch \in [Message -> Patch]

Init ==
    /\ stream \in Streams
    /\ cursor = 0
    /\ rowid = [m \in Message |-> 0]
    /\ delivery = [d \in Delivery |-> "none"]
    /\ saved = [n \in EventId |-> 0]
    /\ sent = {}
    /\ registered = Consumer
    /\ pc = [f \in Flight |-> "idle"]
    /\ todo = [f \in Flight |-> {}]
    /\ fixes = [f \in Flight |-> {}]
    /\ applied = [f \in Flight |-> FALSE]
    /\ handled = {}
    /\ record = [m \in Message |-> NoRecord]
    /\ patch = [m \in Message |-> NoPatch]

-----------------------------------------------------------------------------
(* The provider's events. *)

Edits == {n \in EventId : stream[n].kind = "edit"}
Removals == {n \in EventId : stream[n].kind = "delete"}

\* The id persistMutation derives: a removal's leaves its time out.
SameCorrection(n, k) ==
    \/ n = k
    \/ {n, k} \subseteq Removals /\ stream[n].message = stream[k].message

AfterDeliveries(f) == IF f = Loop THEN "reviewing" ELSE "idle"
Ready(f) == f # Loop /\ pc[f] = "idle"

\* The oldest FlushLimit of a table's pending rows.
Oldest(rows, rank) ==
    {r \in rows : Cardinality({q \in rows : rank[q] < rank[r]}) < FlushLimit}

DeliveryRank == [d \in Delivery |-> rowid[d[1]] * Consumers + d[2]]
Pending == {d \in Delivery : delivery[d] = "pending"}
Unsent(ranks) == {n \in EventId : ranks[n] # 0 /\ n \notin sent}

\* flushMutations lists the corrections saved and not sent.
Review(f, ranks) ==
    /\ fixes' = [fixes EXCEPT ![f] = Oldest(Unsent(ranks), ranks)]
    /\ pc' = [pc EXCEPT ![f] = IF fixes'[f] = {} THEN "idle" ELSE "correcting"]

\* A dispatched event is seen again when a superseded socket is still open, or
\* after a resume from a cursor that such a socket wrote.
Arrives(n) ==
    /\ n \in EventId
    /\ n <= cursor + 1
    /\ cursor' = n

\* ingest and persist: a message and a delivery for each consumer, once; the
\* flush follows when the observers have been told.
Ingest(n) ==
    LET m == stream[n].message
    IN  /\ Arrives(n)
        /\ stream[n].kind = "create"
        /\ \/ /\ rowid[m] # 0
              /\ UNCHANGED <<rowid, delivery, flushVars>>
           \/ /\ rowid[m] = 0
              /\ rowid' = [rowid EXCEPT ![m] =
                              Cardinality({k \in Message : rowid[k] # 0}) + 1]
              /\ delivery' = [d \in Delivery |->
                    IF d[1] = m /\ d[2] \in registered THEN "pending" ELSE delivery[d]]
              /\ \E f \in Flight :
                    /\ Ready(f)
                    /\ pc' = [pc EXCEPT ![f] = "listing"]
              /\ UNCHANGED <<todo, fixes, applied>>
        /\ UNCHANGED <<stream, saved, sent, registered, remoteVars>>

\* mutate: the correction is saved unless it is known, and a flush lists what
\* is unsent.
Mutate(n) ==
    /\ Arrives(n)
    /\ stream[n].kind # "create"
    /\ saved' = IF \E k \in EventId : saved[k] # 0 /\ SameCorrection(n, k) THEN saved
                ELSE [saved EXCEPT ![n] =
                         Cardinality({k \in EventId : saved[k] # 0}) + 1]
    /\ \E f \in Flight : Ready(f) /\ Review(f, saved')
    /\ UNCHANGED <<stream, rowid, delivery, sent, registered, todo, applied, remoteVars>>

\* The store throws after the cursor was saved, and the driver swallows it; or
\* the process dies there.
IngestFails(n) ==
    /\ Arrives(n)
    /\ UNCHANGED <<stream, rowid, delivery, saved, sent, registered, flushVars, remoteVars>>

\* The process ends and is started again, perhaps with other consumers.
Restart ==
    /\ pc' = [f \in Flight |-> "idle"]
    /\ todo' = [f \in Flight |-> {}]
    /\ fixes' = [f \in Flight |-> {}]
    /\ applied' = [f \in Flight |-> FALSE]
    /\ registered' \in {cs \in SUBSET Consumer : Commlink \in cs}
    /\ UNCHANGED <<stream, gatewayVars, remoteVars>>

-----------------------------------------------------------------------------
(* Flushes: listing. *)

\* flush; the service loop flushes deliveries, then corrections, then pauses.
List(f) ==
    /\ pc[f] = IF f = Loop THEN "idle" ELSE "listing"
    /\ todo' = [todo EXCEPT ![f] = Oldest(Pending, DeliveryRank)]
    /\ pc' = [pc EXCEPT ![f] = IF todo'[f] = {} THEN AfterDeliveries(f) ELSE "delivering"]
    /\ UNCHANGED <<stream, gatewayVars, registered, fixes, applied, remoteVars>>

ReviewLoop ==
    /\ pc[Loop] = "reviewing"
    /\ Review(Loop, saved)
    /\ UNCHANGED <<stream, gatewayVars, registered, todo, applied, remoteVars>>

-----------------------------------------------------------------------------
(* Commlink's projection, in SPMT. *)

\* applyMutation
Corrected(r, p) ==
    IF r.state = "absent" \/ p.kind = "none" THEN r
    ELSE IF p.kind = "delete" THEN Gone
    ELSE [state |-> IF p.rich # 0 THEN "shown" ELSE r.state,
          text |-> IF p.text # 0 THEN p.text ELSE r.text,
          rich |-> IF p.rich # 0 THEN p.rich ELSE r.rich]

Inserted(r) == IF r.state = "absent" THEN Original ELSE r

\* As if the times of the edits were not compared.
MergedInOrder(p, n) ==
    LET e == stream[n]
    IN  IF p.kind = "delete" THEN p
        ELSE IF e.kind = "delete" THEN Removed
        ELSE [kind |-> "edit", at |-> e.at,
              text |-> IF "text" \in e.fields THEN n ELSE p.text,
              rich |-> IF "rich" \in e.fields THEN n ELSE p.rich]

\* As if a removal did not win over the edits that follow it.
MergedAfterRemoval(p, n) ==
    LET e == stream[n]
    IN  IF e.kind = "delete" THEN Removed
        ELSE IF p.at > e.at THEN p
        ELSE [kind |-> "edit", at |-> e.at,
              text |-> IF "text" \in e.fields THEN n ELSE p.text,
              rich |-> IF "rich" \in e.fields THEN n ELSE p.rich]

\* mutate's merge of a correction into what is known of the message.
Merged(p, n) ==
    LET e == stream[n]
    IN  IF p.kind = "delete" \/ (e.kind = "edit" /\ p.at > e.at) THEN p
        ELSE IF e.kind = "delete" THEN Removed
        ELSE [kind |-> "edit", at |-> e.at,
              text |-> IF "text" \in e.fields THEN n ELSE p.text,
              rich |-> IF "rich" \in e.fields THEN n ELSE p.rich]

-----------------------------------------------------------------------------
(* Flushes: calling. *)

DeliveryTurn(f, d) ==
    /\ pc[f] = "delivering"
    /\ d \in todo[f]
    /\ \A q \in todo[f] : DeliveryRank[d] <= DeliveryRank[q]

CorrectionTurn(f, n) ==
    /\ pc[f] = "correcting"
    /\ n \in fixes[f]
    /\ \A k \in fixes[f] : saved[n] <= saved[k]

\* As if only a new row were corrected.
DeliverUncorrected(f, d) ==
    /\ DeliveryTurn(f, d)
    /\ ~applied[f]
    /\ d[2] \in registered
    /\ handled' = handled \cup {d}
    /\ record' = IF d[2] # Commlink \/ record[d[1]].state # "absent" THEN record
                 ELSE [record EXCEPT ![d[1]] = Corrected(Original, patch[d[1]])]
    /\ applied' = [applied EXCEPT ![f] = TRUE]
    /\ UNCHANGED <<stream, gatewayVars, registered, pc, todo, fixes, patch>>

\* deliver, as the consumer applies it; Commlink's ingest inserts the message
\* and corrects it in two statements.
Deliver(f, d) ==
    /\ DeliveryTurn(f, d)
    /\ ~applied[f]
    /\ d[2] \in registered
    /\ handled' = handled \cup {d}
    /\ record' = IF d[2] # Commlink THEN record
                 ELSE [record EXCEPT ![d[1]] = Corrected(Inserted(@), patch[d[1]])]
    /\ applied' = [applied EXCEPT ![f] = TRUE]
    /\ UNCHANGED <<stream, gatewayVars, registered, pc, todo, fixes, patch>>

Correct(f, n) ==
    LET m == stream[n].message
    IN  /\ CorrectionTurn(f, n)
        /\ ~applied[f]
        /\ patch' = [patch EXCEPT ![m] = Merged(@, n)]
        /\ record' = [record EXCEPT ![m] = Corrected(@, Merged(patch[m], n))]
        /\ applied' = [applied EXCEPT ![f] = TRUE]
        /\ UNCHANGED <<stream, gatewayVars, registered, pc, todo, fixes, handled>>

NextDelivery(f, d) ==
    /\ todo' = [todo EXCEPT ![f] = @ \ {d}]
    /\ pc' = [pc EXCEPT ![f] = IF todo'[f] = {} THEN AfterDeliveries(f) ELSE @]
    /\ applied' = [applied EXCEPT ![f] = FALSE]
    /\ UNCHANGED fixes

NextCorrection(f, n) ==
    /\ fixes' = [fixes EXCEPT ![f] = @ \ {n}]
    /\ pc' = [pc EXCEPT ![f] = IF fixes'[f] = {} THEN "idle" ELSE @]
    /\ applied' = [applied EXCEPT ![f] = FALSE]
    /\ UNCHANGED todo

\* As if the state stored were not the one that is read.
CompleteRenamed(f, d) ==
    /\ DeliveryTurn(f, d)
    /\ applied[f]
    /\ delivery' = [delivery EXCEPT ![d] = "complete"]
    /\ NextDelivery(f, d)
    /\ UNCHANGED <<stream, cursor, rowid, saved, sent, registered, remoteVars>>

Complete(f, d) ==
    /\ DeliveryTurn(f, d)
    /\ applied[f]
    /\ delivery' = [delivery EXCEPT ![d] = "delivered"]
    /\ NextDelivery(f, d)
    /\ UNCHANGED <<stream, cursor, rowid, saved, sent, registered, remoteVars>>

CompleteMutation(f, n) ==
    /\ CorrectionTurn(f, n)
    /\ applied[f]
    /\ sent' = sent \cup {n}
    /\ NextCorrection(f, n)
    /\ UNCHANGED <<stream, cursor, rowid, delivery, saved, registered, remoteVars>>

\* As if a failed row were given up, or marked delivered.
FailGivesUp(f, d) ==
    /\ DeliveryTurn(f, d)
    /\ NextDelivery(f, d)
    /\ delivery' = [delivery EXCEPT ![d] = "none"]
    /\ UNCHANGED <<stream, cursor, rowid, saved, sent, registered, remoteVars>>

FailCompletes(f, d) ==
    /\ DeliveryTurn(f, d)
    /\ NextDelivery(f, d)
    /\ delivery' = [delivery EXCEPT ![d] = "delivered"]
    /\ UNCHANGED <<stream, cursor, rowid, saved, sent, registered, remoteVars>>

\* fail: the call was refused, or its answer was lost, or nobody has that id
\* any more; the row stays pending.
Fail(f, d) ==
    /\ DeliveryTurn(f, d)
    /\ NextDelivery(f, d)
    /\ UNCHANGED <<stream, gatewayVars, registered, remoteVars>>

\* As if a failed correction were given up.
FailMutationGivesUp(f, n) ==
    /\ CorrectionTurn(f, n)
    /\ NextCorrection(f, n)
    /\ sent' = sent \cup {n}
    /\ UNCHANGED <<stream, cursor, rowid, delivery, saved, registered, remoteVars>>

FailMutation(f, n) ==
    /\ CorrectionTurn(f, n)
    /\ NextCorrection(f, n)
    /\ UNCHANGED <<stream, gatewayVars, registered, remoteVars>>

\* SPMT dies between ingest's two statements; the gateway sees a failed call.
IngestTorn(f, m) ==
    /\ DeliveryTurn(f, <<m, Commlink>>)
    /\ ~applied[f]
    /\ record' = [record EXCEPT ![m] = Inserted(@)]
    /\ NextDelivery(f, <<m, Commlink>>)
    /\ UNCHANGED <<stream, gatewayVars, registered, handled, patch>>

-----------------------------------------------------------------------------
Next ==
    \/ \E n \in EventId : Ingest(n) \/ Mutate(n) \/ IngestFails(n)
    \/ Restart
    \/ ReviewLoop
    \/ \E f \in Flight :
          \/ List(f)
          \/ \E d \in Delivery : Deliver(f, d) \/ Complete(f, d) \/ Fail(f, d)
          \/ \E m \in Message : IngestTorn(f, m)
          \/ \E n \in EventId : Correct(f, n) \/ CompleteMutation(f, n) \/ FailMutation(f, n)

Spec == Init /\ [][Next]_vars

(* The process is not restarted for ever.  The loop goes on, each call it   *)
(* awaits answers or fails, and what is tried again and again is in the end *)
(* applied and in the end answered.                                         *)
LoopApplies == \/ \E d \in Delivery : Deliver(Loop, d)
               \/ \E n \in EventId : Correct(Loop, n)
LoopCompletes == \/ \E d \in Delivery : Complete(Loop, d)
                 \/ \E n \in EventId : CompleteMutation(Loop, n)
LoopFails == \/ \E d \in Delivery : Fail(Loop, d)
             \/ \E n \in EventId : FailMutation(Loop, n)

Fairness ==
    /\ <>[][~Restart]_vars
    /\ WF_vars(List(Loop)) /\ WF_vars(ReviewLoop)
    /\ WF_vars(LoopApplies \/ LoopCompletes \/ LoopFails)
    /\ SF_vars(LoopApplies)
    /\ SF_vars(LoopCompletes)

FairSpec == Spec /\ Fairness

-----------------------------------------------------------------------------
(* Properties. *)

\* A delivery is marked delivered only after its consumer handled it, and a
\* correction sent only after the projection took it in or knew a later one.
SettledWasApplied ==
    /\ \A d \in Delivery : delivery[d] = "delivered" => d \in handled
    /\ \A n \in sent :
          LET p == patch[stream[n].message]
          IN  p.kind = "delete" \/ (p.kind = "edit" /\ n \in Edits /\ p.at >= stream[n].at)

\* Once SPMT has answered for a message, it is shown with what corrects it,
\* whatever order they came in and wherever SPMT died: a removal that was
\* there before the message removes it too.
ShownIsCorrected ==
    \A m \in Message : <<m, Commlink>> \in handled =>
        record[m].state # "absent" /\ record[m] = Corrected(record[m], patch[m])

\* The newest edit of a message shows in every field it carries, even if older
\* ones are retried after it.
NewestEditShown ==
    \A n \in sent \cap Edits :
        LET m == stream[n].message
            known == {k \in EventId : saved[k] # 0 /\ stream[k].message = m} \ {n}
        IN  (/\ delivery[<<m, Commlink>>] = "delivered"
             /\ \A k \in known : k \in Edits /\ stream[k].at < stream[n].at) =>
            \A field \in stream[n].fields : record[m][field] = n

\* A removed message stays removed: no late delivery, replay or edit brings
\* its content back.
RemovalIsFinal ==
    [][\A m \in Message : record[m].state = "removed" => record'[m] = record[m]]_vars

\* A settled delivery stays settled, even when an overlapping flush that
\* listed it earlier fails it.
DeliveredIsFinal ==
    [][\A d \in Delivery : delivery[d] = "delivered" => delivery'[d] = "delivered"]_vars

\* Every saved message reaches each consumer that stays registered.
DeliveriesArrive ==
    \A d \in Delivery : <>[](d[2] \in registered) =>
        [](delivery[d] = "pending" => <>(delivery[d] = "delivered"))

RemovalSaved(m) == \E n \in Removals : saved[n] # 0 /\ stream[n].message = m

\* A message that is shown and whose removal was saved is removed in the end.
RemovalsArrive ==
    \A m \in Message :
        (RemovalSaved(m) /\ record[m].state = "shown") ~> record[m].state = "removed"

\* Nothing the cursor has passed is missing: a restart resumes after it, so it
\* will not be sent again.
PassedIsSaved ==
    \A n \in 1..cursor :
        \/ rowid[stream[n].message] # 0 /\ stream[n].kind = "create"
        \/ \E k \in EventId : saved[k] # 0 /\ SameCorrection(n, k)

=============================================================================
