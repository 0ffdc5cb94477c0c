----------------------------- MODULE EventOutbox -----------------------------
(***************************************************************************)
(* The outbox of SPMT's platform events and its passes, which claim        *)
(* records under a lease and post each to the tenant's webhooks in         *)
(* sequence (packages/authority-core/src/index.ts, packages/outbox-core/   *)
(* src/index.ts, packages/platform-data-core/src/index.ts:67).             *)
(*                                                                         *)
(* A pass takes one lease for its batch and works it off across awaits.    *)
(* All passes of all processes have the worker id spmt-webhooks            *)
(* (apps/spmt-service/src/index.ts:195), so a lease is fenced against      *)
(* records that are no longer leased, and not against other passes.        *)
(*                                                                         *)
(* Abstractions.  Time is asynchronous: a lease may run out, and the delay *)
(* before a retry pass, at any moment.  An event is its idempotency key;   *)
(* one tenant, whose webhooks all match, posted to in any order.  A post   *)
(* and its answer are one step.                                            *)
(***************************************************************************)
EXTENDS Naturals, FiniteSets

CONSTANTS
    EventKey,
    Webhook,
    Pass,        \* bound: passes under way
    BatchSize,   \* batchSize (50)
    MaxFailures, \* maxAttempts (10)
    MaxClaims,   \* bound: claims of one record
    NoEvent

ASSUME OutboxAssumption ==
    /\ BatchSize \in Nat \ {0} /\ MaxFailures \in Nat \ {0} /\ MaxClaims \in Nat
    /\ IsFiniteSet(EventKey) /\ NoEvent \notin EventKey

VARIABLES
    record,    \* the outbox by event; its lease is owned by spmt-webhooks or nobody
    row,       \* the rowid of an event's record, 0 before its publication
    hooks,     \* webhook registrations
    owed,      \* of each event: the webhooks registered when it was published
    got,       \* of each event: the webhooks that received it
    pass       \* runOnce: the records of its batch to come, the one being posted,
               \* and the webhooks that one has yet to be posted to

outboxVars == <<record, row, hooks, owed, got, pass>>

OutboxRecord == [state: {"none", "pending", "leased", "delivered", "dead"},
                 attempts: 0..MaxClaims, lapsed: BOOLEAN]

OutboxTypeOK ==
    /\ record \in [EventKey -> OutboxRecord]
    /\ row \in [EventKey -> Nat]
    /\ hooks \in [Webhook -> {"none", "enabled", "disabled"}]
    /\ owed \in [EventKey -> SUBSET Webhook] /\ got \in [EventKey -> SUBSET Webhook]
    /\ pass \in [Pass -> [rest: SUBSET EventKey, now: EventKey \cup {NoEvent},
                       todo: SUBSET Webhook]]

NoPass == [rest |-> {}, now |-> NoEvent, todo |-> {}]

OutboxInit ==
    /\ record = [e \in EventKey |-> [state |-> "none", attempts |-> 0, lapsed |-> FALSE]]
    /\ row = [e \in EventKey |-> 0]
    /\ hooks = [w \in Webhook |-> "none"]
    /\ owed = [e \in EventKey |-> {}] /\ got = [e \in EventKey |-> {}]
    /\ pass = [p \in Pass |-> NoPass]

\* matchingWebhooks
Matching == {w \in Webhook : hooks[w] = "enabled"}

-----------------------------------------------------------------------------
(* Events and registrations. *)

\* A key already published answers with its event.
PublishEvent(e) ==
    /\ record[e].state = "none"
    /\ record' = [record EXCEPT ![e].state = "pending"]
    /\ row' = [row EXCEPT ![e] = 1 + Cardinality({d \in EventKey : row[d] # 0})]
    /\ owed' = [owed EXCEPT ![e] = Matching]
    /\ UNCHANGED <<hooks, got, pass>>

CreateWebhook(w) ==
    /\ hooks[w] = "none"
    /\ hooks' = [hooks EXCEPT ![w] = "enabled"]
    /\ UNCHANGED <<record, row, owed, got, pass>>

DisableWebhook(w) ==
    /\ hooks[w] = "enabled"
    /\ hooks' = [hooks EXCEPT ![w] = "disabled"]
    /\ UNCHANGED <<record, row, owed, got, pass>>

-----------------------------------------------------------------------------
(* A pass. *)

\* The pass turns to the oldest record left, and reads the webhooks there are.
TurnsTo(p, left) ==
    IF left = {} THEN pass' = [pass EXCEPT ![p] = NoPass]
    ELSE \E e \in left :
           /\ \A d \in left : row[e] <= row[d]
           /\ pass' = [pass EXCEPT ![p] = [rest |-> left \ {e}, now |-> e, todo |-> Matching]]

\* listClaimableOutbox, by rowid up to its limit.
ClaimableRecord(e) ==
    /\ record[e].state = "pending" \/ (record[e].state = "leased" /\ record[e].lapsed)
    /\ record[e].attempts < MaxClaims

ClaimableRecords == {e \in EventKey : ClaimableRecord(e)}
OutboxBatch ==
    {e \in ClaimableRecords : Cardinality({d \in ClaimableRecords : row[d] < row[e]}) < BatchSize}

ClaimOutbox(p) ==
    /\ pass[p] = NoPass /\ OutboxBatch # {}
    /\ record' = [e \in EventKey |->
           IF e \in OutboxBatch
           THEN [state |-> "leased", attempts |-> record[e].attempts + 1, lapsed |-> FALSE]
           ELSE record[e]]
    /\ TurnsTo(p, OutboxBatch)
    /\ UNCHANGED <<row, hooks, owed, got>>

\* A post to a webhook that is still enabled arrives, and answers or does not.
PostWebhook(p, w) ==
    /\ w \in pass[p].todo /\ hooks[w] = "enabled"
    /\ got' = [got EXCEPT ![pass[p].now] = @ \cup {w}]
    /\ pass' \in {pass, [pass EXCEPT ![p].todo = @ \ {w}]}
    /\ UNCHANGED <<record, row, hooks, owed>>

\* As if a lease were not required.
Unfenced(e) == record[e].state # "none"

\* requireLease, which knows no pass from another.
Leased(e) == record[e].state = "leased"

\* As if one webhook's answer were enough.
PostedSome(p) == pass[p].todo = Matching => Matching = {}

PostedAll(p) == pass[p].todo = {}

\* completeOutbox; without a lease it throws, and failOutbox throws in turn, which
\* ends the pass.
CompleteOutbox(p) ==
    LET e == pass[p].now IN
    /\ e # NoEvent /\ PostedAll(p)
    /\ IF Leased(e)
       THEN /\ record' = [record EXCEPT ![e].state = "delivered", ![e].lapsed = FALSE]
            /\ TurnsTo(p, pass[p].rest)
       ELSE pass' = [pass EXCEPT ![p] = NoPass] /\ UNCHANGED record
    /\ UNCHANGED <<row, hooks, owed, got>>

Spent(e) == record[e].attempts >= MaxFailures

\* failOutbox: a post fails, or its webhook was disabled since the pass read it.
FailOutbox(p) ==
    LET e == pass[p].now IN
    /\ pass[p].todo # {}
    /\ IF Leased(e)
       THEN /\ record' = [record EXCEPT ![e].state = IF Spent(e) THEN "dead" ELSE "pending",
                                        ![e].lapsed = FALSE]
            /\ TurnsTo(p, pass[p].rest)
       ELSE pass' = [pass EXCEPT ![p] = NoPass] /\ UNCHANGED record
    /\ UNCHANGED <<row, hooks, owed, got>>

\* The process ends, and its pass with it.
PassEnds(p) ==
    /\ pass[p] # NoPass
    /\ pass' = [pass EXCEPT ![p] = NoPass]
    /\ UNCHANGED <<record, row, hooks, owed, got>>

OutboxLeaseLapses(e) ==
    /\ record[e].state = "leased" /\ ~record[e].lapsed
    /\ record' = [record EXCEPT ![e].lapsed = TRUE]
    /\ UNCHANGED <<row, hooks, owed, got, pass>>

OutboxNext ==
    \/ \E e \in EventKey : PublishEvent(e) \/ OutboxLeaseLapses(e)
    \/ \E w \in Webhook : CreateWebhook(w) \/ DisableWebhook(w)
    \/ \E p \in Pass : \/ ClaimOutbox(p) \/ CompleteOutbox(p) \/ FailOutbox(p) \/ PassEnds(p)
                       \/ \E w \in Webhook : PostWebhook(p, w)

OutboxSpec == OutboxInit /\ [][OutboxNext]_outboxVars

-----------------------------------------------------------------------------
(* Properties. *)

\* A delivered event reached every webhook that was enabled from its publication
\* on, though passes overlap, complete records under each other's leases and stop
\* half-way: none that waited behind a failing one was left out.
DeliveredReachedAll ==
    \A e \in EventKey :
      record[e].state = "delivered" =>
        \A w \in owed[e] : hooks[w] = "enabled" => w \in got[e]

FateOf(state) ==
    CASE state = "none" -> "none"
      [] state \in {"pending", "leased"} -> "open"
      [] OTHER -> state

Promise == INSTANCE EventPromise WITH
    Event <- EventKey,
    Hook <- Webhook,
    MaxTries <- MaxFailures,
    fate <- [e \in EventKey |-> [state |-> FateOf(record[e].state), tries |-> record[e].attempts]],
    open <- Matching,
    waiting <- owed,
    reached <- got

\* Every behaviour of the outbox is one that events were promised: a late completion
\* or failure under another pass's lease reopens nothing, gives no record up that
\* has tries left, and counts none twice.
ImplementsPromise == Promise!Spec

=============================================================================
