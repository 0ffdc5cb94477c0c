--------------------------- MODULE PlatformProofs ----------------------------
(***************************************************************************)
(* Proofs about the platform's work under leases: events for webhooks      *)
(* (EventOutbox) and commands for devices (DeviceCommands).                *)
(***************************************************************************)
EXTENDS EventOutbox, DeviceCommands, FiniteSetTheorems, TLAPS

-----------------------------------------------------------------------------
(***************************************************************************)
(* Proofs about EventOutbox, for any number of events, webhooks, passes    *)
(* and tries.  What a pass has at hand was claimed before (Begun), so no   *)
(* event is published anew under it; and of the webhooks owed its event,   *)
(* those it no longer has to post to received it (StillToPost), whatever   *)
(* other passes do.                                                        *)
(***************************************************************************)

AtHand(p) == pass[p].rest \cup ({pass[p].now} \ {NoEvent})

\* What a pass has at hand was published and claimed.
Begun(p) == \A e \in AtHand(p) : record[e].state # "none" /\ record[e].attempts > 0

\* A pass that posts no event posts to nobody.
NothingToPost(p) == pass[p].now = NoEvent => pass[p].todo = {}

StillToPost(p) ==
    pass[p].now # NoEvent =>
      \A w \in owed[pass[p].now] : hooks[w] = "enabled" => w \in pass[p].todo \cup got[pass[p].now]

Sound(p) == Begun(p) /\ NothingToPost(p) /\ StillToPost(p)

OwedIsRegistered ==
    \A e \in EventKey : \A w \in owed[e] : hooks[w] # "none"

OutboxInv ==
    /\ OutboxTypeOK /\ OwedIsRegistered /\ DeliveredReachedAll
    /\ \A p \in Pass : Sound(p)

-----------------------------------------------------------------------------
(* Steps that leave parts of the invariant alone. *)

\* A pass turns to an event it has left, or ends.
LEMMA Turned ==
    ASSUME NEW p \in Pass, NEW left \in SUBSET EventKey, TurnsTo(p, left), OutboxTypeOK
    PROVE  /\ pass' \in [Pass -> [rest: SUBSET EventKey, now: EventKey \cup {NoEvent},
                                  todo: SUBSET Webhook]]
           /\ \A q \in Pass \ {p} : pass'[q] = pass[q]
           /\ \/ pass'[p] = NoPass
              \/ \E e \in left : pass'[p] = [rest |-> left \ {e}, now |-> e, todo |-> Matching]
  <1> USE DEF OutboxTypeOK
  <1>1. NoPass \in [rest: SUBSET EventKey, now: EventKey \cup {NoEvent}, todo: SUBSET Webhook]
    BY DEF NoPass
  <1>2. CASE left = {}
    BY <1>1, <1>2 DEF TurnsTo
  <1>3. CASE left # {}
    <2>1. PICK e \in left : pass' = [pass EXCEPT ![p] = [rest |-> left \ {e}, now |-> e, todo |-> Matching]]
      BY <1>3 DEF TurnsTo
    <2>2. [rest |-> left \ {e}, now |-> e, todo |-> Matching]
            \in [rest: SUBSET EventKey, now: EventKey \cup {NoEvent}, todo: SUBSET Webhook]
      BY DEF Matching
    <2> QED
      BY <2>1, <2>2
  <1> QED
    BY <1>2, <1>3

\* A pass that is idle, as it was, or newly turned to events that were claimed is
\* sound, as long as no event is owed, unclaimed or taken back.
LEMMA PassKept ==
    ASSUME OutboxInv, NEW q \in Pass, UNCHANGED hooks,
           \A e \in EventKey : got[e] \subseteq got'[e],
           \A e \in EventKey : record[e].state # "none" =>
             /\ record'[e].state # "none" /\ owed'[e] = owed[e]
             /\ record[e].attempts > 0 => record'[e].attempts > 0,
           \/ pass'[q] \in {pass[q], NoPass}
           \/ \E left \in SUBSET EventKey : \E e \in left :
                /\ pass'[q] = [rest |-> left \ {e}, now |-> e, todo |-> Matching]
                /\ \A d \in left : record'[d].state # "none" /\ record'[d].attempts > 0
                /\ owed' = owed
    PROVE  Sound(q)'
  <1>1. CASE pass'[q] = pass[q]
    <2>1. AtHand(q)' = AtHand(q) /\ AtHand(q) \subseteq EventKey
      BY <1>1 DEF AtHand, OutboxInv, OutboxTypeOK
    <2>2. Begun(q)' /\ NothingToPost(q)'
      BY <1>1, <2>1 DEF OutboxInv, Sound, Begun, NothingToPost
    <2>3. ASSUME pass[q].now # NoEvent PROVE StillToPost(q)'
      <3>1. pass[q].now \in AtHand(q) /\ pass[q].now \in EventKey
        BY <2>1, <2>3 DEF AtHand
      <3>2. owed'[pass[q].now] = owed[pass[q].now]
        BY <3>1 DEF OutboxInv, Sound, Begun
      <3> QED
        BY <1>1, <2>3, <3>1, <3>2 DEF OutboxInv, Sound, StillToPost
    <2> QED
      BY <1>1, <2>2, <2>3 DEF Sound, StillToPost
  <1>2. CASE pass'[q] = NoPass
    BY <1>2 DEF NoPass, AtHand, Sound, Begun, NothingToPost, StillToPost
  <1>3. ASSUME NEW left \in SUBSET EventKey, NEW e \in left, owed' = owed,
               pass'[q] = [rest |-> left \ {e}, now |-> e, todo |-> Matching],
               \A d \in left : record'[d].state # "none" /\ record'[d].attempts > 0
        PROVE  Sound(q)'
    <2>1. AtHand(q)' \subseteq left /\ e # NoEvent
      BY <1>3, OutboxAssumption DEF AtHand
    <2>2. Begun(q)' /\ NothingToPost(q)'
      BY <1>3, <2>1 DEF Begun, NothingToPost
    <2>3. \A w \in owed[e] : hooks[w] = "enabled" => w \in Matching
      BY DEF Matching, OutboxInv, OutboxTypeOK
    <2> QED
      BY <1>3, <2>2, <2>3 DEF Sound, StillToPost
  <1> QED
    BY <1>1, <1>2, <1>3

\* As long as no record is delivered anew, and nothing is taken back, what was delivered
\* has reached who is owed it.
LEMMA DeliveredKept ==
    ASSUME OutboxInv, UNCHANGED hooks,
           \A e \in EventKey : got[e] \subseteq got'[e],
           \A e \in EventKey :
             record'[e].state = "delivered" => record[e].state = "delivered" /\ owed'[e] = owed[e]
    PROVE  DeliveredReachedAll'
  BY DEF OutboxInv, DeliveredReachedAll

-----------------------------------------------------------------------------
(* Initial states and steps. *)

LEMMA OutboxInvInit == OutboxInit => OutboxInv
  <1> SUFFICES ASSUME OutboxInit PROVE OutboxInv
    OBVIOUS
  <1>1. NoPass \in [rest: SUBSET EventKey, now: EventKey \cup {NoEvent}, todo: SUBSET Webhook]
    BY DEF NoPass
  <1>2. OutboxTypeOK
    BY <1>1, OutboxAssumption DEF OutboxInit, OutboxTypeOK, OutboxRecord
  <1>3. ASSUME NEW p \in Pass PROVE Sound(p)
    <2>1. pass[p] = NoPass
      BY DEF OutboxInit
    <2> QED
      BY <2>1 DEF NoPass, AtHand, Sound, Begun, NothingToPost, StillToPost
  <1>4. OwedIsRegistered /\ DeliveredReachedAll
    BY DEF OutboxInit, OwedIsRegistered, DeliveredReachedAll
  <1> QED
    BY <1>2, <1>3, <1>4 DEF OutboxInv

LEMMA PublishKeeps ==
    ASSUME OutboxInv, NEW e \in EventKey, PublishEvent(e)
    PROVE  OutboxInv'
  <1> USE DEF PublishEvent
  <1>1. Cardinality({d \in EventKey : row[d] # 0}) \in Nat
    BY OutboxAssumption, FS_Subset, FS_CardinalityType
  <1>2. Matching \subseteq Webhook
    BY DEF Matching
  <1>3. OutboxTypeOK'
    <2>1. record' \in [EventKey -> OutboxRecord]
      BY DEF OutboxInv, OutboxTypeOK, OutboxRecord
    <2>2. row' \in [EventKey -> Nat]
      BY <1>1 DEF OutboxInv, OutboxTypeOK
    <2>3. owed' \in [EventKey -> SUBSET Webhook]
      BY <1>2 DEF OutboxInv, OutboxTypeOK
    <2> QED
      BY <2>1, <2>2, <2>3 DEF OutboxInv, OutboxTypeOK
  <1>4. ASSUME NEW d \in EventKey
        PROVE  /\ record[d].state # "none" => /\ record'[d] = record[d] /\ owed'[d] = owed[d]
               /\ record'[d].state = "delivered" => record'[d] = record[d] /\ owed'[d] = owed[d]
    BY DEF OutboxInv, OutboxTypeOK, OutboxRecord
  <1>5. DeliveredReachedAll'
    BY <1>4, DeliveredKept
  <1>6. \A q \in Pass : Sound(q)'
    BY <1>4, PassKept
  <1>7. OwedIsRegistered'
    BY DEF OutboxInv, OwedIsRegistered, OutboxTypeOK, Matching
  <1> QED
    BY <1>3, <1>5, <1>6, <1>7 DEF OutboxInv

LEMMA RegistrationKeeps ==
    ASSUME OutboxInv, NEW w \in Webhook, CreateWebhook(w) \/ DisableWebhook(w)
    PROVE  OutboxInv'
  <1>1. /\ UNCHANGED <<record, row, owed, got, pass>>
        /\ \/ hooks[w] = "none" /\ hooks' = [hooks EXCEPT ![w] = "enabled"]
           \/ hooks' = [hooks EXCEPT ![w] = "disabled"]
    BY DEF CreateWebhook, DisableWebhook
  <1>2. OutboxTypeOK'
    BY <1>1 DEF OutboxInv, OutboxTypeOK
  <1>3. OwedIsRegistered'
    BY <1>1 DEF OutboxInv, OutboxTypeOK, OwedIsRegistered
  <1>4. \A e \in EventKey : \A v \in owed[e] : hooks'[v] = "enabled" => hooks[v] = "enabled"
    BY <1>1 DEF OutboxInv, OutboxTypeOK, OwedIsRegistered
  <1>5. DeliveredReachedAll'
    BY <1>1, <1>4 DEF OutboxInv, DeliveredReachedAll
  <1>6. ASSUME NEW q \in Pass PROVE Sound(q)'
    <2>1. pass[q].now \in EventKey \cup {NoEvent}
      BY DEF OutboxInv, OutboxTypeOK
    <2>2. StillToPost(q)'
      BY <1>1, <1>4, <2>1 DEF OutboxInv, Sound, StillToPost
    <2> QED
      BY <1>1, <2>2 DEF OutboxInv, Sound, Begun, NothingToPost, AtHand
  <1> QED
    BY <1>2, <1>3, <1>5, <1>6 DEF OutboxInv

LEMMA PassClaimKeeps ==
    ASSUME OutboxInv, NEW p \in Pass, ClaimOutbox(p)
    PROVE  OutboxInv'
  <1>1. OutboxBatch \in SUBSET EventKey
    BY DEF OutboxBatch, ClaimableRecords
  <1>2. /\ \A e \in OutboxBatch : record'[e] = [state |-> "leased",
                                    attempts |-> record[e].attempts + 1, lapsed |-> FALSE]
        /\ \A e \in EventKey \ OutboxBatch : record'[e] = record[e]
        /\ UNCHANGED <<row, hooks, owed, got>>
        /\ TurnsTo(p, OutboxBatch)
    BY <1>1 DEF ClaimOutbox
  <1>3. \A e \in OutboxBatch : record[e].attempts \in Nat /\ record[e].attempts + 1 \in 0..MaxClaims
    BY OutboxAssumption DEF OutboxBatch, ClaimableRecords, ClaimableRecord, OutboxInv, OutboxTypeOK,
                            OutboxRecord
  <1>4. OutboxTypeOK'
    <2>1. ASSUME NEW e \in EventKey PROVE record'[e] \in OutboxRecord
      <3>1. CASE e \in OutboxBatch
        <4>1. record'[e] = [state |-> "leased", attempts |-> record[e].attempts + 1, lapsed |-> FALSE]
          BY <1>2, <3>1
        <4>2. record[e].attempts + 1 \in 0..MaxClaims
          BY <1>3, <3>1
        <4> QED
          BY <4>1, <4>2 DEF OutboxRecord
      <3>2. CASE e \notin OutboxBatch
        BY <1>2, <3>2 DEF OutboxInv, OutboxTypeOK
      <3> QED
        BY <3>1, <3>2
    <2>2. record' \in [EventKey -> OutboxRecord]
      BY <2>1 DEF ClaimOutbox
    <2> QED
      BY <1>1, <1>2, <2>2, Turned DEF OutboxInv, OutboxTypeOK
  <1>5. /\ \A e \in EventKey : record[e].state # "none" =>
             /\ record'[e].state # "none" /\ owed'[e] = owed[e]
             /\ record[e].attempts > 0 => record'[e].attempts > 0
        /\ \A e \in OutboxBatch : record'[e].state # "none" /\ record'[e].attempts > 0
        /\ \A e \in EventKey : record'[e].state = "delivered" => record[e].state = "delivered"
    <2>1. ASSUME NEW e \in OutboxBatch
          PROVE  record'[e].state = "leased" /\ record'[e].attempts > 0
      <3>1. record'[e] = [state |-> "leased", attempts |-> record[e].attempts + 1, lapsed |-> FALSE]
        BY <1>2
      <3>2. record[e].attempts \in Nat
        BY <1>3
      <3>3. record'[e].attempts = record[e].attempts + 1 /\ record'[e].state = "leased"
        BY <3>1
      <3> QED
        BY <3>2, <3>3
    <2>2. \A e \in EventKey \ OutboxBatch : record'[e] = record[e]
      BY <1>2
    <2> QED
      BY <1>2, <2>1, <2>2
  <1>6. ASSUME NEW q \in Pass PROVE Sound(q)'
    <2>1. \A e \in EventKey : got[e] \subseteq got'[e]
      BY <1>2
    <2>2. \/ pass'[q] \in {pass[q], NoPass}
          \/ \E e \in OutboxBatch :
               pass'[q] = [rest |-> OutboxBatch \ {e}, now |-> e, todo |-> Matching]
      BY <1>1, <1>2, Turned DEF OutboxInv
    <2> QED
      BY <1>1, <1>2, <1>5, <2>1, <2>2, PassKept
  <1>7. DeliveredReachedAll' /\ OwedIsRegistered'
    BY <1>2, <1>5, DeliveredKept DEF OutboxInv, OwedIsRegistered
  <1> QED
    BY <1>4, <1>6, <1>7 DEF OutboxInv

LEMMA PostKeeps ==
    ASSUME OutboxInv, NEW p \in Pass, NEW w \in Webhook, PostWebhook(p, w)
    PROVE  OutboxInv'
  <1> DEFINE e == pass[p].now
  <1>1. e \in EventKey /\ pass[p] \in [rest: SUBSET EventKey, now: EventKey \cup {NoEvent},
                                       todo: SUBSET Webhook]
    BY DEF PostWebhook, OutboxInv, OutboxTypeOK, Sound, NothingToPost
  <1>2. /\ UNCHANGED <<record, row, hooks, owed>>
        /\ got' = [got EXCEPT ![e] = @ \cup {w}]
        /\ pass' \in {pass, [pass EXCEPT ![p].todo = @ \ {w}]}
    BY DEF PostWebhook
  <1>3. OutboxTypeOK'
    <2>1. got' \in [EventKey -> SUBSET Webhook]
      BY <1>1, <1>2 DEF OutboxInv, OutboxTypeOK
    <2>2. pass' \in [Pass -> [rest: SUBSET EventKey, now: EventKey \cup {NoEvent},
                              todo: SUBSET Webhook]]
      BY <1>2 DEF OutboxInv, OutboxTypeOK
    <2> QED
      BY <1>2, <2>1, <2>2 DEF OutboxInv, OutboxTypeOK
  <1>4. /\ \A d \in EventKey : got[d] \subseteq got'[d]
        /\ w \in got'[e]
    BY <1>1, <1>2 DEF OutboxInv, OutboxTypeOK
  <1>5. ASSUME NEW q \in Pass PROVE Sound(q)'
    <2>1. CASE pass'[q] = pass[q]
      BY <1>2, <1>4, <2>1, PassKept
    <2>2. CASE pass'[q] # pass[q]
      <3>1. q = p /\ pass'[p] = [pass[p] EXCEPT !.todo = @ \ {w}]
        BY <1>2, <2>2 DEF OutboxInv, OutboxTypeOK
      <3>2. pass'[p].rest = pass[p].rest /\ pass'[p].now = e /\ pass'[p].todo = pass[p].todo \ {w}
        BY <1>1, <3>1
      <3>3. Begun(p)' /\ NothingToPost(p)'
        BY <1>2, <3>2 DEF OutboxInv, Sound, Begun, NothingToPost, AtHand
      <3>4. StillToPost(p)'
        BY <1>1, <1>2, <1>4, <3>2 DEF OutboxInv, Sound, StillToPost
      <3> QED
        BY <3>1, <3>3, <3>4 DEF Sound
    <2> QED
      BY <2>1, <2>2
  <1>6. DeliveredReachedAll' /\ OwedIsRegistered'
    BY <1>2, <1>4, DeliveredKept DEF OutboxInv, OwedIsRegistered
  <1> QED
    BY <1>3, <1>5, <1>6 DEF OutboxInv

\* What a completion and a failure do: a leased record is settled and the pass turns to
\* the next; without a lease the pass ends.
LEMMA EventSettleKeeps ==
    ASSUME OutboxInv, NEW p \in Pass, NEW e \in EventKey, e = pass[p].now,
           UNCHANGED <<row, hooks, owed, got>>,
           \/ /\ Leased(e) /\ TurnsTo(p, pass[p].rest)
              /\ \E state \in {"pending", "dead", "delivered"} :
                   /\ record' = [record EXCEPT ![e].state = state, ![e].lapsed = FALSE]
                   /\ state = "delivered" => pass[p].todo = {}
           \/ pass' = [pass EXCEPT ![p] = NoPass] /\ UNCHANGED record
    PROVE  OutboxInv'
  <1>1. /\ pass[p].rest \in SUBSET EventKey /\ e # NoEvent
        /\ NoPass \in [rest: SUBSET EventKey, now: EventKey \cup {NoEvent}, todo: SUBSET Webhook]
    BY OutboxAssumption DEF OutboxInv, OutboxTypeOK, NoPass
  <1>2. /\ OutboxTypeOK'
        /\ \A d \in EventKey : /\ d # e => record'[d] = record[d]
                               /\ record'[d].attempts = record[d].attempts
                               /\ record[d].state # "none" => record'[d].state # "none"
        /\ record'[e].state = "delivered" => record[e].state = "delivered" \/ pass[p].todo = {}
    <2>1. CASE pass' = [pass EXCEPT ![p] = NoPass] /\ UNCHANGED record
      BY <1>1, <2>1 DEF OutboxInv, OutboxTypeOK
    <2>2. ASSUME NEW state \in {"pending", "dead", "delivered"}, TurnsTo(p, pass[p].rest),
                 record' = [record EXCEPT ![e].state = state, ![e].lapsed = FALSE],
                 state = "delivered" => pass[p].todo = {}
          PROVE  <1>2
      <3>1. record[e] \in OutboxRecord
        BY DEF OutboxInv, OutboxTypeOK
      <3>2. [record[e] EXCEPT !.state = state, !.lapsed = FALSE] \in OutboxRecord
        BY <3>1 DEF OutboxRecord
      <3>3. record' = [record EXCEPT ![e] = [record[e] EXCEPT !.state = state, !.lapsed = FALSE]]
        BY <2>2, <3>1 DEF OutboxRecord, OutboxInv, OutboxTypeOK
      <3>4. /\ record' \in [EventKey -> OutboxRecord]
            /\ \A d \in EventKey \ {e} : record'[d] = record[d]
            /\ record'[e].attempts = record[e].attempts /\ record'[e].state = state
        BY <3>1, <3>2, <3>3 DEF OutboxInv, OutboxTypeOK, OutboxRecord
      <3>5. pass' \in [Pass -> [rest: SUBSET EventKey, now: EventKey \cup {NoEvent},
                                todo: SUBSET Webhook]]
        BY <1>1, <2>2, Turned DEF OutboxInv
      <3>6. OutboxTypeOK'
        BY <3>4, <3>5 DEF OutboxInv, OutboxTypeOK
      <3> QED
        BY <2>2, <3>4, <3>6
    <2> QED
      BY <2>1, <2>2
  <1>3. DeliveredReachedAll' /\ OwedIsRegistered'
    <2>1. pass[p].todo = {} => \A w \in owed[e] : hooks[w] = "enabled" => w \in got[e]
      BY <1>1 DEF OutboxInv, Sound, StillToPost
    <2> QED
      BY <1>2, <2>1 DEF OutboxInv, DeliveredReachedAll, OwedIsRegistered
  <1>4. ASSUME NEW q \in Pass PROVE Sound(q)'
    <2>1. \/ pass'[q] \in {pass[q], NoPass}
          \/ \E d \in pass[p].rest :
               pass'[q] = [rest |-> pass[p].rest \ {d}, now |-> d, todo |-> Matching]
      <3>1. CASE TurnsTo(p, pass[p].rest)
        <4> DEFINE left == pass[p].rest
        <4>1. left \in SUBSET EventKey /\ TurnsTo(p, left) /\ OutboxTypeOK
          BY <1>1, <3>1 DEF OutboxInv
        <4> HIDE DEF left
        <4>2. /\ q # p => pass'[q] = pass[q]
              /\ \/ pass'[p] = NoPass
                 \/ \E d \in left : pass'[p] = [rest |-> left \ {d}, now |-> d, todo |-> Matching]
          BY <4>1, Turned
        <4> QED
          BY <4>2 DEF left
      <3>2. CASE pass' = [pass EXCEPT ![p] = NoPass]
        BY <3>2 DEF OutboxInv, OutboxTypeOK
      <3> QED
        BY <3>1, <3>2
    <2>2. \A d \in pass[p].rest : record[d].state # "none" /\ record[d].attempts > 0
      BY DEF OutboxInv, Sound, Begun, AtHand
    <2>3. \A d \in pass[p].rest : record'[d].state # "none" /\ record'[d].attempts > 0
      BY <1>1, <1>2, <2>2
    <2> QED
      BY <1>1, <1>2, <2>1, <2>3, PassKept
  <1> QED
    BY <1>2, <1>3, <1>4 DEF OutboxInv

LEMMA CompleteKeeps ==
    ASSUME OutboxInv, NEW p \in Pass, CompleteOutbox(p)
    PROVE  OutboxInv'
  <1> DEFINE e == pass[p].now
  <1>1. e \in EventKey /\ pass[p].todo = {}
    BY DEF CompleteOutbox, PostedAll, OutboxInv, OutboxTypeOK
  <1> QED
    BY <1>1, EventSettleKeeps DEF CompleteOutbox

LEMMA FailKeeps ==
    ASSUME OutboxInv, NEW p \in Pass, FailOutbox(p)
    PROVE  OutboxInv'
  <1> DEFINE e == pass[p].now
             state == IF Spent(e) THEN "dead" ELSE "pending"
  <1>1. e \in EventKey
    BY DEF FailOutbox, OutboxInv, OutboxTypeOK, Sound, NothingToPost
  <1>2. \/ /\ Leased(e) /\ TurnsTo(p, pass[p].rest)
           /\ record' = [record EXCEPT ![e].state = state, ![e].lapsed = FALSE]
        \/ pass' = [pass EXCEPT ![p] = NoPass] /\ UNCHANGED record
    BY DEF FailOutbox
  <1>3. state \in {"pending", "dead", "delivered"} /\ state # "delivered"
    OBVIOUS
  <1> HIDE DEF state
  <1> QED
    BY <1>1, <1>2, <1>3, EventSettleKeeps DEF FailOutbox

LEMMA PassEndKeeps ==
    ASSUME OutboxInv, NEW p \in Pass, PassEnds(p)
    PROVE  OutboxInv'
  <1>1. /\ pass' = [pass EXCEPT ![p] = NoPass]
        /\ UNCHANGED <<record, row, hooks, owed, got>>
    BY DEF PassEnds
  <1>2. OutboxTypeOK'
    BY <1>1 DEF OutboxInv, OutboxTypeOK, NoPass
  <1>3. ASSUME NEW q \in Pass PROVE Sound(q)'
    <2>1. pass'[q] \in {pass[q], NoPass}
      BY <1>1 DEF OutboxInv, OutboxTypeOK
    <2> QED
      BY <1>1, <2>1, PassKept
  <1>4. DeliveredReachedAll' /\ OwedIsRegistered'
    BY <1>1 DEF OutboxInv, DeliveredReachedAll, OwedIsRegistered
  <1> QED
    BY <1>2, <1>3, <1>4 DEF OutboxInv

LEMMA LapseKeeps ==
    ASSUME OutboxInv, NEW e \in EventKey, OutboxLeaseLapses(e)
    PROVE  OutboxInv'
  <1>1. /\ record' = [record EXCEPT ![e].lapsed = TRUE]
        /\ UNCHANGED <<row, hooks, owed, got, pass>>
    BY DEF OutboxLeaseLapses
  <1>2. /\ record' \in [EventKey -> OutboxRecord]
        /\ \A d \in EventKey : /\ record'[d].state = record[d].state
                               /\ record'[d].attempts = record[d].attempts
    BY <1>1 DEF OutboxInv, OutboxTypeOK, OutboxRecord
  <1>3. OutboxTypeOK'
    BY <1>1, <1>2 DEF OutboxInv, OutboxTypeOK
  <1>4. \A q \in Pass : Sound(q)'
    BY <1>1, <1>2, PassKept
  <1>5. DeliveredReachedAll' /\ OwedIsRegistered'
    BY <1>1, <1>2, DeliveredKept DEF OutboxInv, OwedIsRegistered
  <1> QED
    BY <1>3, <1>4, <1>5 DEF OutboxInv

LEMMA OutboxInvStep == OutboxInv /\ [OutboxNext]_outboxVars => OutboxInv'
  <1> SUFFICES ASSUME OutboxInv, [OutboxNext]_outboxVars PROVE OutboxInv'
    OBVIOUS
  <1>1. CASE UNCHANGED outboxVars
    BY <1>1 DEF outboxVars, OutboxInv, OutboxTypeOK, OwedIsRegistered, DeliveredReachedAll, Sound,
                Begun, NothingToPost, StillToPost, AtHand
  <1>2. CASE OutboxNext
    BY <1>2, PublishKeeps, LapseKeeps, RegistrationKeeps, PassClaimKeeps, CompleteKeeps, FailKeeps,
       PassEndKeeps, PostKeeps DEF OutboxNext
  <1> QED
    BY <1>1, <1>2

-----------------------------------------------------------------------------
(* The promise. *)

fates == [e \in EventKey |-> [state |-> FateOf(record[e].state), tries |-> record[e].attempts]]

\* A step that keeps every record's fate, and all else but leases, is a stutter.
LEMMA Stutters ==
    ASSUME UNCHANGED <<hooks, owed, got>>,
           \A e \in EventKey : /\ FateOf(record'[e].state) = FateOf(record[e].state)
                               /\ record'[e].attempts = record[e].attempts
    PROVE  UNCHANGED Promise!promiseVars
  BY DEF Promise!promiseVars, Matching

\* A record that is settled under a lease is delivered, given up or open still.
LEMMA SettledFate ==
    ASSUME OutboxInv, NEW e \in EventKey, Leased(e), NEW state \in {"pending", "dead", "delivered"},
           record' = [record EXCEPT ![e].state = state, ![e].lapsed = FALSE]
    PROVE  /\ fates[e].state = "open" /\ fates[e].tries = record[e].attempts
           /\ fates' = [fates EXCEPT ![e].state = FateOf(state)]
           /\ state = "pending" => fates' = fates
  <1>1. /\ \A d \in EventKey \ {e} : record'[d] = record[d]
        /\ record'[e].state = state /\ record'[e].attempts = record[e].attempts
    BY DEF OutboxInv, OutboxTypeOK, OutboxRecord
  <1>2. fates[e].state = "open"
    BY DEF fates, Leased, FateOf
  <1>3. fates' = [d \in EventKey |-> IF d = e THEN [state |-> FateOf(state), tries |-> record[e].attempts]
                                     ELSE fates[d]]
    BY <1>1 DEF fates
  <1>4. fates[e] = [state |-> "open", tries |-> record[e].attempts]
    BY <1>2 DEF fates
  <1>5. fates' = [fates EXCEPT ![e].state = FateOf(state)]
    BY <1>3, <1>4 DEF fates
  <1>6. state = "pending" => fates' = fates
    BY <1>3, <1>4 DEF fates, FateOf
  <1> QED
    BY <1>2, <1>4, <1>5, <1>6

\* Every step of the outbox is one the promise allows, or none.
LEMMA StepPromise ==
    ASSUME OutboxInv, [OutboxNext]_outboxVars
    PROVE  [Promise!Next]_(Promise!promiseVars)
  <1> USE DEF fates
  <1>1. CASE UNCHANGED outboxVars
    BY <1>1, Stutters DEF outboxVars
  <1>2. ASSUME NEW e \in EventKey, PublishEvent(e) PROVE Promise!Publish(e)
    <2>1. fates[e].state = "none" /\ fates[e] = [state |-> "none", tries |-> record[e].attempts]
      BY <1>2 DEF PublishEvent, FateOf
    <2>2. \A d \in EventKey : /\ d # e => record'[d] = record[d]
                             /\ record'[e].state = "pending" /\ record'[e].attempts = record[e].attempts
      BY <1>2 DEF PublishEvent, OutboxInv, OutboxTypeOK, OutboxRecord
    <2>3. fates' = [fates EXCEPT ![e].state = "open"]
      BY <2>1, <2>2 DEF FateOf
    <2>4. UNCHANGED <<hooks, got>> /\ owed' = [owed EXCEPT ![e] = Matching]
      BY <1>2 DEF PublishEvent
    <2> QED
      BY <2>1, <2>3, <2>4 DEF Promise!Publish, Matching
  <1>3. ASSUME NEW e \in EventKey, OutboxLeaseLapses(e) PROVE UNCHANGED Promise!promiseVars
    <2>1. \A d \in EventKey : /\ record'[d].state = record[d].state
                             /\ record'[d].attempts = record[d].attempts
      BY <1>3 DEF OutboxLeaseLapses, OutboxInv, OutboxTypeOK, OutboxRecord
    <2> QED
      BY <1>3, <2>1, Stutters DEF OutboxLeaseLapses
  <1>4. ASSUME NEW w \in Webhook, CreateWebhook(w) PROVE Promise!Subscribe(w)
    <2>1. Matching' = Matching \cup {w}
      BY <1>4 DEF CreateWebhook, Matching, OutboxInv, OutboxTypeOK
    <2> QED
      BY <1>4, <2>1 DEF CreateWebhook, Promise!Subscribe
  <1>5. ASSUME NEW w \in Webhook, DisableWebhook(w) PROVE Promise!Unsubscribe(w)
    <2>1. Matching' = Matching \ {w}
      BY <1>5 DEF DisableWebhook, Matching, OutboxInv, OutboxTypeOK
    <2> QED
      BY <1>5, <2>1 DEF DisableWebhook, Promise!Unsubscribe
  <1>6. ASSUME NEW p \in Pass, ClaimOutbox(p) PROVE \E E \in SUBSET EventKey : Promise!Try(E)
    <2>1. OutboxBatch \in SUBSET EventKey
      BY DEF OutboxBatch, ClaimableRecords
    <2>2. \A e \in OutboxBatch : record[e].state \in {"pending", "leased"}
      BY DEF OutboxBatch, ClaimableRecords, ClaimableRecord
    <2>3. \A e \in OutboxBatch : fates[e].state = "open"
      BY <2>1, <2>2 DEF FateOf
    <2>4. ASSUME NEW e \in EventKey
          PROVE  fates'[e] = IF e \in OutboxBatch THEN [fates[e] EXCEPT !.tries = @ + 1] ELSE fates[e]
      <3>1. CASE e \in OutboxBatch
        <4>1. record'[e].state = "leased" /\ record'[e].attempts = record[e].attempts + 1
          BY <1>6, <3>1 DEF ClaimOutbox
        <4>2. fates'[e] = [state |-> "open", tries |-> record[e].attempts + 1]
          BY <4>1 DEF FateOf
        <4>3. fates[e] = [state |-> "open", tries |-> record[e].attempts]
          BY <2>2, <3>1 DEF FateOf
        <4> QED
          BY <3>1, <4>2, <4>3
      <3>2. CASE e \notin OutboxBatch
        BY <1>6, <3>2 DEF ClaimOutbox
      <3> QED
        BY <3>1, <3>2
    <2>5. fates' = [e \in EventKey |-> IF e \in OutboxBatch THEN [fates[e] EXCEPT !.tries = @ + 1]
                                      ELSE fates[e]]
      BY <2>4
    <2>6. UNCHANGED <<hooks, owed, got>>
      BY <1>6 DEF ClaimOutbox
    <2>7. PICK E \in SUBSET EventKey : E = OutboxBatch
      BY <2>1
    <2>8. Promise!Try(E)
      BY <2>3, <2>5, <2>6, <2>7 DEF Promise!Try, Matching
    <2> QED
      BY <2>8
  <1>7. ASSUME NEW p \in Pass, NEW w \in Webhook, PostWebhook(p, w)
        PROVE  \E e \in EventKey : Promise!Reach(e, w)
    <2>1. PICK e \in EventKey : e = pass[p].now /\ e \in AtHand(p)
      BY <1>7, OutboxAssumption DEF PostWebhook, AtHand, OutboxInv, OutboxTypeOK, Sound, NothingToPost
    <2>2. fates[e].tries > 0
      BY <2>1 DEF OutboxInv, Sound, Begun
    <2>3. UNCHANGED <<record, hooks, owed>> /\ got' = [got EXCEPT ![e] = @ \cup {w}]
      BY <1>7, <2>1 DEF PostWebhook
    <2>4. UNCHANGED Matching /\ fates' = fates
      BY <2>3 DEF Matching
    <2>5. Promise!Reach(e, w)
      BY <2>2, <2>3, <2>4 DEF Promise!Reach
    <2> QED
      BY <2>5
  <1>8. ASSUME NEW p \in Pass, CompleteOutbox(p)
        PROVE  (\E e \in EventKey : Promise!Deliver(e)) \/ UNCHANGED Promise!promiseVars
    <2>0. PICK e \in EventKey : e = pass[p].now /\ e # NoEvent
      BY <1>8 DEF CompleteOutbox, OutboxInv, OutboxTypeOK
    <2>1. /\ pass[p].todo = {}
          /\ UNCHANGED <<hooks, owed, got>> /\ UNCHANGED Matching
      BY <1>8 DEF CompleteOutbox, PostedAll, Matching
    <2>2. owed[e] \cap Matching \subseteq got[e]
      BY <2>0, <2>1 DEF OutboxInv, Sound, StillToPost, Matching
    <2>3. CASE Leased(e)
      <3>1. record' = [record EXCEPT ![e].state = "delivered", ![e].lapsed = FALSE]
        BY <1>8, <2>0, <2>3 DEF CompleteOutbox
      <3>2. /\ fates[e].state = "open"
            /\ fates' = [fates EXCEPT ![e].state = "delivered"]
        <4>1. FateOf("delivered") = "delivered"
          BY DEF FateOf
        <4> HIDE DEF fates
        <4> QED
          BY <2>1, <2>3, <3>1, <4>1, SettledFate
      <3>3. Promise!Deliver(e)
        BY <2>1, <2>2, <3>2 DEF Promise!Deliver
      <3> QED
        BY <3>3
    <2>4. CASE ~Leased(e)
      BY <1>8, <2>0, <2>1, <2>4, Stutters DEF CompleteOutbox
    <2> QED
      BY <2>3, <2>4
  <1>9. ASSUME NEW p \in Pass, FailOutbox(p)
        PROVE  (\E e \in EventKey : Promise!Bury(e)) \/ UNCHANGED Promise!promiseVars
    <2>0. PICK e \in EventKey : e = pass[p].now
      BY <1>9 DEF FailOutbox, OutboxInv, OutboxTypeOK, Sound, NothingToPost
    <2> DEFINE state == IF Spent(e) THEN "dead" ELSE "pending"
    <2>1. UNCHANGED <<hooks, owed, got>> /\ UNCHANGED Matching
      BY <1>9 DEF FailOutbox, Matching
    <2>2. CASE Leased(e)
      <3>1. record' = [record EXCEPT ![e].state = state, ![e].lapsed = FALSE]
        BY <1>9, <2>0, <2>2 DEF FailOutbox
      <3>2. /\ fates[e].state = "open" /\ fates[e].tries = record[e].attempts
            /\ fates' = [fates EXCEPT ![e].state = FateOf(state)]
            /\ state = "pending" => fates' = fates
        <4>1. state \in {"pending", "dead", "delivered"}
          OBVIOUS
        <4> HIDE DEF fates, state
        <4> QED
          BY <2>1, <2>2, <3>1, <4>1, SettledFate
      <3>3. CASE Spent(e)
        <4>1. fates[e].tries >= MaxFailures /\ FateOf(state) = "dead"
          BY <3>2, <3>3 DEF Spent, FateOf
        <4> HIDE DEF state
        <4>2. Promise!Bury(e)
          BY <2>1, <3>2, <4>1 DEF Promise!Bury
        <4> QED
          BY <4>2
      <3>4. CASE ~Spent(e)
        BY <2>1, <3>2, <3>4 DEF Promise!promiseVars
      <3> QED
        BY <3>3, <3>4
    <2>3. CASE ~Leased(e)
      BY <1>9, <2>0, <2>1, <2>3, Stutters DEF FailOutbox
    <2> QED
      BY <2>2, <2>3
  <1>10. ASSUME NEW p \in Pass, PassEnds(p) PROVE UNCHANGED Promise!promiseVars
    BY <1>10, Stutters DEF PassEnds
  <1> QED
    BY <1>1, <1>2, <1>3, <1>4, <1>5, <1>6, <1>7, <1>8, <1>9, <1>10 DEF OutboxNext, Promise!Next

-----------------------------------------------------------------------------
(* Theorems. *)

\* The invariant: passes work on claimed events only, and owe them no more posts than
\* they have still to make.
THEOREM OutboxInvariance == OutboxSpec => []OutboxInv
  BY OutboxInvInit, OutboxInvStep, PTL DEF OutboxSpec

\* Every variable keeps its type.
THEOREM OutboxTypeCorrect == OutboxSpec => []OutboxTypeOK
  <1>1. OutboxInv => OutboxTypeOK
    BY DEF OutboxInv
  <1> QED
    BY <1>1, OutboxInvariance, PTL

\* What is delivered reached every webhook that was enabled from its publication on,
\* however passes overlap (runOnce, deliverWebhookEvent, completeOutbox).
THEOREM DeliveredToAll == OutboxSpec => []DeliveredReachedAll
  <1>1. OutboxInv => DeliveredReachedAll
    BY DEF OutboxInv
  <1> QED
    BY <1>1, OutboxInvariance, PTL

\* The outbox, with leases that tell no pass from another, keeps the promise made of
\* published events (claimOutbox, completeOutbox, failOutbox, requireLease).
THEOREM PromiseKept == OutboxSpec => ImplementsPromise
  <1>1. OutboxInit => Promise!Init
    BY DEF OutboxInit, Promise!Init, FateOf, Matching
  <1>2. OutboxInv /\ [OutboxNext]_outboxVars => [Promise!Next]_(Promise!promiseVars)
    BY StepPromise
  <1> QED
    BY <1>1, <1>2, OutboxInvariance, PTL DEF OutboxSpec, ImplementsPromise, Promise!Spec

-----------------------------------------------------------------------------
(***************************************************************************)
(* Proofs about DeviceCommands, for any apps, actions, numbers of commands *)
(* and tries.  Grant ids are never given twice (GrantsGiven), so the grant *)
(* a withdrawn command was made under is not its app's again, nor is a     *)
(* revoked device paired again (WithdrawnForGood): SPMT's check at a       *)
(* claim, a heartbeat and a report refuses the command for good.  A        *)
(* receipt says that the adapter was done (Receipted), and the Companion   *)
(* is past its look for one whenever it calls the adapter (AtWork).        *)
(***************************************************************************)

Rows ==
    \A c \in Commands : command[c] # NoCommand =>
      /\ command[c].state = "queued" => command[c].try < MaxTries
      /\ command[c].by = "service" => command[c].grant \in 1..grants

GrantsGiven ==
    \A a \in DeviceApp :
      /\ automation[a].id <= grants
      /\ automation[a].id = 0 => automation[a].actions = {}

WithdrawnForGood ==
    \A c \in Commands : withdrawn[c] =>
      /\ command[c] # NoCommand
      /\ \/ device = "revoked"
         \/ command[c].by = "service" /\ automation[command[c].app].id # command[c].grant

Receipted ==
    \A c \in Commands :
      /\ receipts[c] = "completed" => applied[c] > 0
      /\ command[c].state = "succeeded" => receipts[c] = "completed"

AtWork ==
    /\ companion.at \notin {"down", "idle"} => companion.id \in Commands
    /\ companion.at \in {"adapting", "applied"} => receipts[companion.id] = "none"
    /\ companion.at = "applied" => applied[companion.id] > 0
    /\ companion.at = "reporting" => receipts[companion.id] = "completed"

DeviceInv == DeviceTypeOK /\ Rows /\ GrantsGiven /\ WithdrawnForGood /\ Receipted /\ AtWork

-----------------------------------------------------------------------------
(* Rows of the job table. *)

\* A row that is there has a state of a job's.
LEMMA RowThere ==
    ASSUME NEW job \in Command \cup {NoCommand}
    PROVE  /\ job = NoCommand <=> job.state = "none"
           /\ job # NoCommand => job \in Command
  BY DEF Command, NoCommand

\* A step that only moves the jobs, each in its place or into an empty one, keeps the
\* invariant of the jobs, when those it ends well have their receipt.
Moved(job, next) ==
    /\ next \in Command
    /\ next.state = "queued" => next.try < MaxTries
    /\ next.by = "service" => next.grant \in 1..grants
    /\ job = NoCommand \/ (job.app = next.app /\ job.by = next.by /\ job.grant = next.grant)

LEMMA JobsMoved ==
    ASSUME DeviceInv, UNCHANGED <<permissionVars, withdrawn, receipts, applied>>,
           command' \in [Commands -> Command \cup {NoCommand}],
           \A c \in Commands :
             \/ command'[c] = command[c]
             \/ /\ Moved(command[c], command'[c])
                /\ command'[c].state = "succeeded" => receipts[c] = "completed"
    PROVE  Rows' /\ GrantsGiven' /\ WithdrawnForGood' /\ Receipted'
  <1> USE DEF permissionVars
  <1>1. \A c \in Commands : command'[c] # command[c] => command'[c] # NoCommand
    BY RowThere DEF Moved, Command
  <1>2. Rows'
    BY DEF DeviceInv, Rows, Moved
  <1>3. GrantsGiven'
    BY DEF DeviceInv, GrantsGiven
  <1>4. WithdrawnForGood'
    BY <1>1 DEF DeviceInv, WithdrawnForGood, Moved
  <1>5. Receipted'
    BY DEF DeviceInv, Receipted
  <1> QED
    BY <1>2, <1>3, <1>4, <1>5

-----------------------------------------------------------------------------
(* Initial states. *)

LEMMA DeviceInvInit == DeviceInit => DeviceInv
  <1> SUFFICES ASSUME DeviceInit PROVE DeviceInv
    OBVIOUS
  <1> USE DeviceAssumption
  <1>1. DeviceTypeOK
    <2>1. At("down") \in Companion
      BY DEF Companion, At, Stage
    <2>2. NotGranted \in AutomationGrant
      BY DEF AutomationGrant, NotGranted
    <2> QED
      BY <2>1, <2>2 DEF DeviceInit, DeviceTypeOK
  <1>2. Rows /\ GrantsGiven /\ WithdrawnForGood
    BY DEF DeviceInit, Rows, GrantsGiven, WithdrawnForGood, NotGranted
  <1>3. Receipted /\ AtWork
    BY DEF DeviceInit, Receipted, AtWork, At, NoCommand
  <1> QED
    BY <1>1, <1>2, <1>3 DEF DeviceInv

-----------------------------------------------------------------------------
(* Steps of the owner. *)

\* What no step of the owner's touches stays as it is, and no grant id is taken back.
LEMMA OwnerMoves ==
    ASSUME DeviceInv, UNCHANGED <<command, companion, receipts, applied>>,
           grants' \in Nat, grants' >= grants
    PROVE  Rows' /\ Receipted' /\ AtWork'
  <1>1. Rows'
    <2> SUFFICES ASSUME NEW c \in Commands, command[c] # NoCommand
                 PROVE  /\ command[c].state = "queued" => command[c].try < MaxTries
                        /\ command[c].by = "service" => command[c].grant \in 1..grants'
      BY DEF Rows
    <2> QED
      BY DEF DeviceInv, Rows, DeviceTypeOK
  <1>2. Receipted' /\ AtWork'
    BY DEF DeviceInv, Receipted, AtWork
  <1> QED
    BY <1>1, <1>2

\* Once noted, a withdrawal stays one: the grant's id is not given again.
LEMMA WithdrawalsNoted ==
    ASSUME DeviceInv, NoteWithdrawals, UNCHANGED command,
           device' = "revoked" <=> device = "revoked",
           \A a \in DeviceApp : automation'[a] = automation[a] \/ automation'[a].id \in {0, grants + 1}
    PROVE  WithdrawnForGood' /\ withdrawn' \in [Commands -> BOOLEAN]
  <1>1. withdrawn' \in [Commands -> BOOLEAN]
    BY DEF NoteWithdrawals
  <1> SUFFICES ASSUME NEW c \in Commands, withdrawn'[c]
               PROVE  /\ command[c] # NoCommand
                      /\ \/ device' = "revoked"
                         \/ /\ command[c].by = "service"
                            /\ automation'[command[c].app].id # command[c].grant
    BY <1>1 DEF WithdrawnForGood
  <1>2. CASE withdrawn[c]
    <2>1. command[c] # NoCommand /\ command[c] \in Command
      BY <1>2, RowThere DEF DeviceInv, WithdrawnForGood, DeviceTypeOK
    <2>2. CASE device = "revoked"
      BY <2>1, <2>2
    <2>3. CASE command[c].by = "service" /\ automation[command[c].app].id # command[c].grant
      <3>1. command[c].app \in DeviceApp /\ command[c].grant \in 1..grants /\ grants \in Nat
        BY <2>1, <2>3 DEF DeviceInv, Rows, DeviceTypeOK, Command
      <3> QED
        BY <2>1, <2>3, <3>1
    <2> QED
      BY <1>2, <2>2, <2>3 DEF DeviceInv, WithdrawnForGood
  <1>3. CASE ~withdrawn[c]
    BY <1>3 DEF NoteWithdrawals
  <1> QED
    BY <1>2, <1>3

\* The device is paired, with or without a code.
LEMMA PairKeeps ==
    ASSUME DeviceInv, Pair, UNCHANGED <<grants, enabled, command, companion, receipts, applied>>,
           codes' \in Nat, identity' \in {"none", "live", "revoked"}, saved' \in BOOLEAN
    PROVE  DeviceInv'
  <1>1. \A a \in DeviceApp : automation'[a] = NotGranted
    BY DEF Pair
  <1>2. WithdrawnForGood' /\ withdrawn' \in [Commands -> BOOLEAN]
    BY <1>1, WithdrawalsNoted DEF Pair, NotGranted
  <1>3. GrantsGiven'
    BY <1>1 DEF GrantsGiven, NotGranted, DeviceInv, DeviceTypeOK
  <1>4. DeviceTypeOK'
    <2>1. automation' \in [DeviceApp -> AutomationGrant]
      BY DEF Pair, NotGranted, AutomationGrant
    <2> QED
      BY <1>2, <2>1 DEF DeviceInv, DeviceTypeOK, Pair
  <1>5. grants' \in Nat /\ grants' >= grants
    BY DEF DeviceInv, DeviceTypeOK
  <1> QED
    BY <1>2, <1>3, <1>4, <1>5, OwnerMoves DEF DeviceInv

LEMMA AutomationKeeps ==
    ASSUME DeviceInv, NEW a \in DeviceApp, NEW actions \in SUBSET DeviceAction,
           SetDeviceAutomation(a, actions)
    PROVE  DeviceInv'
  <1> DEFINE new == automation'[a]
  <1>1. grants \in Nat /\ automation \in [DeviceApp -> AutomationGrant]
    BY DEF DeviceInv, DeviceTypeOK
  <1>2. /\ automation' = [automation EXCEPT ![a] = new]
        /\ new \in AutomationGrant
        /\ \/ new = NotGranted /\ grants' = grants
           \/ new.id = grants + 1 /\ grants' = grants + 1
    <2>1. CASE actions = {}
      BY <1>1, <2>1 DEF SetDeviceAutomation, NotGranted, AutomationGrant
    <2>2. CASE actions # {}
      BY <1>1, <2>2 DEF SetDeviceAutomation, AutomationGrant
    <2> QED
      BY <2>1, <2>2
  <1>3. grants' \in Nat /\ grants' >= grants
    BY <1>1, <1>2
  <1>4. GrantsGiven'
    BY <1>1, <1>2 DEF DeviceInv, GrantsGiven, NotGranted, AutomationGrant
  <1>5. WithdrawnForGood' /\ withdrawn' \in [Commands -> BOOLEAN]
    <2>1. \A b \in DeviceApp : automation'[b] = automation[b] \/ automation'[b].id \in {0, grants + 1}
      BY <1>1, <1>2 DEF NotGranted
    <2> QED
      BY <2>1, WithdrawalsNoted DEF SetDeviceAutomation
  <1>6. DeviceTypeOK'
    <2>1. automation' \in [DeviceApp -> AutomationGrant]
      BY <1>1, <1>2
    <2> QED
      BY <1>3, <1>5, <2>1 DEF DeviceInv, DeviceTypeOK, SetDeviceAutomation, localVars
  <1> QED
    BY <1>3, <1>4, <1>5, <1>6, OwnerMoves DEF DeviceInv, SetDeviceAutomation, localVars

LEMMA OwnerKeeps ==
    ASSUME DeviceInv,
           \/ PairDevice \/ CreateDeviceBootstrap \/ BootstrapEnds \/ ExchangeDeviceBootstrap
           \/ RevokeDevice
           \/ \E a \in DeviceApp :
                SetInstalled(a) \/ \E actions \in SUBSET DeviceAction : SetDeviceAutomation(a, actions)
    PROVE  DeviceInv'
  <1>0. /\ grants \in Nat /\ codes \in Nat /\ enabled \subseteq DeviceApp
        /\ identity \in {"none", "live", "revoked"} /\ saved \in BOOLEAN
    BY DEF DeviceInv, DeviceTypeOK
  <1>1. CASE PairDevice
    BY <1>0, <1>1, PairKeeps DEF PairDevice, localVars
  <1>2. CASE ExchangeDeviceBootstrap
    <2>1. codes' \in Nat /\ identity' \in {"none", "live", "revoked"} /\ saved' \in BOOLEAN
      BY <1>0, <1>2 DEF ExchangeDeviceBootstrap
    <2> QED
      BY <1>2, <2>1, PairKeeps DEF ExchangeDeviceBootstrap
  <1>3. CASE CreateDeviceBootstrap \/ BootstrapEnds \/ \E a \in DeviceApp : SetInstalled(a)
    <2>1. /\ UNCHANGED <<device, automation, grants, identity, command, withdrawn, companion,
                         saved, receipts, applied>>
          /\ codes' \in Nat /\ enabled' \subseteq DeviceApp
      BY <1>0, <1>3 DEF CreateDeviceBootstrap, BootstrapEnds, SetInstalled, localVars
    <2>2. DeviceTypeOK'
      BY <2>1 DEF DeviceInv, DeviceTypeOK
    <2>3. GrantsGiven' /\ WithdrawnForGood'
      BY <2>1 DEF DeviceInv, GrantsGiven, WithdrawnForGood
    <2> QED
      BY <1>0, <2>1, <2>2, <2>3, OwnerMoves DEF DeviceInv
  <1>4. CASE RevokeDevice
    <2>1. /\ UNCHANGED <<automation, grants, enabled, codes, command, companion, saved, receipts,
                         applied>>
          /\ device' = "revoked" /\ identity' \in {"none", "live", "revoked"}
          /\ withdrawn' = [c \in Commands |-> withdrawn[c] \/ command[c] # NoCommand]
      BY <1>0, <1>4 DEF RevokeDevice, localVars
    <2>2. withdrawn' \in [Commands -> BOOLEAN]
      BY <2>1 DEF DeviceInv, DeviceTypeOK
    <2>3. DeviceTypeOK'
      BY <2>1, <2>2 DEF DeviceInv, DeviceTypeOK
    <2>4. GrantsGiven' /\ WithdrawnForGood'
      BY <2>1 DEF DeviceInv, GrantsGiven, WithdrawnForGood
    <2> QED
      BY <1>0, <2>1, <2>3, <2>4, OwnerMoves DEF DeviceInv
  <1> QED
    BY <1>1, <1>2, <1>3, <1>4, AutomationKeeps

-----------------------------------------------------------------------------
(* Steps of SPMT's jobs. *)

\* What a step of the jobs leaves alone.
LEMMA JobsKeep ==
    ASSUME DeviceInv, UNCHANGED <<permissionVars, withdrawn, localVars>>,
           command' \in [Commands -> Command \cup {NoCommand}],
           \A c \in Commands :
             \/ command'[c] = command[c]
             \/ /\ Moved(command[c], command'[c])
                /\ command'[c].state = "succeeded" => receipts[c] = "completed",
           companion' \in Companion,
           companion'.at \notin {"down", "idle"} => companion'.id \in Commands,
           companion'.at \notin {"adapting", "applied", "reporting"}
    PROVE  DeviceInv'
  <1>1. Rows' /\ GrantsGiven' /\ WithdrawnForGood' /\ Receipted'
    BY JobsMoved DEF localVars
  <1>2. DeviceTypeOK'
    BY DEF DeviceInv, DeviceTypeOK, permissionVars, localVars
  <1>3. AtWork'
    BY DEF AtWork
  <1> QED
    BY <1>1, <1>2, <1>3 DEF DeviceInv

\* The same, the Companion having no part in it.
LEMMA JobsAlone ==
    ASSUME DeviceInv, UNCHANGED <<permissionVars, withdrawn, companion, localVars>>,
           command' \in [Commands -> Command \cup {NoCommand}],
           \A c \in Commands :
             \/ command'[c] = command[c]
             \/ Moved(command[c], command'[c]) /\ command'[c].state # "succeeded"
    PROVE  DeviceInv'
  <1>1. Rows' /\ GrantsGiven' /\ WithdrawnForGood' /\ Receipted'
    BY JobsMoved DEF localVars
  <1>2. DeviceTypeOK' /\ AtWork'
    BY DEF DeviceInv, DeviceTypeOK, AtWork, permissionVars, localVars
  <1> QED
    BY <1>1, <1>2 DEF DeviceInv

\* A command is queued under the grant its app has.
LEMMA CreateKeeps ==
    ASSUME DeviceInv, NEW a \in DeviceApp, NEW by \in {"user", "service"}, NEW action \in DeviceAction,
           CreateDeviceJob(a, by, action)
    PROVE  DeviceInv'
  <1> DEFINE job == [state |-> "queued", app |-> a, by |-> by, action |-> action, try |-> 0,
                     grant |-> IF by = "service" THEN automation[a].id ELSE 0, live |-> FALSE]
  <1>1. PICK c \in Commands : command[c] = NoCommand /\ command' = [command EXCEPT ![c] = job]
    BY DEF CreateDeviceJob
  <1>2. automation[a].id \in Nat /\ automation[a].id <= grants /\ grants \in Nat
    BY DEF DeviceInv, GrantsGiven, DeviceTypeOK, AutomationGrant
  <1>3. by = "service" => automation[a].id # 0
    BY DEF CreateDeviceJob, MayRequest, DeviceInv, GrantsGiven
  <1>4. job \in Command
    BY <1>2, DeviceAssumption DEF Command
  <1>5. Moved(NoCommand, job) /\ job.state # "succeeded"
    BY <1>2, <1>3, <1>4, DeviceAssumption DEF Moved
  <1>6. command \in [Commands -> Command \cup {NoCommand}]
    BY DEF DeviceInv, DeviceTypeOK
  <1>7. /\ command' \in [Commands -> Command \cup {NoCommand}]
        /\ \A d \in Commands : command'[d] = command[d] \/ (d = c /\ command'[d] = job)
    BY <1>1, <1>4, <1>6
  <1>8. \A d \in Commands :
             \/ command'[d] = command[d]
             \/ Moved(command[d], command'[d]) /\ command'[d].state # "succeeded"
    BY <1>1, <1>5, <1>7
  <1> QED
    BY <1>7, <1>8, JobsAlone DEF CreateDeviceJob

\* A row that changes its state, its lease or its attempt.
Row(job, state, try, live) == [job EXCEPT !.state = state, !.try = try, !.live = live]

LEMMA RowMoves ==
    ASSUME DeviceInv, NEW c \in Commands, command[c] # NoCommand,
           NEW state \in {"queued", "leased", "running", "succeeded", "failed", "dead-letter",
                          "cancelled"},
           NEW try \in 0..MaxTries, NEW live \in BOOLEAN,
           state = "queued" => try < MaxTries
    PROVE  LET next == Row(command[c], state, try, live)
           IN  Moved(command[c], next) /\ next.state = state
  <1> DEFINE next == Row(command[c], state, try, live)
  <1>1. command[c] \in Command
    BY RowThere DEF DeviceInv, DeviceTypeOK
  <1>2. /\ next \in Command /\ next.state = state /\ next.try = try
        /\ next.app = command[c].app /\ next.by = command[c].by /\ next.grant = command[c].grant
    BY <1>1 DEF Command, Row
  <1>3. command[c].by = "service" => command[c].grant \in 1..grants
    BY DEF DeviceInv, Rows
  <1> QED
    BY <1>2, <1>3 DEF Moved

LEMMA SweptMoves ==
    ASSUME DeviceInv, NEW c \in Commands
    PROVE  \/ Swept(command[c]) = command[c]
           \/ Moved(command[c], Swept(command[c])) /\ Swept(command[c]).state # "succeeded"
  <1>1. CASE Underway(command[c]) /\ ~command[c].live
    <2> DEFINE state == IF command[c].try >= MaxTries THEN "dead-letter" ELSE "queued"
    <2>1. command[c] # NoCommand /\ command[c] \in Command
      BY <1>1, RowThere DEF Underway, DeviceInv, DeviceTypeOK
    <2>2. /\ Swept(command[c]) = Row(command[c], state, command[c].try, command[c].live)
          /\ command[c].try \in 0..MaxTries /\ command[c].live \in BOOLEAN
      BY <1>1, <2>1 DEF Swept, Command, Row
    <2>3. state = "queued" => command[c].try < MaxTries
      BY <2>2, DeviceAssumption
    <2> HIDE DEF state
    <2>4. state \in {"queued", "dead-letter"}
      BY DEF state
    <2> QED
      BY <2>1, <2>2, <2>3, <2>4, RowMoves
  <1>2. CASE ~(Underway(command[c]) /\ ~command[c].live)
    BY <1>2 DEF Swept
  <1> QED
    BY <1>1, <1>2

\* One row moves.
LEMMA OneMoves ==
    ASSUME DeviceInv, NEW c \in Commands, NEW next, Moved(command[c], next),
           command' = [command EXCEPT ![c] = next]
    PROVE  /\ command' \in [Commands -> Command \cup {NoCommand}]
           /\ command'[c] = next
           /\ \A d \in Commands : d # c => command'[d] = command[d]
  BY DEF DeviceInv, DeviceTypeOK, Moved

LEMMA QueueKeeps ==
    ASSUME DeviceInv, NEW c \in Commands, CancelDeviceJob(c) \/ CommandLeaseExpires(c)
    PROVE  DeviceInv'
  <1>1. command[c] # NoCommand /\ command[c] \in Command
    BY RowThere DEF CancelDeviceJob, CommandLeaseExpires, Underway, DeviceInv, DeviceTypeOK
  <1>2. command[c].try \in 0..MaxTries
    BY <1>1 DEF Command
  <1>3. PICK state \in {"leased", "running", "cancelled"}, live \in BOOLEAN :
          command' = [command EXCEPT ![c] = Row(command[c], state, command[c].try, live)]
    <2>1. CASE CancelDeviceJob(c)
      <3>1. command' = [command EXCEPT ![c] = Row(command[c], "cancelled", command[c].try, FALSE)]
        BY <1>1, <2>1 DEF CancelDeviceJob, DeviceInv, DeviceTypeOK, Row, Command
      <3> QED
        BY <3>1
    <2>2. CASE CommandLeaseExpires(c)
      <3>1. command[c].state \in {"leased", "running"}
        BY <2>2 DEF CommandLeaseExpires, Underway
      <3>2. command' = [command EXCEPT ![c] = Row(command[c], command[c].state, command[c].try, FALSE)]
        BY <1>1, <2>2 DEF CommandLeaseExpires, DeviceInv, DeviceTypeOK, Row, Command
      <3> QED
        BY <3>1, <3>2
    <2> QED
      BY <2>1, <2>2
  <1> DEFINE next == Row(command[c], state, command[c].try, live)
  <1>4. Moved(command[c], next) /\ next.state = state
    BY <1>1, <1>2, RowMoves
  <1>5. command' = [command EXCEPT ![c] = next]
    BY <1>3
  <1> HIDE DEF next
  <1>6. /\ command' \in [Commands -> Command \cup {NoCommand}]
        /\ command'[c] = next
        /\ \A d \in Commands : d # c => command'[d] = command[d]
    BY <1>4, <1>5, OneMoves
  <1>7. UNCHANGED <<permissionVars, withdrawn, companion, localVars>>
    BY DEF CancelDeviceJob, CommandLeaseExpires
  <1> QED
    BY <1>4, <1>6, <1>7, JobsAlone

-----------------------------------------------------------------------------
(* Steps of the Companion. *)

LEMMA Outside == \A stage \in {"down", "idle"} : At(stage) \in Companion /\ At(stage).at = stage
  BY DeviceAssumption DEF At, Companion, Stage

\* What may be claimed has a try left.
LEMMA TryLeft ==
    ASSUME DeviceInv, NEW c \in ClaimableCommands
    PROVE  command[c] # NoCommand /\ command[c] \in Command /\ command[c].try < MaxTries
  <1>1. c \in Commands /\ Swept(command[c]).state = "queued"
    BY DEF ClaimableCommands
  <1>2. command[c] # NoCommand
    BY <1>1 DEF Swept, Underway, NoCommand
  <1>3. command[c] \in Command
    BY <1>1, <1>2 DEF DeviceInv, DeviceTypeOK
  <1>4. CASE Underway(command[c]) /\ ~command[c].live
    <2>1. Swept(command[c]) =
            [command[c] EXCEPT !.state = IF command[c].try >= MaxTries THEN "dead-letter" ELSE "queued"]
      BY <1>4 DEF Swept
    <2>2. Swept(command[c]).state = IF command[c].try >= MaxTries THEN "dead-letter" ELSE "queued"
      BY <1>3, <2>1 DEF Command
    <2>3. command[c].try \in Nat /\ MaxTries \in Nat
      BY <1>3, DeviceAssumption DEF Command
    <2> QED
      BY <1>1, <1>2, <1>3, <2>2, <2>3
  <1>5. CASE ~(Underway(command[c]) /\ ~command[c].live)
    <2>1. Swept(command[c]) = command[c]
      BY <1>5 DEF Swept
    <2> QED
      BY <1>1, <1>2, <1>3, <2>1 DEF DeviceInv, Rows
  <1> QED
    BY <1>2, <1>3, <1>4, <1>5

LEMMA CommandClaimKeeps ==
    ASSUME DeviceInv, ClaimCommand
    PROVE  DeviceInv'
  <1>0. command \in [Commands -> Command \cup {NoCommand}]
    BY DEF DeviceInv, DeviceTypeOK
  <1>1. \A d \in Commands : Swept(command[d]) \in Command \cup {NoCommand}
    BY <1>0, SweptMoves DEF Moved
  <1>2. CASE ClaimableCommands = {}
    <2>1. command' = [c \in Commands |-> Swept(command[c])] /\ UNCHANGED companion
      BY <1>2 DEF ClaimCommand
    <2>2. command' \in [Commands -> Command \cup {NoCommand}]
      BY <1>1, <2>1
    <2>3. \A c \in Commands :
             \/ command'[c] = command[c]
             \/ Moved(command[c], command'[c]) /\ command'[c].state # "succeeded"
      BY <2>1, SweptMoves
    <2> QED
      BY <2>1, <2>2, <2>3, JobsAlone DEF ClaimCommand
  <1>3. CASE ClaimableCommands # {}
    <2>1. PICK c \in ClaimableCommands :
            /\ command' = [d \in Commands |->
                  IF d = c THEN [command[c] EXCEPT !.state = "leased", !.live = TRUE, !.try = @ + 1]
                           ELSE Swept(command[d])]
            /\ companion' \in {At("down"), [at |-> "claimed", id |-> c, retryable |-> FALSE,
                                            try |-> command[c].try + 1]}
      BY <1>3 DEF ClaimCommand
    <2>2. c \in Commands /\ command[c] # NoCommand /\ command[c] \in Command
          /\ command[c].try < MaxTries
      BY TryLeft DEF ClaimableCommands
    <2>3. command[c].try + 1 \in 0..MaxTries
      BY <2>2, DeviceAssumption DEF Command
    <2> DEFINE next == Row(command[c], "leased", command[c].try + 1, ~FALSE)
    <2>4. [command[c] EXCEPT !.state = "leased", !.live = TRUE, !.try = @ + 1] = next
      BY <2>2 DEF Row, Command
    <2>5. Moved(command[c], next) /\ next.state = "leased"
      <3>1. \A live \in BOOLEAN :
               LET moved == Row(command[c], "leased", command[c].try + 1, live)
               IN  Moved(command[c], moved) /\ moved.state = "leased"
        BY <2>2, <2>3, RowMoves
      <3> QED
        BY <3>1, Zenon
    <2> HIDE DEF next
    <2>6. command'[c] = next /\ \A d \in Commands : d # c => command'[d] = Swept(command[d])
      BY <2>1, <2>2, <2>4
    <2>7. command' \in [Commands -> Command \cup {NoCommand}]
      BY <1>1, <2>1, <2>4, <2>5 DEF Moved
    <2>8. \A d \in Commands :
             \/ command'[d] = command[d]
             \/ Moved(command[d], command'[d]) /\ command'[d].state # "succeeded"
      BY <2>5, <2>6, SweptMoves
    <2>9. /\ companion' \in Companion
          /\ companion'.at \in {"down", "claimed"}
          /\ companion'.at = "claimed" => companion'.id \in Commands
      <3>1. CASE companion' = At("down")
        BY <3>1, Outside
      <3>2. CASE companion' = [at |-> "claimed", id |-> c, retryable |-> FALSE,
                               try |-> command[c].try + 1]
        BY <2>2, <2>3, <3>2, DeviceAssumption DEF Companion, Stage, Commands
      <3> QED
        BY <2>1, <3>1, <3>2
    <2> QED
      BY <2>7, <2>8, <2>9, JobsKeep DEF ClaimCommand
  <1> QED
    BY <1>2, <1>3

\* What SPMT takes of the Companion moves its command on.
LEMMA AcceptedKeeps ==
    ASSUME DeviceInv, Accepted, companion.id \in Commands,
           UNCHANGED <<permissionVars, withdrawn, localVars>>,
           NEW state \in {"queued", "running", "succeeded", "failed", "dead-letter"},
           NEW live \in BOOLEAN,
           state = "queued" => command[companion.id].try < MaxTries,
           state = "succeeded" => receipts[companion.id] = "completed",
           command' = [command EXCEPT ![companion.id] =
                         Row(command[companion.id], state, command[companion.id].try, live)],
           companion' \in Companion,
           companion'.at \in {"down", "idle", "dispatching", "failing"},
           companion'.at \notin {"down", "idle"} => companion'.id \in Commands
    PROVE  DeviceInv'
  <1> DEFINE c == companion.id
             next == Row(command[c], state, command[c].try, live)
  <1>1. command[c] # NoCommand /\ command[c] \in Command
    BY RowThere DEF Accepted, Underway, NoCommand, DeviceInv, DeviceTypeOK
  <1>2. command[c].try \in 0..MaxTries
    BY <1>1 DEF Command
  <1>3. Moved(command[c], next) /\ next.state = state
    BY <1>1, <1>2, RowMoves
  <1> HIDE DEF next
  <1>4. command' = [command EXCEPT ![c] = next]
    BY DEF next
  <1>5. /\ command' \in [Commands -> Command \cup {NoCommand}]
        /\ command'[c] = next
        /\ \A d \in Commands : d # c => command'[d] = command[d]
    BY <1>3, <1>4, OneMoves
  <1>6. \A d \in Commands :
             \/ command'[d] = command[d]
             \/ /\ Moved(command[d], command'[d])
                /\ command'[d].state = "succeeded" => receipts[d] = "completed"
    BY <1>3, <1>5
  <1> QED
    BY <1>5, <1>6, JobsKeep

LEMMA ReportKeeps ==
    ASSUME DeviceInv, HeartbeatCommand \/ SucceedCommand \/ FailCommand
    PROVE  DeviceInv'
  <1>1. companion.id \in Commands /\ Accepted
    BY DEF DeviceInv, AtWork, HeartbeatCommand, SucceedCommand, FailCommand
  <1> DEFINE c == companion.id
  <1>2. command[c] \in Command /\ command \in [Commands -> Command \cup {NoCommand}]
    BY <1>1, RowThere DEF Accepted, Underway, NoCommand, DeviceInv, DeviceTypeOK
  <1>3. command[c].live \in BOOLEAN
    BY <1>2 DEF Command
  <1>5. CASE HeartbeatCommand
    <2>1. command' = [command EXCEPT ![c] = Row(command[c], "running", command[c].try, command[c].live)]
      BY <1>2, <1>5 DEF HeartbeatCommand, Row, Command
    <2>2. /\ companion' \in Companion /\ companion'.at \in {"dispatching", "failing"}
          /\ companion'.id = companion.id
      BY <1>5 DEF HeartbeatCommand, Turn, Throw, Stage, DeviceInv, DeviceTypeOK, Companion
    <2> QED
      BY <1>1, <1>3, <1>5, <2>1, <2>2, AcceptedKeeps DEF HeartbeatCommand
  <1>6. CASE SucceedCommand
    <2>1. PICK live \in BOOLEAN :
            command' = [command EXCEPT ![c] = Row(command[c], "succeeded", command[c].try, live)]
      <3>1. command' = [command EXCEPT ![c] = Row(command[c], "succeeded", command[c].try, FALSE)]
        BY <1>2, <1>6 DEF SucceedCommand, Row, Command
      <3> QED
        BY <3>1
    <2>2. /\ companion' \in Companion /\ companion'.at \in {"idle", "failing"}
          /\ companion'.id = companion.id \/ companion'.at = "idle"
      BY Outside, <1>6 DEF SucceedCommand, Throw, Stage, DeviceInv, DeviceTypeOK, Companion
    <2>3. receipts[c] = "completed"
      BY <1>6 DEF SucceedCommand, DeviceInv, AtWork
    <2> QED
      BY <1>1, <1>6, <2>1, <2>2, <2>3, AcceptedKeeps DEF SucceedCommand
  <1>7. CASE FailCommand
    <2> DEFINE state == FailureState(command[c])
    <2>1. state \in {"failed", "queued", "dead-letter"} /\ (state = "queued" => command[c].try < MaxTries)
      BY DEF FailureState
    <2> HIDE DEF state
    <2>2. PICK live \in BOOLEAN :
            command' = [command EXCEPT ![c] = Row(command[c], state, command[c].try, live)]
      <3>1. command' = [command EXCEPT ![c] = Row(command[c], state, command[c].try, FALSE)]
        BY <1>2, <1>7 DEF FailCommand, Row, Command, state
      <3> QED
        BY <3>1
    <2>3. companion' \in Companion /\ companion'.at \in {"idle", "down"}
      BY Outside, <1>7 DEF FailCommand
    <2> QED
      BY <1>1, <1>7, <2>1, <2>2, <2>3, AcceptedKeeps DEF FailCommand
  <1> QED
    BY <1>5, <1>6, <1>7

\* What it does on the device leaves SPMT alone.
LEMMA LocalKeeps ==
    ASSUME DeviceInv, UNCHANGED <<permissionVars, command, withdrawn, saved>>,
           companion' \in Companion,
           receipts' \in [Commands -> {"none", "completed", "rejected"}],
           applied' \in [Commands -> Nat],
           Receipted', AtWork'
    PROVE  DeviceInv'
  BY DEF DeviceInv, DeviceTypeOK, Rows, GrantsGiven, WithdrawnForGood, permissionVars

LEMMA CompanionKeeps ==
    ASSUME DeviceInv,
           \/ RestartCompanion \/ CompanionEnds \/ CallThrows
           \/ ReplayReceipt \/ RejectCommand \/ CallAdapter
           \/ AdapterApplies \/ RememberReceipt \/ AdapterFails
    PROVE  DeviceInv'
  <1> DEFINE c == companion.id
  <1>0. /\ companion \in Companion
        /\ receipts \in [Commands -> {"none", "completed", "rejected"}]
        /\ applied \in [Commands -> Nat]
        /\ Receipted /\ AtWork
    BY DEF DeviceInv, DeviceTypeOK
  <1>1. CASE RestartCompanion \/ CompanionEnds
    <2>1. companion' \in Companion /\ companion'.at \in {"down", "idle"}
      BY <1>1, Outside DEF RestartCompanion, CompanionEnds
    <2>2. UNCHANGED <<permissionVars, command, withdrawn, saved, receipts, applied>>
      BY <1>1 DEF RestartCompanion, CompanionEnds, localVars
    <2> QED
      BY <1>0, <2>1, <2>2, LocalKeeps DEF Receipted, AtWork
  <1>2. CASE CallThrows \/ ReplayReceipt \/ CallAdapter \/ AdapterFails
    <2>1. /\ companion.at \in {"claimed", "reporting", "dispatching", "adapting", "applied"}
          /\ UNCHANGED <<permissionVars, command, withdrawn, saved, receipts, applied>>
      BY <1>2 DEF CallThrows, ReplayReceipt, CallAdapter, AdapterFails, localVars
    <2>2. /\ companion' \in Companion /\ companion'.id = c
          /\ \/ companion'.at = "failing"
             \/ companion'.at = "reporting" /\ receipts[c] = "completed"
             \/ companion'.at = "adapting" /\ receipts[c] = "none"
      BY <1>0, <1>2 DEF CallThrows, ReplayReceipt, CallAdapter, AdapterFails, Turn, Throw,
                        Companion, Stage
    <2>3. AtWork' /\ Receipted'
      BY <1>0, <2>1, <2>2 DEF AtWork, Receipted
    <2> QED
      BY <1>0, <2>1, <2>2, <2>3, LocalKeeps
  <1>3. CASE RejectCommand
    <2>1. /\ companion.at = "dispatching" /\ receipts[c] = "none"
          /\ receipts' = [receipts EXCEPT ![c] = "rejected"]
          /\ UNCHANGED <<permissionVars, command, withdrawn, saved, applied>>
      BY <1>3 DEF RejectCommand
    <2>2. companion' \in Companion /\ companion'.id = c /\ companion'.at = "failing"
      BY <1>0, <1>3 DEF RejectCommand, Throw, Companion, Stage
    <2>3. AtWork' /\ Receipted'
      BY <1>0, <2>1, <2>2 DEF AtWork, Receipted
    <2> QED
      BY <1>0, <2>1, <2>2, <2>3, LocalKeeps
  <1>4. CASE AdapterApplies
    <2>1. /\ companion.at = "adapting"
          /\ applied' = [applied EXCEPT ![c] = @ + 1]
          /\ UNCHANGED <<permissionVars, command, withdrawn, saved, receipts>>
      BY <1>4 DEF AdapterApplies
    <2>2. companion' \in Companion /\ companion'.id = c /\ companion'.at = "applied"
      BY <1>0, <1>4 DEF AdapterApplies, Turn, Companion, Stage
    <2>3. c \in Commands /\ applied' \in [Commands -> Nat] /\ applied'[c] > 0
          /\ \A d \in Commands : applied[d] > 0 => applied'[d] > 0
      BY <1>0, <2>1 DEF AtWork
    <2>4. AtWork' /\ Receipted'
      BY <1>0, <2>1, <2>2, <2>3 DEF AtWork, Receipted
    <2> QED
      BY <1>0, <2>1, <2>2, <2>3, <2>4, LocalKeeps
  <1>5. CASE RememberReceipt
    <2>1. /\ companion.at = "applied"
          /\ receipts' = [receipts EXCEPT ![c] = "completed"]
          /\ UNCHANGED <<permissionVars, command, withdrawn, saved, applied>>
      BY <1>5 DEF RememberReceipt
    <2>2. companion' \in Companion /\ companion'.id = c /\ companion'.at = "reporting"
      BY <1>0, <1>5 DEF RememberReceipt, Turn, Companion, Stage
    <2>3. c \in Commands /\ applied[c] > 0
      BY <1>0, <2>1 DEF AtWork
    <2>4. AtWork' /\ Receipted'
      BY <1>0, <2>1, <2>2, <2>3 DEF AtWork, Receipted
    <2> QED
      BY <1>0, <2>1, <2>2, <2>4, LocalKeeps
  <1> QED
    BY <1>1, <1>2, <1>3, <1>4, <1>5

-----------------------------------------------------------------------------
(* Every step, and what follows. *)

LEMMA DeviceInvStep == DeviceInv /\ [DeviceNext]_deviceVars => DeviceInv'
  <1> SUFFICES ASSUME DeviceInv, [DeviceNext]_deviceVars PROVE DeviceInv'
    OBVIOUS
  <1>1. CASE UNCHANGED deviceVars
    BY <1>1 DEF deviceVars, permissionVars, localVars, DeviceInv, DeviceTypeOK, Rows, GrantsGiven,
                WithdrawnForGood, Receipted, AtWork
  <1>2. CASE DeviceNext
    BY <1>2, OwnerKeeps, AutomationKeeps, CreateKeeps, QueueKeeps, CommandClaimKeeps, ReportKeeps,
       CompanionKeeps DEF DeviceNext
  <1> QED
    BY <1>1, <1>2

\* The inductive invariant holds throughout.
THEOREM DeviceInvariance == DeviceSpec => []DeviceInv
  BY DeviceInvInit, DeviceInvStep, PTL DEF DeviceSpec

\* The state stays of its type.
THEOREM DeviceTypeCorrect == DeviceSpec => []DeviceTypeOK
  <1>1. DeviceInv => DeviceTypeOK
    BY DEF DeviceInv
  <1> QED
    BY <1>1, DeviceInvariance, PTL

\* A command that succeeded was carried out on the device, and the device has the receipt.
THEOREM SucceededApplied == DeviceSpec => []SucceededWasApplied
  <1>1. DeviceInv => SucceededWasApplied
    BY DEF DeviceInv, Receipted, SucceededWasApplied
  <1> QED
    BY <1>1, DeviceInvariance, PTL

-----------------------------------------------------------------------------
(* What no step does. *)

\* A command that SPMT moves on was authorized, or a sweep put it back.
LEMMA MovesAuthorized ==
    ASSUME DeviceInv, [DeviceNext]_deviceVars, NEW c \in Commands,
           command'[c].state \in {"leased", "running", "succeeded"}
    PROVE  \/ command'[c].state = command[c].state /\ command'[c].try = command[c].try
           \/ Authorized(command[c])
  <1>0. command \in [Commands -> Command \cup {NoCommand}]
    BY DEF DeviceInv, DeviceTypeOK
  <1>1. CASE UNCHANGED command
    BY <1>1
  <1>2. CASE \E a \in DeviceApp, by \in {"user", "service"}, action \in DeviceAction :
               CreateDeviceJob(a, by, action)
    <2>1. PICK a \in DeviceApp, by \in {"user", "service"}, action \in DeviceAction,
               d \in Commands :
            command' = [command EXCEPT ![d] =
                [state |-> "queued", app |-> a, by |-> by, action |-> action, try |-> 0,
                 grant |-> IF by = "service" THEN automation[a].id ELSE 0, live |-> FALSE]]
      BY <1>2 DEF CreateDeviceJob
    <2>2. c # d
      BY <1>0, <2>1
    <2> QED
      BY <1>0, <2>1, <2>2
  <1>3. CASE \E d \in Commands : CancelDeviceJob(d) \/ CommandLeaseExpires(d)
    <2>1. PICK d \in Commands : CancelDeviceJob(d) \/ CommandLeaseExpires(d)
      BY <1>3
    <2>2. command[d] \in Command
      <3>1. command[d].state # "none"
        BY <2>1 DEF CancelDeviceJob, CommandLeaseExpires, Underway
      <3> QED
        BY <1>0, <3>1, RowThere
    <2>3. CASE CancelDeviceJob(d)
      BY <1>0, <2>2, <2>3 DEF CancelDeviceJob, Command
    <2>4. CASE CommandLeaseExpires(d)
      BY <1>0, <2>2, <2>4 DEF CommandLeaseExpires, Command
    <2> QED
      BY <2>1, <2>3, <2>4
  <1>4. CASE ClaimCommand
    <2>1. command'[c] = Swept(command[c]) \/ c \in ClaimableCommands
      BY <1>4 DEF ClaimCommand
    <2>2. CASE c \in ClaimableCommands
      BY <2>2 DEF ClaimableCommands
    <2>3. CASE command'[c] = Swept(command[c])
      <3>1. CASE Underway(command[c]) /\ ~command[c].live
        <4>1. command[c] \in Command
          BY <3>1, RowThere DEF DeviceInv, DeviceTypeOK, Underway
        <4>2. Swept(command[c]).state \in {"dead-letter", "queued"}
          BY <3>1, <4>1 DEF Swept, Command
        <4> QED
          BY <2>3, <4>2
      <3>2. CASE ~(Underway(command[c]) /\ ~command[c].live)
        BY <2>3, <3>2 DEF Swept
      <3> QED
        BY <3>1, <3>2
    <2> QED
      BY <2>1, <2>2, <2>3
  <1>5. CASE HeartbeatCommand \/ SucceedCommand \/ FailCommand
    <2>1. Authorized(command[companion.id])
      BY <1>5 DEF HeartbeatCommand, SucceedCommand, FailCommand, Accepted
    <2>2. c # companion.id => command'[c] = command[c]
      BY <1>0, <1>5 DEF HeartbeatCommand, SucceedCommand, FailCommand
    <2> QED
      BY <2>1, <2>2
  <1>6. DeviceNext \/ UNCHANGED deviceVars
    OBVIOUS
  <1> QED
    BY <1>1, <1>2, <1>3, <1>4, <1>5, <1>6
       DEF DeviceNext, deviceVars, PairDevice, CreateDeviceBootstrap, BootstrapEnds,
           ExchangeDeviceBootstrap, RevokeDevice, SetInstalled, SetDeviceAutomation,
           RestartCompanion, CompanionEnds, CallThrows, ReplayReceipt, RejectCommand,
           CallAdapter, AdapterApplies, RememberReceipt, AdapterFails

\* A command the owner has withdrawn goes no further in SPMT, whatever is granted
\* afterwards.
THEOREM WithdrawnStop == DeviceSpec => WithdrawnGoesNoFurther
  <1>1. ASSUME DeviceInv, [DeviceNext]_deviceVars, NEW c \in Commands, withdrawn[c],
               command'[c].state \in {"leased", "running", "succeeded"}
        PROVE  command'[c].state = command[c].state /\ command'[c].try = command[c].try
    <2>1. ~Authorized(command[c])
      BY <1>1 DEF DeviceInv, WithdrawnForGood, Authorized
    <2> QED
      BY <1>1, <2>1, MovesAuthorized
  <1>2. DeviceInv /\ [DeviceNext]_deviceVars =>
          [\A c \in Commands :
             withdrawn[c] /\ command'[c].state \in {"leased", "running", "succeeded"} =>
               command'[c].state = command[c].state /\ command'[c].try = command[c].try]_deviceVars
    BY <1>1
  <1> QED
    BY <1>2, DeviceInvariance, PTL DEF DeviceSpec, WithdrawnGoesNoFurther

\* A command with a receipt is not carried out again.
THEOREM ReceiptsEndIt == DeviceSpec => NotAppliedAgain
  <1>1. ASSUME DeviceInv, [DeviceNext]_deviceVars, NEW c \in Commands, receipts[c] # "none"
        PROVE  applied'[c] = applied[c]
    <2>1. CASE AdapterApplies
      <3>1. companion.id # c
        BY <1>1, <2>1 DEF AdapterApplies, DeviceInv, AtWork
      <3> QED
        BY <1>1, <2>1, <3>1 DEF AdapterApplies, DeviceInv, DeviceTypeOK
    <2>2. CASE ~AdapterApplies
      BY <1>1, <2>2
         DEF DeviceNext, deviceVars, localVars, PairDevice, CreateDeviceBootstrap, BootstrapEnds,
             ExchangeDeviceBootstrap, RevokeDevice, SetInstalled, SetDeviceAutomation,
             CreateDeviceJob, CancelDeviceJob, CommandLeaseExpires, RestartCompanion,
             CompanionEnds, ClaimCommand, HeartbeatCommand, CallThrows, ReplayReceipt,
             RejectCommand, CallAdapter, RememberReceipt, AdapterFails, SucceedCommand,
             FailCommand
    <2> QED
      BY <2>1, <2>2
  <1>2. DeviceInv /\ [DeviceNext]_deviceVars =>
          [\A c \in Commands : receipts[c] # "none" => applied'[c] = applied[c]]_deviceVars
    BY <1>1
  <1> QED
    BY <1>2, DeviceInvariance, PTL DEF DeviceSpec, NotAppliedAgain

=============================================================================
