------------------------- MODULE ChatDeliveryProofs -------------------------
(***************************************************************************)
(* Proofs about ChatDelivery, for any streams, messages, consumers and     *)
(* overlapping flushes.  What SPMT keeps of a message changes in one of    *)
(* four ways, which ProjectionMoves lists (lemma ProjectionSteps), and     *)
(* each keeps a corrected message corrected and a removed one removed      *)
(* (lemma ProjectionKept).  A delivery exists only for a stored message    *)
(* (Unstored, Listed), so ingesting one cannot reopen it.                  *)
(*                                                                         *)
(* The second half needs more: rows are ranked apart (Stored), so a turn   *)
(* is one row's, the call that was applied is the one that is settled      *)
(* (Calls), and a patch is a saved correction's (Known).                   *)
(***************************************************************************)
EXTENDS ChatDelivery, FiniteSetTheorems, TLAPS

Unstored ==
    \A d \in Delivery : rowid[d[1]] = 0 => delivery[d] = "none"

\* What a flush has listed exists.
Listed ==
    \A f \in Flight : \A d \in todo[f] : delivery[d] # "none"

\* A removed message has lost its content, and what removed it is kept.
RemovedIsKnown ==
    \A m \in Message : record[m].state = "removed" =>
        patch[m].kind = "delete" /\ record[m] = Gone

IInv == TypeOK /\ Unstored /\ Listed /\ RemovedIsKnown /\ ShownIsCorrected

-----------------------------------------------------------------------------
(* Corrections. *)

\* Correcting keeps the type, shows nothing, and changes nothing twice.
LEMMA CorrectedOnce ==
    ASSUME NEW r \in Record, NEW p \in Patch
    PROVE  /\ Corrected(r, p) \in Record
           /\ Corrected(r, p).state = "absent" <=> r.state = "absent"
           /\ Corrected(Corrected(r, p), p) = Corrected(r, p)
  <1> USE DEF Record, Patch, Gone
  <1>1. CASE r.state = "absent" \/ p.kind = "none"
    BY <1>1 DEF Corrected
  <1>2. CASE r.state # "absent" /\ p.kind = "delete"
    BY <1>2 DEF Corrected
  <1>3. CASE r.state # "absent" /\ p.kind = "edit"
    <2> DEFINE c == Corrected(r, p)
    <2>1. c = [state |-> IF p.rich # 0 THEN "shown" ELSE r.state,
               text |-> IF p.text # 0 THEN p.text ELSE r.text,
               rich |-> IF p.rich # 0 THEN p.rich ELSE r.rich]
      BY <1>3 DEF Corrected
    <2>2. c \in Record /\ c.state # "absent"
      BY <1>3, <2>1
    <2>3. Corrected(c, p) = [state |-> IF p.rich # 0 THEN "shown" ELSE c.state,
                             text |-> IF p.text # 0 THEN p.text ELSE c.text,
                             rich |-> IF p.rich # 0 THEN p.rich ELSE c.rich]
      BY <1>3, <2>2 DEF Corrected
    <2>4. Corrected(c, p) = c
      <3> HIDE DEF c
      <3> QED
        BY <2>1, <2>3
    <2> QED
      BY <1>3, <2>2, <2>4
  <1> QED
    BY <1>1, <1>2, <1>3

\* Merging keeps the type, and a removal wins over whatever follows.
LEMMA MergedKeepsRemoval ==
    ASSUME NEW p \in Patch, NEW n \in EventId, stream \in Streams
    PROVE  /\ Merged(p, n) \in Patch
           /\ p.kind = "delete" => Merged(p, n) = p
  <1>1. stream[n] \in EventType
    BY StreamAssumption
  <1>2. n \in Nat
    BY ChatAssumption DEF EventId
  <1> QED
    BY <1>1, <1>2 DEF Merged, Patch, Removed, EventType

-----------------------------------------------------------------------------
(* The projection of one message. *)

\* How what SPMT keeps of message m may change in a step.
ProjectionMoves(m) ==
    \/ record'[m] = record[m] /\ patch'[m] = patch[m]
    \/ record'[m] = Inserted(record[m]) /\ patch'[m] = patch[m]
    \/ record'[m] = Corrected(Inserted(record[m]), patch[m]) /\ patch'[m] = patch[m]
    \/ \E n \in EventId : /\ patch'[m] = Merged(patch[m], n)
                          /\ record'[m] = Corrected(record[m], Merged(patch[m], n))

\* The message is there and nothing that corrects it is missing.
Settled(r, p) == r.state # "absent" /\ r = Corrected(r, p)

LEMMA ProjectionKept ==
    ASSUME NEW m \in Message, stream \in Streams, ProjectionMoves(m),
           record[m] \in Record, patch[m] \in Patch,
           record[m].state = "removed" => patch[m].kind = "delete" /\ record[m] = Gone
    PROVE  /\ record'[m] \in Record /\ patch'[m] \in Patch
           /\ record'[m].state = "removed" => patch'[m].kind = "delete" /\ record'[m] = Gone
           /\ record[m].state = "removed" => record'[m] = record[m]
           /\ Settled(record[m], patch[m]) => Settled(record'[m], patch'[m])
  <1> DEFINE r == record[m]
             p == patch[m]
  <1>1. /\ Inserted(r) \in Record
        /\ Inserted(r).state # "absent"
        /\ r.state # "absent" => Inserted(r) = r
        /\ Inserted(r).state = "removed" => r.state = "removed"
    BY DEF Inserted, Original, Record
  <1>2. Gone \in Record /\ Gone.state = "removed"
    BY DEF Gone, Record
  <1>3. ASSUME NEW q \in Patch, NEW s \in Record,
               s.state = "removed" => q.kind = "delete" /\ s = Gone
        PROVE  /\ Corrected(s, q).state = "removed" => q.kind = "delete" /\ Corrected(s, q) = Gone
               /\ s.state = "removed" => Corrected(s, q) = s
    BY <1>3 DEF Corrected, Gone, Record, Patch
  <1>4. CASE record'[m] = r /\ patch'[m] = p
    BY <1>4
  <1>5. CASE record'[m] = Inserted(r) /\ patch'[m] = p
    BY <1>5, <1>1, <1>2 DEF Settled
  <1>6. CASE record'[m] = Corrected(Inserted(r), p) /\ patch'[m] = p
    <2>1. Inserted(r).state = "removed" => p.kind = "delete" /\ Inserted(r) = Gone
      BY <1>1, <1>2
    <2>2. Settled(record'[m], patch'[m])
      BY <1>6, <1>1, CorrectedOnce DEF Settled
    <2>3. r.state = "removed" => record'[m] = r
      BY <1>6, <1>1, <1>3
    <2> QED
      BY <1>6, <1>1, <1>3, <2>1, <2>2, <2>3, CorrectedOnce
  <1>7. ASSUME NEW n \in EventId, patch'[m] = Merged(p, n),
               record'[m] = Corrected(r, Merged(p, n))
        PROVE  /\ record'[m] \in Record /\ patch'[m] \in Patch
               /\ record'[m].state = "removed" => patch'[m].kind = "delete" /\ record'[m] = Gone
               /\ r.state = "removed" => record'[m] = r
               /\ Settled(r, p) => Settled(record'[m], patch'[m])
    <2>1. Merged(p, n) \in Patch /\ (p.kind = "delete" => Merged(p, n) = p)
      BY MergedKeepsRemoval
    <2>2. Settled(r, p) => Settled(record'[m], patch'[m])
      BY <1>7, <2>1, CorrectedOnce DEF Settled
    <2>3. r.state = "removed" => Merged(p, n).kind = "delete" /\ r = Gone
      BY <2>1
    <2> QED
      BY <1>7, <1>3, <2>1, <2>2, <2>3, CorrectedOnce
  <1> QED
    BY <1>4, <1>5, <1>6, <1>7 DEF ProjectionMoves

\* Every step moves the projection so, and SPMT has answered for a message only
\* when it was shown and corrected.
LEMMA ProjectionSteps ==
    ASSUME TypeOK, [Next]_vars
    PROVE  \A m \in Message :
              /\ ProjectionMoves(m)
              /\ <<m, Commlink>> \in handled' =>
                    \/ <<m, Commlink>> \in handled
                    \/ Settled(record'[m], patch'[m])
  <1> SUFFICES ASSUME NEW m \in Message
               PROVE  /\ ProjectionMoves(m)
                      /\ <<m, Commlink>> \in handled' =>
                            \/ <<m, Commlink>> \in handled
                            \/ Settled(record'[m], patch'[m])
    OBVIOUS
  <1> USE DEF ProjectionMoves
  <1>0. /\ record \in [Message -> Record] /\ patch \in [Message -> Patch]
        /\ stream \in Streams
    BY DEF TypeOK
  <1>1. CASE UNCHANGED remoteVars
    BY <1>1 DEF remoteVars
  <1>2. ASSUME NEW f \in Flight, NEW d \in Delivery, Deliver(f, d)
        PROVE  /\ ProjectionMoves(m)
               /\ <<m, Commlink>> \in handled' =>
                     \/ <<m, Commlink>> \in handled
                     \/ Settled(record'[m], patch'[m])
    <2>1. patch' = patch /\ handled' = handled \cup {d}
      BY <1>2 DEF Deliver
    <2>2. CASE d = <<m, Commlink>>
      <3>1. record'[m] = Corrected(Inserted(record[m]), patch[m])
        BY <1>0, <1>2, <2>2 DEF Deliver
      <3>2. Inserted(record[m]) \in Record /\ Inserted(record[m]).state # "absent"
        BY <1>0 DEF Inserted, Original, Record
      <3>3. Settled(record'[m], patch'[m])
        <4>1. patch[m] \in Patch
          BY <1>0
        <4> QED
          BY <2>1, <3>1, <3>2, <4>1, CorrectedOnce DEF Settled
      <3> QED
        BY <2>1, <3>1, <3>3
    <2>3. CASE d # <<m, Commlink>>
      <3>1. record'[m] = record[m]
        <4>1. d = <<d[1], d[2]>> /\ d[1] \in Message
          BY DEF Delivery
        <4>2. CASE d[2] # Commlink
          BY <1>2, <4>2 DEF Deliver
        <4>3. CASE d[2] = Commlink
          <5>1. d[1] # m
            BY <2>3, <4>1, <4>3
          <5> QED
            BY <1>0, <1>2, <4>1, <4>3, <5>1 DEF Deliver
        <4> QED
          BY <4>2, <4>3
      <3> QED
        BY <2>1, <2>3, <3>1
    <2> QED
      BY <2>2, <2>3
  <1>3. ASSUME NEW f \in Flight, NEW n \in EventId, Correct(f, n)
        PROVE  ProjectionMoves(m) /\ handled' = handled
    <2>1. handled' = handled
      BY <1>3 DEF Correct
    <2>2. CASE stream[n].message = m
      BY <1>0, <1>3, <2>2, <2>1 DEF Correct
    <2>3. CASE stream[n].message # m
      BY <1>0, <1>3, <2>3, <2>1 DEF Correct
    <2> QED
      BY <2>1, <2>2, <2>3
  <1>4. ASSUME NEW f \in Flight, NEW k \in Message, IngestTorn(f, k)
        PROVE  ProjectionMoves(m) /\ handled' = handled
    <2>1. patch' = patch /\ handled' = handled /\ record' = [record EXCEPT ![k] = Inserted(@)]
      BY <1>4 DEF IngestTorn
    <2> QED
      BY <1>0, <2>1
  <1>5. CASE \E f \in Flight : (\E d \in Delivery : Complete(f, d) \/ Fail(f, d))
                            \/ (\E n \in EventId : CompleteMutation(f, n) \/ FailMutation(f, n))
                            \/ List(f)
    BY <1>1, <1>5 DEF Complete, Fail, CompleteMutation, FailMutation, List
  <1>6. CASE \/ \E n \in EventId : Ingest(n) \/ Mutate(n) \/ IngestFails(n)
             \/ Restart \/ ReviewLoop \/ UNCHANGED vars
    BY <1>1, <1>6 DEF Ingest, Mutate, IngestFails, Restart, ReviewLoop, vars
  <1> QED
    BY <1>2, <1>3, <1>4, <1>5, <1>6 DEF Next

-----------------------------------------------------------------------------
(* Deliveries. *)

\* A delivery stays what it is, is opened for a message stored just now, or is
\* completed.
LEMMA DeliverySteps ==
    ASSUME TypeOK, Unstored, Listed, [Next]_vars
    PROVE  \A d \in Delivery :
              /\ delivery'[d] \in {"none", "pending", "delivered"}
              /\ delivery[d] = "delivered" => delivery'[d] = "delivered"
              /\ delivery[d] # "none" => delivery'[d] # "none"
              /\ rowid'[d[1]] = 0 => delivery'[d] = "none"
  <1> SUFFICES ASSUME NEW d \in Delivery
               PROVE  /\ delivery'[d] \in {"none", "pending", "delivered"}
                      /\ delivery[d] = "delivered" => delivery'[d] = "delivered"
                      /\ delivery[d] # "none" => delivery'[d] # "none"
                      /\ rowid'[d[1]] = 0 => delivery'[d] = "none"
    OBVIOUS
  <1>0. /\ delivery \in [Delivery -> {"none", "pending", "delivered"}]
        /\ rowid \in [Message -> Nat]
        /\ d[1] \in Message
        /\ rowid[d[1]] = 0 => delivery[d] = "none"
    BY DEF TypeOK, Unstored, Delivery
  <1>1. CASE UNCHANGED <<rowid, delivery>>
    BY <1>0, <1>1
  <1>2. ASSUME NEW n \in EventId, Ingest(n), rowid' # rowid \/ delivery' # delivery
        PROVE  /\ delivery'[d] \in {"none", "pending", "delivered"}
               /\ delivery[d] = "delivered" => delivery'[d] = "delivered"
               /\ delivery[d] # "none" => delivery'[d] # "none"
               /\ rowid'[d[1]] = 0 => delivery'[d] = "none"
    <2> DEFINE m == stream[n].message
               rank == Cardinality({k \in Message : rowid[k] # 0}) + 1
    <2>1. /\ rowid[m] = 0
          /\ rowid' = [rowid EXCEPT ![m] = rank]
          /\ delivery' = [e \in Delivery |->
                IF e[1] = m /\ e[2] \in registered THEN "pending" ELSE delivery[e]]
      BY <1>2 DEF Ingest
    <2>2. rank \in Nat \ {0}
      <3>1. IsFiniteSet({k \in Message : rowid[k] # 0})
        BY ChatAssumption, FS_Subset
      <3>2. Cardinality({k \in Message : rowid[k] # 0}) \in Nat
        BY <3>1, FS_CardinalityType
      <3> QED
        BY <3>2
    <2> HIDE DEF rank
    <2>3. CASE d[1] = m
      BY <1>0, <2>1, <2>2, <2>3
    <2>4. CASE d[1] # m
      BY <1>0, <2>1, <2>4
    <2> QED
      BY <2>3, <2>4
  <1>3. ASSUME NEW f \in Flight, NEW e \in Delivery, Complete(f, e)
        PROVE  /\ delivery'[d] \in {"none", "pending", "delivered"}
               /\ delivery[d] = "delivered" => delivery'[d] = "delivered"
               /\ delivery[d] # "none" => delivery'[d] # "none"
               /\ rowid'[d[1]] = 0 => delivery'[d] = "none"
    <2>1. /\ delivery' = [delivery EXCEPT ![e] = "delivered"]
          /\ rowid' = rowid
          /\ delivery[e] # "none"
      BY <1>3 DEF Complete, DeliveryTurn, Listed
    <2> QED
      BY <1>0, <2>1
  <1>4. CASE \E f \in Flight :
                \/ \E e \in Delivery : Deliver(f, e) \/ Fail(f, e)
                \/ \E k \in Message : IngestTorn(f, k)
                \/ \E n \in EventId : Correct(f, n) \/ CompleteMutation(f, n) \/ FailMutation(f, n)
                \/ List(f)
    BY <1>1, <1>4 DEF Deliver, Fail, IngestTorn, Correct, CompleteMutation, FailMutation,
                      List, gatewayVars
  <1>5. CASE \/ \E n \in EventId : Mutate(n) \/ IngestFails(n)
             \/ Restart \/ ReviewLoop \/ UNCHANGED vars
    BY <1>1, <1>5 DEF Mutate, IngestFails, Restart, ReviewLoop, vars, gatewayVars
  <1> QED
    BY <1>1, <1>2, <1>3, <1>4, <1>5 DEF Next

\* A flush lists pending deliveries, and then only settles them.
LEMMA ListedSteps ==
    ASSUME TypeOK, [Next]_vars
    PROVE  \A f \in Flight : todo'[f] \subseteq todo[f] \/ todo'[f] \subseteq Pending
  <1> SUFFICES ASSUME NEW f \in Flight
               PROVE  todo'[f] \subseteq todo[f] \/ todo'[f] \subseteq Pending
    OBVIOUS
  <1>0. todo \in [Flight -> SUBSET Delivery]
    BY DEF TypeOK
  <1>1. CASE UNCHANGED todo
    BY <1>1
  <1>2. ASSUME NEW g \in Flight, List(g)
        PROVE  todo'[f] \subseteq todo[f] \/ todo'[f] \subseteq Pending
    BY <1>0, <1>2 DEF List, Oldest
  <1>3. ASSUME NEW g \in Flight, NEW d \in Delivery, NextDelivery(g, d)
        PROVE  todo'[f] \subseteq todo[f]
    BY <1>0, <1>3 DEF NextDelivery
  <1>4. ASSUME NEW g \in Flight, NEW k \in Message, IngestTorn(g, k)
        PROVE  todo'[f] \subseteq todo[f]
    <2>1. todo' = [todo EXCEPT ![g] = @ \ {<<k, Commlink>>}]
      BY <1>4 DEF IngestTorn, NextDelivery
    <2> QED
      BY <1>0, <2>1
  <1>5. CASE Restart
    BY <1>5 DEF Restart
  <1>6. CASE \/ \E n \in EventId : Ingest(n) \/ Mutate(n) \/ IngestFails(n)
             \/ ReviewLoop \/ UNCHANGED vars
    BY <1>1, <1>6 DEF Ingest, Mutate, IngestFails, ReviewLoop, vars, flushVars
  <1>7. CASE \E g \in Flight :
                \/ \E e \in Delivery : Deliver(g, e)
                \/ \E n \in EventId : Correct(g, n) \/ CompleteMutation(g, n) \/ FailMutation(g, n)
    BY <1>1, <1>7 DEF Deliver, Correct, CompleteMutation, FailMutation, NextCorrection
  <1> QED
    BY <1>2, <1>3, <1>4, <1>5, <1>6, <1>7 DEF Next, Complete, Fail

-----------------------------------------------------------------------------
(* Types. *)

\* The program starts with nothing stored and no flush under way.
LEMMA TypeInit == Init => TypeOK
  <1> SUFFICES ASSUME Init PROVE TypeOK
    OBVIOUS
  <1>1. Commlink \in Consumer /\ EventId \subseteq Nat
    BY ChatAssumption DEF Commlink, Consumer, EventId
  <1> QED
    BY <1>1, ChatAssumption DEF Init, TypeOK, Record, Patch, NoRecord, NoPatch, Phase

\* The types of what DeliverySteps and ProjectionSteps do not speak of.
LEMMA OtherTypes ==
    ASSUME TypeOK, [Next]_vars
    PROVE  /\ stream' \in Streams /\ cursor' \in 0..Events
           /\ rowid' \in [Message -> Nat] /\ saved' \in [EventId -> Nat]
           /\ sent' \subseteq EventId /\ registered' \subseteq Consumer
           /\ pc' \in [Flight -> Phase] /\ fixes' \in [Flight -> SUBSET EventId]
           /\ todo' \in [Flight -> SUBSET Delivery]
           /\ applied' \in [Flight -> BOOLEAN] /\ handled' \subseteq Delivery
           /\ delivery' = [d \in Delivery |-> delivery'[d]]
           /\ record' = [m \in Message |-> record'[m]]
           /\ patch' = [m \in Message |-> patch'[m]]
  <1> DEFINE Goal == /\ stream' \in Streams /\ cursor' \in 0..Events
                     /\ rowid' \in [Message -> Nat] /\ saved' \in [EventId -> Nat]
                     /\ sent' \subseteq EventId /\ registered' \subseteq Consumer
                     /\ pc' \in [Flight -> Phase] /\ fixes' \in [Flight -> SUBSET EventId]
                     /\ todo' \in [Flight -> SUBSET Delivery]
                     /\ applied' \in [Flight -> BOOLEAN] /\ handled' \subseteq Delivery
                     /\ delivery' = [d \in Delivery |-> delivery'[d]]
                     /\ record' = [m \in Message |-> record'[m]]
                     /\ patch' = [m \in Message |-> patch'[m]]
  <1> USE DEF TypeOK
  <1>1. CASE UNCHANGED vars
    BY <1>1 DEF vars, gatewayVars, flushVars, remoteVars
  <1>2. ASSUME NEW n \in EventId, Arrives(n)
        PROVE  cursor' \in 0..Events
    BY <1>2, ChatAssumption DEF Arrives, EventId
  <1>3. ASSUME NEW n \in EventId, Ingest(n)
        PROVE  Goal
    <2>1. Cardinality({k \in Message : rowid[k] # 0}) + 1 \in Nat
      <3>1. IsFiniteSet({k \in Message : rowid[k] # 0})
        BY ChatAssumption, FS_Subset
      <3> QED
        BY <3>1, FS_CardinalityType
    <2>2. rowid' \in [Message -> Nat]
      BY <1>3, <2>1 DEF Ingest
    <2>3. pc' \in [Flight -> Phase] /\ todo' = todo /\ fixes' = fixes /\ applied' = applied
      BY <1>3 DEF Ingest, Phase, flushVars
    <2>4. delivery' = [d \in Delivery |-> delivery'[d]]
      BY <1>3 DEF Ingest
    <2> QED
      BY <1>2, <1>3, <2>2, <2>3, <2>4 DEF Ingest, remoteVars
  <1>4. ASSUME NEW f \in Flight, NEW ranks, Review(f, ranks)
        PROVE  pc' \in [Flight -> Phase] /\ fixes' \in [Flight -> SUBSET EventId]
    BY <1>4 DEF Review, Unsent, Oldest, Phase
  <1>5. ASSUME NEW n \in EventId, Mutate(n)
        PROVE  Goal
    <2>1. Cardinality({k \in EventId : saved[k] # 0}) + 1 \in Nat
      <3>1. IsFiniteSet({k \in EventId : saved[k] # 0})
        BY ChatAssumption, FS_Interval, FS_Subset DEF EventId
      <3> QED
        BY <3>1, FS_CardinalityType
    <2>2. saved' \in [EventId -> Nat]
      BY <1>5, <2>1 DEF Mutate
    <2>3. pc' \in [Flight -> Phase] /\ fixes' \in [Flight -> SUBSET EventId]
      BY <1>4, <1>5 DEF Mutate
    <2> QED
      BY <1>2, <1>5, <2>2, <2>3 DEF Mutate, remoteVars
  <1>6. ASSUME NEW n \in EventId, IngestFails(n)
        PROVE  Goal
    BY <1>2, <1>6 DEF IngestFails, flushVars, remoteVars
  <1>7. CASE Restart
    BY <1>7 DEF Restart, gatewayVars, remoteVars, Phase
  <1>8. CASE ReviewLoop
    BY <1>4, <1>8, ChatAssumption DEF ReviewLoop, gatewayVars, remoteVars
  <1>9. ASSUME NEW f \in Flight, List(f)
        PROVE  Goal
    <2>1. Oldest(Pending, DeliveryRank) \subseteq Delivery
      BY DEF Oldest, Pending
    <2>2. pc' \in [Flight -> Phase] /\ todo' \in [Flight -> SUBSET Delivery]
      BY <1>9, <2>1 DEF List, Phase, AfterDeliveries
    <2> QED
      BY <1>9, <2>2 DEF List, gatewayVars, remoteVars
  <1>10. ASSUME NEW f \in Flight, NEW d \in Delivery, Deliver(f, d)
         PROVE  Goal
    BY <1>10 DEF Deliver, gatewayVars
  <1>11. ASSUME NEW f \in Flight, NEW n \in EventId, Correct(f, n)
         PROVE  Goal
    BY <1>11 DEF Correct, gatewayVars
  <1>12. ASSUME NEW f \in Flight, NEW d, NextDelivery(f, d)
         PROVE  /\ pc' \in [Flight -> Phase] /\ fixes' = fixes
                /\ todo' \in [Flight -> SUBSET Delivery]
                /\ applied' \in [Flight -> BOOLEAN]
    BY <1>12 DEF NextDelivery, Phase, AfterDeliveries
  <1>13. ASSUME NEW f \in Flight, NEW n, NextCorrection(f, n)
         PROVE  /\ pc' \in [Flight -> Phase] /\ todo' = todo
                /\ fixes' \in [Flight -> SUBSET EventId]
                /\ applied' \in [Flight -> BOOLEAN]
    BY <1>13 DEF NextCorrection, Phase
  <1>14. ASSUME NEW f \in Flight, NEW d \in Delivery, Complete(f, d) \/ Fail(f, d)
         PROVE  Goal
    BY <1>12, <1>14 DEF Complete, Fail, gatewayVars, remoteVars
  <1>15. ASSUME NEW f \in Flight, NEW k \in Message, IngestTorn(f, k)
         PROVE  Goal
    BY <1>12, <1>15 DEF IngestTorn, gatewayVars
  <1>16. ASSUME NEW f \in Flight, NEW n \in EventId, CompleteMutation(f, n) \/ FailMutation(f, n)
         PROVE  Goal
    BY <1>13, <1>16 DEF CompleteMutation, FailMutation, gatewayVars, remoteVars
  <1> QED
    BY <1>1, <1>3, <1>5, <1>6, <1>7, <1>8, <1>9, <1>10, <1>11, <1>14, <1>15, <1>16 DEF Next

-----------------------------------------------------------------------------
(* The invariant. *)

\* The first state satisfies the invariant.
LEMMA InvInit == Init => IInv
  <1> SUFFICES ASSUME Init PROVE IInv
    OBVIOUS
  <1>1. TypeOK
    BY TypeInit
  <1>2. Unstored /\ Listed
    BY DEF Init, Unstored, Listed
  <1>3. RemovedIsKnown /\ ShownIsCorrected
    BY DEF Init, RemovedIsKnown, ShownIsCorrected, NoRecord
  <1> QED
    BY <1>1, <1>2, <1>3 DEF IInv

\* Every step keeps it: the projection by ProjectionKept, the deliveries by
\* DeliverySteps.
LEMMA InvNext == IInv /\ [Next]_vars => IInv'
  <1> SUFFICES ASSUME IInv, [Next]_vars PROVE IInv'
    OBVIOUS
  <1> USE DEF IInv
  <1>1. \A m \in Message :
           /\ record'[m] \in Record /\ patch'[m] \in Patch
           /\ record'[m].state = "removed" => patch'[m].kind = "delete" /\ record'[m] = Gone
           /\ Settled(record[m], patch[m]) => Settled(record'[m], patch'[m])
    BY ProjectionSteps, ProjectionKept DEF TypeOK, RemovedIsKnown
  <1>2. TypeOK'
    <2>1. record' \in [Message -> Record] /\ patch' \in [Message -> Patch]
      <3>1. /\ record' = [m \in Message |-> record'[m]]
            /\ patch' = [m \in Message |-> patch'[m]]
        BY OtherTypes
      <3> QED
        BY <1>1, <3>1
    <2>2. delivery' \in [Delivery -> {"none", "pending", "delivered"}]
      <3>1. delivery' = [d \in Delivery |-> delivery'[d]]
        BY OtherTypes
      <3>2. \A d \in Delivery : delivery'[d] \in {"none", "pending", "delivered"}
        BY DeliverySteps
      <3> QED
        BY <3>1, <3>2
    <2> QED
      BY <2>1, <2>2, OtherTypes DEF TypeOK
  <1>3. Unstored'
    BY DeliverySteps DEF Unstored
  <1>4. Listed'
    <2> SUFFICES ASSUME NEW f \in Flight, NEW d \in todo'[f]
                 PROVE  delivery'[d] # "none"
      BY DEF Listed
    <2>1. d \in Delivery /\ delivery[d] # "none"
      BY ListedSteps DEF TypeOK, Listed, Pending
    <2> QED
      BY <2>1, DeliverySteps
  <1>5. RemovedIsKnown'
    BY <1>1 DEF RemovedIsKnown
  <1>6. ShownIsCorrected'
    BY <1>1, ProjectionSteps DEF ShownIsCorrected, Settled
  <1> QED
    BY <1>2, <1>3, <1>4, <1>5, <1>6

\* The invariant holds in every state of every behaviour.
THEOREM Invariance == Spec => []IInv
  BY InvInit, InvNext, PTL DEF Spec

\* Every variable keeps its type, whatever the provider sends.
THEOREM TypeCorrect == Spec => []TypeOK
  <1>1. IInv => TypeOK
    BY DEF IInv
  <1> QED
    BY <1>1, Invariance, PTL

\* A message SPMT has answered for shows what corrects it, however the
\* corrections, the message and SPMT's deaths interleave.
THEOREM CorrectionsShown == Spec => []ShownIsCorrected
  <1>1. IInv => ShownIsCorrected
    BY DEF IInv
  <1> QED
    BY <1>1, Invariance, PTL

\* Nothing brings a removed message's content back.
THEOREM RemovalsFinal == Spec => RemovalIsFinal
  <1>1. IInv /\ [Next]_vars =>
           [\A m \in Message : record[m].state = "removed" => record'[m] = record[m]]_vars
    <2> SUFFICES ASSUME IInv, [Next]_vars, NEW m \in Message, record[m].state = "removed"
                 PROVE  record'[m] = record[m]
      OBVIOUS
    <2> QED
      BY ProjectionSteps, ProjectionKept DEF IInv, TypeOK, RemovedIsKnown
  <1> QED
    BY <1>1, Invariance, PTL DEF Spec, RemovalIsFinal

\* A settled delivery stays settled, whatever overlapping flushes do.
THEOREM DeliveriesFinal == Spec => DeliveredIsFinal
  <1>1. IInv /\ [Next]_vars =>
           [\A d \in Delivery : delivery[d] = "delivered" => delivery'[d] = "delivered"]_vars
    BY DeliverySteps DEF IInv
  <1> QED
    BY <1>1, Invariance, PTL DEF Spec, DeliveredIsFinal

-----------------------------------------------------------------------------
(* What is settled was applied. *)

\* Rows are ranked in the order they were stored in, one rank each.
Numbered(rank, S) ==
    /\ \A a \in S : rank[a] <= Cardinality({k \in S : rank[k] # 0})
    /\ \A a, b \in S : rank[a] # 0 /\ rank[a] = rank[b] => a = b

SavedCorrects == \A n \in EventId : saved[n] # 0 => stream[n].kind # "create"

Stored ==
    /\ Numbered(rowid, Message)
    /\ Numbered(saved, EventId)
    /\ SavedCorrects

\* The projection has taken correction n in, or knew a later one.
Reflected(n, p) ==
    p.kind = "delete" \/ (p.kind = "edit" /\ n \in Edits /\ p.at >= stream[n].at)

\* What a flush is correcting was saved, and the call that was applied is the
\* one whose turn it still is.
Calls(f) ==
    /\ \A n \in fixes[f] : saved[n] # 0
    /\ applied[f] => pc[f] \in {"delivering", "correcting"}
    /\ \A d \in Delivery : applied[f] /\ DeliveryTurn(f, d) => d \in handled
    /\ \A n \in EventId :
          applied[f] /\ CorrectionTurn(f, n) => Reflected(n, patch[stream[n].message])

\* A patch came from a saved correction of its message.
Known(m) ==
    LET p == patch[m]
    IN  /\ p.kind = "none" => p.at = 0
        /\ p.kind = "delete" =>
              \E k \in Removals : saved[k] # 0 /\ stream[k].message = m
        /\ p.kind = "edit" =>
              \E k \in Edits : /\ saved[k] # 0 /\ stream[k].message = m
                               /\ p.at = stream[k].at
                               /\ \A field \in stream[k].fields : p[field] = k

SInv ==
    /\ Stored
    /\ \A f \in Flight : Calls(f)
    /\ \A m \in Message : Known(m)
    /\ SettledWasApplied

\* Giving the next rank keeps ranks apart.
LEMMA NumberedNext ==
    ASSUME NEW S, IsFiniteSet(S), NEW rank \in [S -> Nat], Numbered(rank, S),
           NEW a \in S, rank[a] = 0
    PROVE  Numbered([rank EXCEPT ![a] = Cardinality({k \in S : rank[k] # 0}) + 1], S)
  <1> DEFINE used == {k \in S : rank[k] # 0}
             next == [rank EXCEPT ![a] = Cardinality(used) + 1]
  <1>1. IsFiniteSet(used) /\ Cardinality(used) \in Nat
    <2>1. IsFiniteSet(used)
      BY FS_Subset
    <2> QED
      BY <2>1, FS_CardinalityType
  <1>2. Cardinality(used \cup {a}) = Cardinality(used) + 1
    BY <1>1, FS_AddElement
  <1>3. /\ next[a] = Cardinality(used) + 1
        /\ \A k \in S \ {a} : next[k] = rank[k]
    OBVIOUS
  <1>4. {k \in S : next[k] # 0} = used \cup {a}
    <2>1. next[a] # 0
      BY <1>1, <1>3
    <2> QED
      BY <1>3, <2>1
  <1>5. \A k \in S : rank[k] <= Cardinality(used) /\ rank[k] \in Nat
    BY DEF Numbered
  <1>6. \A k \in S : next[k] <= Cardinality({j \in S : next[j] # 0})
    <2> HIDE DEF used, next
    <2> QED
      BY <1>1, <1>2, <1>3, <1>4, <1>5
  <1>7. \A k, j \in S : next[k] # 0 /\ next[k] = next[j] => k = j
    <2>1. \A k, j \in S : rank[k] # 0 /\ rank[k] = rank[j] => k = j
      BY DEF Numbered
    <2> HIDE DEF used, next
    <2> QED
      BY <1>1, <1>3, <1>5, <2>1
  <1> QED
    BY <1>6, <1>7 DEF Numbered

\* No two deliveries of stored messages have one rank.
LEMMA RankedApart ==
    ASSUME TypeOK, Numbered(rowid, Message), NEW d \in Delivery, NEW e \in Delivery,
           rowid[d[1]] # 0, rowid[e[1]] # 0, DeliveryRank[d] = DeliveryRank[e]
    PROVE  d = e
  <1>1. /\ d[1] \in Message /\ e[1] \in Message
        /\ d[2] \in 1..Consumers /\ e[2] \in 1..Consumers
        /\ d = <<d[1], d[2]>> /\ e = <<e[1], e[2]>>
    BY DEF Delivery, Consumer
  <1>2. /\ rowid[d[1]] \in Nat /\ rowid[e[1]] \in Nat
        /\ rowid[d[1]] * Consumers + d[2] = rowid[e[1]] * Consumers + e[2]
    BY <1>1 DEF TypeOK, DeliveryRank
  <1>3. ASSUME NEW x \in Nat, NEW y \in Nat, NEW c \in Nat, x < y
        PROVE  x * c + c <= y * c
    <2>1. PICK z \in Nat : y = x + 1 + z
      <3>1. y - x - 1 \in Nat /\ y = x + 1 + (y - x - 1)
        BY <1>3
      <3> QED
        BY <3>1
    <2>2. y * c = x * c + c + z * c
      BY <2>1
    <2>3. x * c \in Nat /\ z * c \in Nat
      OBVIOUS
    <2> QED
      BY <2>2, <2>3
  <1>4. rowid[d[1]] = rowid[e[1]]
    <2> DEFINE x == rowid[d[1]]
               y == rowid[e[1]]
    <2>1. x * Consumers \in Nat /\ y * Consumers \in Nat
      BY <1>2, ChatAssumption
    <2>2. CASE x < y
      <3>1. x * Consumers + Consumers <= y * Consumers
        BY <1>2, <1>3, <2>2, ChatAssumption
      <3> HIDE DEF x, y
      <3>2. x * Consumers + d[2] = y * Consumers + e[2]
        BY <1>2 DEF x, y
      <3> DEFINE u == x * Consumers
                 v == y * Consumers
      <3> HIDE DEF u, v
      <3>3. u \in Nat /\ v \in Nat /\ u + Consumers <= v /\ u + d[2] = v + e[2]
        BY <2>1, <3>1, <3>2 DEF u, v, x, y
      <3> QED
        BY <1>1, <3>3, ChatAssumption
    <2>3. CASE y < x
      <3>1. y * Consumers + Consumers <= x * Consumers
        BY <1>2, <1>3, <2>3, ChatAssumption
      <3> HIDE DEF x, y
      <3>2. x * Consumers + d[2] = y * Consumers + e[2]
        BY <1>2 DEF x, y
      <3> DEFINE u == x * Consumers
                 v == y * Consumers
      <3> HIDE DEF u, v
      <3>3. u \in Nat /\ v \in Nat /\ v + Consumers <= u /\ u + d[2] = v + e[2]
        BY <2>1, <3>1, <3>2 DEF u, v, x, y
      <3> QED
        BY <1>1, <3>3, ChatAssumption
    <2> QED
      BY <1>2, <2>2, <2>3
  <1>5. d[1] = e[1]
    BY <1>1, <1>4 DEF Numbered
  <1>6. d[2] = e[2]
    <2> DEFINE u == rowid[d[1]] * Consumers
    <2>1. u \in Nat
      BY <1>2, ChatAssumption
    <2>2. u + d[2] = u + e[2]
      BY <1>2, <1>4
    <2> HIDE DEF u
    <2> QED
      BY <1>1, <2>1, <2>2
  <1> QED
    BY <1>1, <1>5, <1>6

\* What is stored keeps its rank and ranks stay apart; the stream never changes.
LEMMA StoredSteps ==
    ASSUME TypeOK, Stored, [Next]_vars
    PROVE  /\ stream' = stream
           /\ Stored'
           /\ \A m \in Message : rowid[m] # 0 => rowid'[m] = rowid[m]
           /\ \A n \in EventId : saved[n] # 0 => saved'[n] = saved[n]
  <1> DEFINE Goal == /\ stream' = stream
                     /\ Stored'
                     /\ \A m \in Message : rowid[m] # 0 => rowid'[m] = rowid[m]
                     /\ \A n \in EventId : saved[n] # 0 => saved'[n] = saved[n]
  <1>0. rowid \in [Message -> Nat] /\ saved \in [EventId -> Nat]
    BY DEF TypeOK
  <1>1. ASSUME UNCHANGED <<stream, rowid, saved>>
        PROVE  Goal
    BY <1>1 DEF Stored, Numbered, SavedCorrects
  <1>2. ASSUME NEW n \in EventId, Ingest(n)
        PROVE  Goal
    <2> DEFINE m == stream[n].message
               rank == Cardinality({k \in Message : rowid[k] # 0}) + 1
    <2>1. stream' = stream /\ saved' = saved
      BY <1>2 DEF Ingest
    <2>2. CASE rowid' = rowid
      BY <1>1, <2>1, <2>2
    <2>3. CASE rowid[m] = 0 /\ rowid' = [rowid EXCEPT ![m] = rank]
      <3>1. m \in Message
        BY StreamAssumption DEF TypeOK, EventType
      <3>2. Numbered(rowid', Message)
        BY <1>0, <2>3, <3>1, NumberedNext, ChatAssumption DEF Stored
      <3>3. \A k \in Message : rowid[k] # 0 => rowid'[k] = rowid[k]
        <4> HIDE DEF rank
        <4> QED
          BY <1>0, <2>3, <3>1
      <3>4. Stored'
        <4>1. /\ \A a \in Message : rowid'[a] <= Cardinality({k \in Message : rowid'[k] # 0})
              /\ \A a, b \in Message : rowid'[a] # 0 /\ rowid'[a] = rowid'[b] => a = b
          BY <3>2 DEF Numbered
        <4> QED
          BY <2>1, <4>1 DEF Stored, Numbered, SavedCorrects
      <3> QED
        BY <2>1, <3>3, <3>4
    <2> QED
      BY <1>2, <2>2, <2>3 DEF Ingest
  <1>3. ASSUME NEW n \in EventId, Mutate(n)
        PROVE  Goal
    <2> DEFINE rank == Cardinality({k \in EventId : saved[k] # 0}) + 1
    <2>1. stream' = stream /\ rowid' = rowid /\ stream[n].kind # "create"
      BY <1>3 DEF Mutate
    <2>2. CASE saved' = saved
      BY <1>1, <2>1, <2>2
    <2>3. CASE saved[n] = 0 /\ saved' = [saved EXCEPT ![n] = rank]
      <3>1. Numbered(saved', EventId)
        <4>1. IsFiniteSet(EventId)
          BY ChatAssumption, FS_Interval DEF EventId
        <4> QED
          BY <1>0, <2>3, <4>1, NumberedNext DEF Stored
      <3>2. \A k \in EventId : k # n => saved'[k] = saved[k]
        <4> HIDE DEF rank
        <4> QED
          BY <1>0, <2>3
      <3>3. Stored'
        <4>1. /\ \A a \in EventId : saved'[a] <= Cardinality({k \in EventId : saved'[k] # 0})
              /\ \A a, b \in EventId : saved'[a] # 0 /\ saved'[a] = saved'[b] => a = b
          BY <3>1 DEF Numbered
        <4>2. SavedCorrects'
          BY <2>1, <3>2 DEF Stored, SavedCorrects
        <4> QED
          BY <2>1, <4>1, <4>2 DEF Stored, Numbered
      <3> QED
        BY <2>1, <2>3, <3>2, <3>3
    <2> QED
      <3>1. saved[n] # 0 => saved' = saved
        BY <1>3 DEF Mutate, SameCorrection
      <3>2. saved' = saved \/ saved' = [saved EXCEPT ![n] = rank]
        BY <1>3 DEF Mutate
      <3> QED
        BY <2>2, <2>3, <3>1, <3>2
  <1>4. CASE \E f \in Flight :
                \/ \E d \in Delivery : Deliver(f, d) \/ Complete(f, d) \/ Fail(f, d)
                \/ \E k \in Message : IngestTorn(f, k)
                \/ \E n \in EventId : Correct(f, n) \/ CompleteMutation(f, n) \/ FailMutation(f, n)
                \/ List(f)
    BY <1>1, <1>4 DEF Deliver, Complete, Fail, IngestTorn, Correct, CompleteMutation,
                      FailMutation, List, gatewayVars
  <1>5. CASE \/ \E n \in EventId : IngestFails(n)
             \/ Restart \/ ReviewLoop \/ UNCHANGED vars
    BY <1>1, <1>5 DEF IngestFails, Restart, ReviewLoop, vars, gatewayVars
  <1> QED
    BY <1>2, <1>3, <1>4, <1>5 DEF Next

\* Merging takes a correction in, and forgets none it had taken.
LEMMA MergedReflects ==
    ASSUME TypeOK, NEW p \in Patch, p.kind = "none" => p.at = 0,
           NEW k \in EventId, stream[k].kind # "create", NEW n \in EventId
    PROVE  /\ Reflected(k, Merged(p, k))
           /\ Reflected(n, p) => Reflected(n, Merged(p, k))
  <1>1. stream[k] \in EventType /\ stream[n] \in EventType
    BY StreamAssumption DEF TypeOK
  <1>2. stream[k].kind \in {"edit", "delete"}
    BY <1>1 DEF EventType
  <1>3. stream[k].at \in Nat /\ stream[n].at \in Nat /\ p.at \in Nat
        /\ p.kind \in {"none", "edit", "delete"}
    BY <1>1 DEF EventType, Patch
  <1>4. CASE p.kind = "delete"
    BY <1>4 DEF Merged, Reflected
  <1>5. CASE p.kind # "delete" /\ stream[k].kind = "delete"
    BY <1>5 DEF Merged, Reflected, Removed
  <1>6. CASE p.kind # "delete" /\ stream[k].kind = "edit" /\ p.at > stream[k].at
    <2>1. Merged(p, k) = p
      BY <1>6 DEF Merged
    <2>2. p.kind = "edit"
      BY <1>3, <1>6
    <2> QED
      BY <1>3, <1>6, <2>1, <2>2 DEF Reflected, Edits
  <1>7. CASE p.kind # "delete" /\ stream[k].kind = "edit" /\ ~(p.at > stream[k].at)
    <2>1. Merged(p, k).kind = "edit" /\ Merged(p, k).at = stream[k].at
      BY <1>7 DEF Merged
    <2> QED
      BY <1>3, <1>7, <2>1 DEF Reflected, Edits
  <1> QED
    BY <1>2, <1>4, <1>5, <1>6, <1>7

\* A patch changes only by merging a saved correction of its message.
LEMMA PatchSteps ==
    ASSUME TypeOK, \A f \in Flight : Calls(f), [Next]_vars
    PROVE  \A m \in Message :
              \/ patch'[m] = patch[m]
              \/ \E n \in EventId : /\ stream[n].message = m
                                    /\ saved[n] # 0
                                    /\ patch'[m] = Merged(patch[m], n)
  <1> SUFFICES ASSUME NEW m \in Message
               PROVE  \/ patch'[m] = patch[m]
                      \/ \E n \in EventId : /\ stream[n].message = m
                                            /\ saved[n] # 0
                                            /\ patch'[m] = Merged(patch[m], n)
    OBVIOUS
  <1>1. CASE UNCHANGED patch
    BY <1>1
  <1>2. ASSUME NEW f \in Flight, NEW n \in EventId, Correct(f, n)
        PROVE  \/ patch'[m] = patch[m]
               \/ /\ stream[n].message = m
                  /\ saved[n] # 0
                  /\ patch'[m] = Merged(patch[m], n)
    <2>1. saved[n] # 0
      BY <1>2 DEF Correct, CorrectionTurn, Calls
    <2> QED
      BY <1>2, <2>1 DEF Correct, TypeOK
  <1>3. CASE \E f \in Flight :
                \/ \E d \in Delivery : Deliver(f, d) \/ Complete(f, d) \/ Fail(f, d)
                \/ \E k \in Message : IngestTorn(f, k)
                \/ \E n \in EventId : CompleteMutation(f, n) \/ FailMutation(f, n)
                \/ List(f)
    BY <1>1, <1>3 DEF Deliver, Complete, Fail, IngestTorn, CompleteMutation,
                      FailMutation, List, remoteVars
  <1>4. CASE \/ \E n \in EventId : Ingest(n) \/ Mutate(n) \/ IngestFails(n)
             \/ Restart \/ ReviewLoop \/ UNCHANGED vars
    BY <1>1, <1>4 DEF Ingest, Mutate, IngestFails, Restart, ReviewLoop, vars, remoteVars
  <1> QED
    BY <1>2, <1>3, <1>4 DEF Next

\* How flush f may move in a step: not at all, to another call, or by the call
\* whose turn it is being applied.
CallMoves(f) ==
    LET same == /\ pc'[f] = pc[f] /\ todo'[f] = todo[f] /\ fixes'[f] = fixes[f]
    IN  \/ same /\ applied'[f] = applied[f]
        \/ applied'[f] = FALSE
        \/ \E d \in Delivery : same /\ DeliveryTurn(f, d) /\ d \in handled'
        \/ \E n \in EventId :
              LET m == stream[n].message
              IN  same /\ CorrectionTurn(f, n) /\ patch'[m] = Merged(patch[m], n)

\* Nothing is settled but by the flush whose call was applied.
LEMMA CallSteps ==
    ASSUME TypeOK, \A f \in Flight : Calls(f), [Next]_vars
    PROVE  /\ \A f \in Flight :
                 /\ CallMoves(f)
                 /\ \A n \in fixes'[f] : n \in fixes[f] \/ saved'[n] # 0
           /\ handled \subseteq handled'
           /\ \A d \in Delivery : delivery'[d] = "delivered" =>
                 \/ delivery[d] = "delivered"
                 \/ \E f \in Flight : applied[f] /\ DeliveryTurn(f, d)
           /\ \A n \in sent' :
                 \/ n \in sent
                 \/ \E f \in Flight : applied[f] /\ CorrectionTurn(f, n)
  <1> DEFINE Goal == /\ \A f \in Flight :
                           /\ CallMoves(f)
                           /\ \A n \in fixes'[f] : n \in fixes[f] \/ saved'[n] # 0
                     /\ handled \subseteq handled'
                     /\ \A d \in Delivery : delivery'[d] = "delivered" =>
                           \/ delivery[d] = "delivered"
                           \/ \E f \in Flight : applied[f] /\ DeliveryTurn(f, d)
                     /\ \A n \in sent' :
                           \/ n \in sent
                           \/ \E f \in Flight : applied[f] /\ CorrectionTurn(f, n)
  <1>0. /\ pc \in [Flight -> Phase] /\ todo \in [Flight -> SUBSET Delivery]
        /\ fixes \in [Flight -> SUBSET EventId] /\ applied \in [Flight -> BOOLEAN]
        /\ delivery \in [Delivery -> {"none", "pending", "delivered"}]
        /\ patch \in [Message -> Patch]
    BY DEF TypeOK
  <1>1. \A f \in Flight : pc[f] \notin {"delivering", "correcting"} => applied[f] = FALSE
    BY <1>0 DEF Calls
  <1>2. ASSUME UNCHANGED flushVars
        PROVE  \A f \in Flight : /\ CallMoves(f)
                                 /\ \A n \in fixes'[f] : n \in fixes[f] \/ saved'[n] # 0
    BY <1>2 DEF CallMoves, flushVars
  <1>3. ASSUME NEW g \in Flight, NEW ranks, Review(g, ranks), ranks = saved',
               pc[g] \notin {"delivering", "correcting"}, UNCHANGED <<todo, applied>>
        PROVE  \A f \in Flight : /\ CallMoves(f)
                                 /\ \A n \in fixes'[f] : n \in fixes[f] \/ saved'[n] # 0
    <2> SUFFICES ASSUME NEW f \in Flight
                 PROVE  /\ CallMoves(f)
                        /\ \A n \in fixes'[f] : n \in fixes[f] \/ saved'[n] # 0
      OBVIOUS
    <2>1. CASE f = g
      <3>1. applied'[f] = FALSE
        BY <1>1, <1>3, <2>1
      <3>2. \A n \in fixes'[f] : saved'[n] # 0
        BY <1>0, <1>3, <2>1 DEF Review, Oldest, Unsent
      <3> QED
        BY <3>1, <3>2 DEF CallMoves
    <2>2. CASE f # g
      BY <1>0, <1>3, <2>2 DEF Review, CallMoves
    <2> QED
      BY <2>1, <2>2
  <1>4. ASSUME NEW n \in EventId, Ingest(n)
        PROVE  Goal
    <2>1. handled' = handled /\ sent' = sent
      BY <1>4 DEF Ingest, remoteVars
    <2>2. \A d \in Delivery : delivery'[d] = "delivered" => delivery[d] = "delivered"
      BY <1>4 DEF Ingest
    <2>3. CASE UNCHANGED flushVars
      BY <1>2, <2>1, <2>2, <2>3
    <2>4. ASSUME NEW g \in Flight, Ready(g), pc' = [pc EXCEPT ![g] = "listing"],
                 UNCHANGED <<todo, fixes, applied>>
          PROVE  \A f \in Flight : CallMoves(f) /\ fixes'[f] = fixes[f]
      <3> SUFFICES ASSUME NEW f \in Flight PROVE CallMoves(f) /\ fixes'[f] = fixes[f]
        OBVIOUS
      <3>1. CASE f = g
        BY <1>1, <2>4, <3>1 DEF CallMoves, Ready
      <3>2. CASE f # g
        BY <1>0, <2>4, <3>2 DEF CallMoves
      <3> QED
        BY <3>1, <3>2
    <2> QED
      BY <1>4, <2>1, <2>2, <2>3, <2>4 DEF Ingest
  <1>5. ASSUME NEW n \in EventId, Mutate(n)
        PROVE  Goal
    <2>1. handled' = handled /\ sent' = sent /\ delivery' = delivery
      BY <1>5 DEF Mutate, remoteVars
    <2>2. PICK g \in Flight : Ready(g) /\ Review(g, saved')
      BY <1>5 DEF Mutate
    <2>3. pc[g] \notin {"delivering", "correcting"} /\ UNCHANGED <<todo, applied>>
      BY <1>5, <2>2 DEF Mutate, Ready
    <2> QED
      BY <1>3, <2>1, <2>2, <2>3
  <1>6. CASE \/ \E n \in EventId : IngestFails(n)
             \/ UNCHANGED vars
    BY <1>2, <1>6 DEF IngestFails, vars, gatewayVars, remoteVars
  <1>7. CASE Restart
    BY <1>7 DEF Restart, CallMoves, gatewayVars, remoteVars
  <1>8. CASE ReviewLoop
    <2>1. UNCHANGED <<gatewayVars, remoteVars>>
      BY <1>8 DEF ReviewLoop
    <2>2. \A f \in Flight : /\ CallMoves(f)
                            /\ \A n \in fixes'[f] : n \in fixes[f] \/ saved'[n] # 0
      <3>1. /\ Review(Loop, saved) /\ saved = saved' /\ pc[Loop] = "reviewing"
            /\ UNCHANGED <<todo, applied>>
        BY <1>8 DEF ReviewLoop, gatewayVars
      <3> QED
        BY <1>3, <3>1, ChatAssumption
    <2> QED
      BY <2>1, <2>2 DEF gatewayVars, remoteVars
  <1>9. ASSUME NEW g \in Flight, List(g)
        PROVE  Goal
    <2>1. UNCHANGED <<gatewayVars, remoteVars, fixes, applied>>
      BY <1>9 DEF List
    <2>2. ASSUME NEW f \in Flight
          PROVE  CallMoves(f)
      <3>1. CASE f = g
        BY <1>1, <1>9, <2>1, <3>1 DEF List, CallMoves
      <3>2. CASE f # g
        BY <1>0, <1>9, <2>1, <3>2 DEF List, CallMoves
      <3> QED
        BY <3>1, <3>2
    <2> QED
      BY <2>1, <2>2 DEF gatewayVars, remoteVars
  <1>10. ASSUME NEW g \in Flight, NEW d \in Delivery, Deliver(g, d)
         PROVE  Goal
    <2>1. /\ handled' = handled \cup {d} /\ applied' = [applied EXCEPT ![g] = TRUE]
          /\ UNCHANGED <<sent, delivery, pc, todo, fixes>>
      BY <1>10 DEF Deliver, gatewayVars
    <2>2. ASSUME NEW f \in Flight
          PROVE  CallMoves(f)
      <3>1. CASE f = g
        BY <1>10, <2>1, <3>1 DEF Deliver, CallMoves
      <3>2. CASE f # g
        BY <1>0, <2>1, <3>2 DEF CallMoves
      <3> QED
        BY <3>1, <3>2
    <2> QED
      BY <2>1, <2>2
  <1>11. ASSUME NEW g \in Flight, NEW n \in EventId, Correct(g, n)
         PROVE  Goal
    <2> DEFINE m == stream[n].message
    <2>1. /\ applied' = [applied EXCEPT ![g] = TRUE]
          /\ UNCHANGED <<sent, delivery, pc, todo, fixes, handled>>
      BY <1>11 DEF Correct, gatewayVars
    <2>2. patch'[m] = Merged(patch[m], n)
      <3>1. m \in Message
        BY StreamAssumption DEF TypeOK, EventType
      <3> QED
        BY <1>0, <1>11, <3>1 DEF Correct
    <2>3. ASSUME NEW f \in Flight
          PROVE  CallMoves(f)
      <3>1. CASE f = g
        BY <1>11, <2>1, <2>2, <3>1 DEF Correct, CallMoves
      <3>2. CASE f # g
        BY <1>0, <2>1, <3>2 DEF CallMoves
      <3> QED
        BY <3>1, <3>2
    <2> QED
      BY <2>1, <2>3
  <1>12. ASSUME NEW g \in Flight, NEW d, NextDelivery(g, d)
         PROVE  \A f \in Flight : CallMoves(f) /\ fixes'[f] = fixes[f]
    <2> SUFFICES ASSUME NEW f \in Flight PROVE CallMoves(f) /\ fixes'[f] = fixes[f]
      OBVIOUS
    <2>1. CASE f = g
      BY <1>0, <1>12, <2>1 DEF NextDelivery, CallMoves
    <2>2. CASE f # g
      BY <1>0, <1>12, <2>2 DEF NextDelivery, CallMoves
    <2> QED
      BY <2>1, <2>2
  <1>13. ASSUME NEW g \in Flight, NEW n, NextCorrection(g, n)
         PROVE  \A f \in Flight : CallMoves(f) /\ fixes'[f] \subseteq fixes[f]
    <2> SUFFICES ASSUME NEW f \in Flight PROVE CallMoves(f) /\ fixes'[f] \subseteq fixes[f]
      OBVIOUS
    <2>1. CASE f = g
      BY <1>0, <1>13, <2>1 DEF NextCorrection, CallMoves
    <2>2. CASE f # g
      BY <1>0, <1>13, <2>2 DEF NextCorrection, CallMoves
    <2> QED
      BY <2>1, <2>2
  <1>14. ASSUME NEW g \in Flight, NEW d \in Delivery, Complete(g, d)
         PROVE  Goal
    <2>1. /\ delivery' = [delivery EXCEPT ![d] = "delivered"]
          /\ applied[g] /\ DeliveryTurn(g, d) /\ handled' = handled /\ sent' = sent
      BY <1>14 DEF Complete, remoteVars
    <2>2. \A e \in Delivery : delivery'[e] = "delivered" => delivery[e] = "delivered" \/ e = d
      BY <1>0, <2>1
    <2> QED
      BY <1>12, <1>14, <2>1, <2>2 DEF Complete
  <1>15. ASSUME NEW g \in Flight, NEW d, Fail(g, d)
         PROVE  Goal
    BY <1>12, <1>15 DEF Fail, gatewayVars, remoteVars
  <1>16. ASSUME NEW g \in Flight, NEW k \in Message, IngestTorn(g, k)
         PROVE  Goal
    <2>1. NextDelivery(g, <<k, Commlink>>) /\ UNCHANGED <<delivery, sent, handled>>
      BY <1>16 DEF IngestTorn, gatewayVars
    <2> QED
      BY <1>12, <2>1
  <1>17. ASSUME NEW g \in Flight, NEW n \in EventId, CompleteMutation(g, n)
         PROVE  Goal
    <2>1. /\ sent' = sent \cup {n} /\ applied[g] /\ CorrectionTurn(g, n)
          /\ UNCHANGED <<delivery, handled>>
      BY <1>17 DEF CompleteMutation, remoteVars
    <2> QED
      BY <1>13, <1>17, <2>1 DEF CompleteMutation
  <1>18. ASSUME NEW g \in Flight, NEW n, FailMutation(g, n)
         PROVE  Goal
    BY <1>13, <1>18 DEF FailMutation, gatewayVars, remoteVars
  <1> QED
    BY <1>4, <1>5, <1>6, <1>7, <1>8, <1>9, <1>10, <1>11, <1>14, <1>15, <1>16, <1>17, <1>18
    DEF Next

\* The first state has nothing stored, called or sent.
LEMMA SettledInit == Init => SInv
  <1> SUFFICES ASSUME Init PROVE SInv
    OBVIOUS
  <1>1. Stored
    <2>1. IsFiniteSet({}) /\ Cardinality({}) = 0
      BY FS_EmptySet
    <2>2. {k \in Message : rowid[k] # 0} = {} /\ {k \in EventId : saved[k] # 0} = {}
      BY DEF Init
    <2> QED
      BY <2>1, <2>2 DEF Init, Stored, Numbered, SavedCorrects
  <1>2. \A f \in Flight : Calls(f)
    BY DEF Init, Calls
  <1>3. \A m \in Message : Known(m)
    BY DEF Init, Known, NoPatch
  <1>4. SettledWasApplied
    BY DEF Init, SettledWasApplied
  <1> QED
    BY <1>1, <1>2, <1>3, <1>4 DEF SInv

\* Every step keeps it: a turn is one row's, so the call that was applied is
\* the one that is settled.
LEMMA SettledNext == IInv /\ SInv /\ [Next]_vars => SInv'
  <1> SUFFICES ASSUME IInv, SInv, [Next]_vars PROVE SInv'
    OBVIOUS
  <1>0. /\ TypeOK /\ Unstored /\ Listed
        /\ Stored /\ SavedCorrects /\ SettledWasApplied
        /\ \A f \in Flight : Calls(f)
        /\ \A m \in Message : Known(m)
    BY DEF IInv, SInv, Stored
  <1>1. /\ stream' = stream
        /\ Stored'
        /\ \A m \in Message : rowid[m] # 0 => rowid'[m] = rowid[m]
        /\ \A n \in EventId : saved[n] # 0 => saved'[n] = saved[n]
    BY <1>0, StoredSteps
  <1>2. \A n \in EventId : /\ stream[n].message \in Message
                           /\ patch[stream[n].message] \in Patch
    BY <1>0, StreamAssumption DEF TypeOK, EventType
  <1>3. /\ \A n \in EventId : \A p : Reflected(n, p)' <=> Reflected(n, p')
        /\ Edits' = Edits /\ Removals' = Removals
    BY <1>1 DEF Reflected, Edits, Removals
  <1>4. ASSUME NEW n \in EventId, Reflected(n, patch[stream[n].message])
        PROVE  Reflected(n, patch'[stream[n].message])
    BY <1>0, <1>2, <1>4, PatchSteps, MergedReflects DEF Known, SavedCorrects
  <1>5. \A f \in Flight : Calls(f)'
    <2> SUFFICES ASSUME NEW f \in Flight PROVE Calls(f)'
      OBVIOUS
    <2> DEFINE same == pc'[f] = pc[f] /\ todo'[f] = todo[f] /\ fixes'[f] = fixes[f]
    <2>1. /\ CallMoves(f)
          /\ \A n \in fixes'[f] : n \in fixes[f] \/ saved'[n] # 0
          /\ handled \subseteq handled'
      BY <1>0, CallSteps
    <2>2. /\ \A n \in fixes[f] : saved[n] # 0
          /\ applied[f] => pc[f] \in {"delivering", "correcting"}
          /\ fixes[f] \subseteq EventId /\ todo[f] \subseteq Delivery
      BY <1>0 DEF Calls, TypeOK
    <2>3. \A n \in fixes'[f] : saved'[n] # 0
      BY <1>1, <2>1, <2>2
    <2>4. applied'[f] => pc'[f] \in {"delivering", "correcting"}
      BY <2>1, <2>2 DEF CallMoves, DeliveryTurn, CorrectionTurn
    <2>5. ASSUME same, NEW d \in Delivery, DeliveryTurn(f, d)'
          PROVE  DeliveryTurn(f, d)
      <3>1. \A e \in todo[f] : DeliveryRank'[e] = DeliveryRank[e]
        <4> SUFFICES ASSUME NEW e \in todo[f] PROVE DeliveryRank'[e] = DeliveryRank[e]
          OBVIOUS
        <4>1. e \in Delivery /\ e[1] \in Message /\ rowid[e[1]] # 0
          BY <1>0, <2>2 DEF Listed, Unstored, Delivery
        <4> QED
          BY <1>1, <4>1 DEF DeliveryRank
      <3> QED
        BY <2>5, <3>1 DEF DeliveryTurn
    <2>6. ASSUME same, NEW n \in EventId, CorrectionTurn(f, n)'
          PROVE  CorrectionTurn(f, n)
      BY <1>1, <2>2, <2>6 DEF CorrectionTurn
    <2>7. ASSUME NEW d \in Delivery, applied'[f], DeliveryTurn(f, d)'
          PROVE  d \in handled'
      <3>1. CASE same /\ applied'[f] = applied[f]
        BY <1>0, <2>1, <2>5, <2>7, <3>1 DEF Calls
      <3>2. ASSUME same, NEW e \in Delivery, DeliveryTurn(f, e), e \in handled'
            PROVE  d = e
        <4>1. DeliveryTurn(f, d)
          BY <2>5, <2>7, <3>2
        <4>2. DeliveryRank[d] = DeliveryRank[e]
          <5>1. DeliveryRank[d] \in Nat /\ DeliveryRank[e] \in Nat
            BY <1>0, ChatAssumption DEF DeliveryRank, TypeOK, Delivery, Consumer
          <5>2. DeliveryRank[d] <= DeliveryRank[e] /\ DeliveryRank[e] <= DeliveryRank[d]
            BY <3>2, <4>1 DEF DeliveryTurn
          <5> QED
            BY <5>1, <5>2
        <4>3. rowid[d[1]] # 0 /\ rowid[e[1]] # 0
          BY <1>0, <3>2, <4>1 DEF DeliveryTurn, Listed, Unstored
        <4> QED
          BY <1>0, <4>2, <4>3, RankedApart DEF Stored
      <3>3. CASE \E n \in EventId : same /\ CorrectionTurn(f, n)
        BY <2>7, <3>3 DEF DeliveryTurn, CorrectionTurn
      <3> QED
        BY <2>1, <2>7, <3>1, <3>2, <3>3 DEF CallMoves
    <2>8. ASSUME NEW n \in EventId, applied'[f], CorrectionTurn(f, n)'
          PROVE  Reflected(n, patch'[stream[n].message])
      <3>1. CASE same /\ applied'[f] = applied[f]
        BY <1>0, <1>4, <2>6, <2>8, <3>1 DEF Calls
      <3>2. CASE \E d \in Delivery : same /\ DeliveryTurn(f, d)
        BY <2>8, <3>2 DEF DeliveryTurn, CorrectionTurn
      <3>3. ASSUME same, NEW k \in EventId, CorrectionTurn(f, k),
                   patch'[stream[k].message] = Merged(patch[stream[k].message], k)
            PROVE  Reflected(n, patch'[stream[n].message])
        <4>1. CorrectionTurn(f, n)
          BY <2>6, <2>8, <3>3
        <4>2. saved[n] = saved[k] /\ saved[n] # 0
          <5>1. saved[n] \in Nat /\ saved[k] \in Nat
            BY <1>0 DEF TypeOK
          <5>2. saved[n] <= saved[k] /\ saved[k] <= saved[n]
            BY <3>3, <4>1 DEF CorrectionTurn
          <5>3. saved[n] # 0
            BY <2>2, <4>1 DEF CorrectionTurn
          <5> QED
            BY <5>1, <5>2, <5>3
        <4>3. n = k
          BY <1>0, <4>2 DEF Stored, Numbered
        <4> QED
          BY <1>0, <1>2, <3>3, <4>2, <4>3, MergedReflects DEF Known, SavedCorrects
      <3> QED
        BY <2>1, <2>8, <3>1, <3>2, <3>3 DEF CallMoves
    <2> QED
      BY <1>1, <1>3, <2>3, <2>4, <2>7, <2>8 DEF Calls
  <1>6. \A m \in Message : Known(m)'
    <2> SUFFICES ASSUME NEW m \in Message PROVE Known(m)'
      OBVIOUS
    <2>1. CASE patch'[m] = patch[m]
      BY <1>0, <1>1, <1>3, <2>1 DEF Known, Edits, Removals
    <2>2. ASSUME NEW n \in EventId, stream[n].message = m, saved[n] # 0,
                 patch'[m] = Merged(patch[m], n)
          PROVE  Known(m)'
      <3>1. stream[n] \in EventType /\ stream[n].kind \in {"edit", "delete"}
        BY <1>0, <2>2, StreamAssumption DEF TypeOK, EventType, SavedCorrects
      <3>2. saved'[n] # 0
        BY <1>1, <2>2
      <3>3. CASE patch'[m] = patch[m]
        BY <2>1, <3>3
      <3>4. CASE patch'[m] = Removed /\ stream[n].kind = "delete"
        BY <1>1, <1>3, <2>2, <3>2, <3>4 DEF Known, Removed, Removals
      <3>5. CASE /\ stream[n].kind = "edit"
                 /\ patch'[m] = [kind |-> "edit", at |-> stream[n].at,
                       text |-> IF "text" \in stream[n].fields THEN n ELSE patch[m].text,
                       rich |-> IF "rich" \in stream[n].fields THEN n ELSE patch[m].rich]
        <4>1. stream[n].fields \subseteq {"text", "rich"}
          BY <3>1 DEF EventType, Field
        <4>2. \A field \in stream[n].fields : patch'[m][field] = n
          BY <3>5, <4>1
        <4>3. n \in Edits /\ patch'[m].kind = "edit" /\ patch'[m].at = stream[n].at
          BY <3>5 DEF Edits
        <4> QED
          BY <1>1, <1>3, <2>2, <3>2, <4>2, <4>3 DEF Known
      <3> QED
        BY <2>2, <3>1, <3>3, <3>4, <3>5 DEF Merged
    <2> QED
      BY <1>0, <2>1, <2>2, PatchSteps
  <1>7. SettledWasApplied'
    <2>1. ASSUME NEW d \in Delivery, delivery'[d] = "delivered"
          PROVE  d \in handled'
      <3>1. handled \subseteq handled'
        BY <1>0, CallSteps
      <3>2. delivery[d] = "delivered" \/ \E f \in Flight : applied[f] /\ DeliveryTurn(f, d)
        BY <1>0, <2>1, CallSteps
      <3> QED
        BY <1>0, <3>1, <3>2 DEF Calls, SettledWasApplied
    <2>2. ASSUME NEW n \in sent'
          PROVE  n \in EventId /\ Reflected(n, patch'[stream[n].message])
      <3>1. n \in EventId
        BY <1>0, OtherTypes
      <3>2. n \in sent \/ \E f \in Flight : applied[f] /\ CorrectionTurn(f, n)
        BY <1>0, CallSteps
      <3>3. Reflected(n, patch[stream[n].message])
        BY <1>0, <3>1, <3>2 DEF Calls, SettledWasApplied, Reflected
      <3> QED
        BY <1>4, <3>1, <3>3
    <2> QED
      BY <1>1, <1>3, <2>1, <2>2 DEF SettledWasApplied, Reflected
  <1> QED
    BY <1>1, <1>5, <1>6, <1>7 DEF SInv

\* The second invariant holds in every state of every behaviour.
THEOREM SettledInvariance == Spec => [](IInv /\ SInv)
  <1>1. Init => IInv /\ SInv
    BY InvInit, SettledInit
  <1>2. IInv /\ SInv /\ [Next]_vars => IInv' /\ SInv'
    BY InvNext, SettledNext
  <1> QED
    BY <1>1, <1>2, PTL DEF Spec

\* What is marked delivered or sent was applied, whichever of the overlapping
\* flushes marked it and however often it was tried.
THEOREM SettledApplied == Spec => []SettledWasApplied
  <1>1. IInv /\ SInv => SettledWasApplied
    BY DEF SInv
  <1> QED
    BY <1>1, SettledInvariance, PTL

\* The newest edit of a message shows, whatever older ones are retried after it.
THEOREM NewestShown == Spec => []NewestEditShown
  <1>1. IInv /\ SInv => NewestEditShown
    <2> SUFFICES ASSUME IInv, SInv, NEW n \in sent \cap Edits,
                        delivery[<<stream[n].message, Commlink>>] = "delivered",
                        \A k \in {k \in EventId : saved[k] # 0
                                     /\ stream[k].message = stream[n].message} \ {n} :
                           k \in Edits /\ stream[k].at < stream[n].at,
                        NEW field \in stream[n].fields
                 PROVE  record[stream[n].message][field] = n
      BY DEF NewestEditShown
    <2> DEFINE m == stream[n].message
               p == patch[m]
               r == record[m]
    <2>1. /\ n \in EventId /\ n \in Nat \ {0} /\ stream[n].kind = "edit"
          /\ m \in Message /\ r \in Record /\ p \in Patch
          /\ field \in {"text", "rich"}
          /\ \A k \in EventId : stream[k].at \in Nat
      <3>1. \A k \in EventId : stream[k] \in EventType /\ k \in Nat \ {0}
        BY StreamAssumption, ChatAssumption DEF IInv, TypeOK, EventId
      <3>2. n \in EventId /\ stream[n].kind = "edit"
        BY DEF Edits
      <3>3. m \in Message
        BY <3>1, <3>2 DEF EventType
      <3>4. r \in Record /\ p \in Patch
        BY <3>3 DEF IInv, TypeOK
      <3> QED
        BY <3>1, <3>2, <3>3, <3>4 DEF EventType, Field
    <2>2. p.kind = "delete" \/ (p.kind = "edit" /\ p.at >= stream[n].at)
      BY DEF SInv, SettledWasApplied
    <2>3. Known(m)
      BY <2>1 DEF SInv
    <2>4. p.kind # "delete"
      <3> SUFFICES ASSUME p.kind = "delete" PROVE FALSE
        OBVIOUS
      <3>1. PICK k \in Removals : saved[k] # 0 /\ stream[k].message = m
        BY <2>3 DEF Known
      <3>2. k \in EventId /\ k # n /\ k \notin Edits
        BY <2>1, <3>1 DEF Removals, Edits
      <3> QED
        BY <3>1, <3>2
    <2>5. p[field] = n
      <3>1. PICK k \in Edits : /\ saved[k] # 0 /\ stream[k].message = m
                               /\ p.at = stream[k].at
                               /\ \A g \in stream[k].fields : p[g] = k
        BY <2>2, <2>3, <2>4 DEF Known
      <3>2. k = n
        BY <2>1, <2>2, <2>4, <3>1 DEF Edits
      <3> QED
        BY <3>1, <3>2
    <2>6. r.state # "absent" /\ r = Corrected(r, p)
      <3>1. Commlink \in Consumer
        BY ChatAssumption DEF Commlink, Consumer
      <3>2. <<m, Commlink>> \in Delivery
        BY <2>1, <3>1 DEF Delivery
      <3>3. <<m, Commlink>> \in handled
        BY <3>2 DEF SInv, SettledWasApplied
      <3> QED
        BY <2>1, <3>3 DEF IInv, ShownIsCorrected
    <2>7. Corrected(r, p) = [state |-> IF p.rich # 0 THEN "shown" ELSE r.state,
                             text |-> IF p.text # 0 THEN p.text ELSE r.text,
                             rich |-> IF p.rich # 0 THEN p.rich ELSE r.rich]
      BY <2>2, <2>4, <2>6 DEF Corrected
    <2>8. r.text = (IF p.text # 0 THEN p.text ELSE r.text)
          /\ r.rich = (IF p.rich # 0 THEN p.rich ELSE r.rich)
      BY <2>6, <2>7
    <2> HIDE DEF p, r
    <2>9. r[field] = n
      BY <2>1, <2>5, <2>8
    <2> QED
      BY <2>9 DEF r
  <1> QED
    BY <1>1, SettledInvariance, PTL


-----------------------------------------------------------------------------
(* What a lost event takes. *)

\* The gateway has what event n carried.
Kept(n) ==
    \/ rowid[stream[n].message] # 0 /\ stream[n].kind = "create"
    \/ \E k \in EventId : saved[k] # 0 /\ SameCorrection(n, k)

\* The cursor passes an event whose own is not stored.
LosesEvent == \E n \in EventId : IngestFails(n) /\ ~Kept(n)

\* An arrival that leaves the event kept leaves nothing behind the cursor.
LEMMA ArrivalKeeps ==
    ASSUME TypeOK, PassedIsSaved, NEW n \in EventId, Arrives(n),
           Kept(n)', \A k \in EventId : Kept(k) => Kept(k)'
    PROVE  PassedIsSaved'
  <1>1. cursor \in Nat /\ n \in Nat /\ n <= cursor + 1 /\ cursor' = n /\ n <= Events
        /\ Events \in Nat
    BY ChatAssumption DEF TypeOK, Arrives, EventId
  <1>2. ASSUME NEW k \in 1..cursor'
        PROVE  Kept(k)'
    <2>1. k \in EventId /\ (k = n \/ k \in 1..cursor)
      BY <1>1 DEF EventId
    <2> QED
      BY <2>1 DEF PassedIsSaved, Kept
  <1> QED
    BY <1>2 DEF PassedIsSaved, Kept

\* What is kept stays kept.
LEMMA KeptSteps ==
    ASSUME TypeOK, Stored, [Next]_vars, NEW n \in EventId, Kept(n)
    PROVE  Kept(n)'
  <1>1. /\ stream' = stream
        /\ \A m \in Message : rowid[m] # 0 => rowid'[m] = rowid[m]
        /\ \A k \in EventId : saved[k] # 0 => saved'[k] = saved[k]
    BY StoredSteps
  <1>2. stream[n].message \in Message
    BY StreamAssumption DEF TypeOK, EventType
  <1>3. \A k \in EventId : SameCorrection(n, k) => SameCorrection(n, k)'
    BY <1>1 DEF SameCorrection, Removals
  <1> QED
    BY <1>1, <1>2, <1>3 DEF Kept

\* Only Ingest, Mutate and IngestFails move the cursor.
LEMMA PassedStep ==
    ASSUME TypeOK, Stored, PassedIsSaved, [Next]_vars, ~LosesEvent
    PROVE  PassedIsSaved'
  <1>0. \A n \in EventId : Kept(n) => Kept(n)'
    BY KeptSteps
  <1>1. CASE cursor' = cursor
    <2>1. \A n \in 1..cursor : n \in EventId
      BY ChatAssumption DEF TypeOK, EventId
    <2> QED
      BY <1>0, <1>1, <2>1 DEF PassedIsSaved, Kept
  <1>2. ASSUME NEW n \in EventId, Ingest(n)
        PROVE  PassedIsSaved'
    <2> DEFINE m == stream[n].message
    <2>1. stream' = stream /\ stream[n].kind = "create" /\ Arrives(n)
      BY <1>2 DEF Ingest
    <2>2. m \in Message /\ rowid \in [Message -> Nat]
      BY StreamAssumption DEF TypeOK, EventType
    <2>3. rowid'[m] # 0
      <3> DEFINE earlier == {k \in Message : rowid[k] # 0}
      <3>1. Cardinality(earlier) \in Nat
        BY ChatAssumption, FS_Subset, FS_CardinalityType
      <3>2. CASE rowid[m] # 0 /\ rowid' = rowid
        BY <3>2
      <3>3. CASE rowid' = [rowid EXCEPT ![m] = Cardinality(earlier) + 1]
        <4> HIDE DEF earlier
        <4> QED
          BY <2>2, <3>1, <3>3
      <3> QED
        BY <1>2, <3>2, <3>3 DEF Ingest
    <2>4. Kept(n)'
      BY <2>1, <2>3 DEF Kept
    <2> QED
      BY <1>0, <2>1, <2>4, ArrivalKeeps
  <1>3. ASSUME NEW n \in EventId, Mutate(n)
        PROVE  PassedIsSaved'
    <2> DEFINE earlier == {k \in EventId : saved[k] # 0}
    <2>1. stream' = stream /\ Arrives(n)
      BY <1>3 DEF Mutate
    <2>2. Cardinality(earlier) \in Nat
      <3>1. IsFiniteSet(EventId)
        BY ChatAssumption, FS_Interval DEF EventId
      <3> QED
        BY <3>1, FS_Subset, FS_CardinalityType
    <2>3. Kept(n)'
      <3>1. CASE \E k \in EventId : saved[k] # 0 /\ SameCorrection(n, k)
        BY <1>0, <3>1 DEF Kept
      <3>2. CASE saved' = [saved EXCEPT ![n] = Cardinality(earlier) + 1]
        <4>1. saved'[n] # 0
          <5>1. saved \in [EventId -> Nat]
            BY DEF TypeOK
          <5> HIDE DEF earlier
          <5> QED
            BY <2>2, <3>2, <5>1
        <4> QED
          BY <4>1 DEF Kept, SameCorrection
      <3> QED
        BY <1>3, <3>1, <3>2 DEF Mutate
    <2> QED
      BY <1>0, <2>1, <2>3, ArrivalKeeps
  <1>4. ASSUME NEW n \in EventId, IngestFails(n)
        PROVE  PassedIsSaved'
    <2>1. Arrives(n) /\ Kept(n)
      BY <1>4 DEF IngestFails, LosesEvent
    <2> QED
      BY <1>0, <2>1, ArrivalKeeps
  <1>5. CASE \E f \in Flight :
                \/ \E d \in Delivery : Deliver(f, d) \/ Complete(f, d) \/ Fail(f, d)
                \/ \E k \in Message : IngestTorn(f, k)
                \/ \E n \in EventId : Correct(f, n) \/ CompleteMutation(f, n) \/ FailMutation(f, n)
                \/ List(f)
    BY <1>1, <1>5 DEF Deliver, Complete, Fail, IngestTorn, Correct, CompleteMutation,
                      FailMutation, List, gatewayVars
  <1>6. CASE Restart \/ ReviewLoop \/ UNCHANGED vars
    BY <1>1, <1>6 DEF Restart, ReviewLoop, vars, gatewayVars
  <1> QED
    BY <1>2, <1>3, <1>4, <1>5, <1>6 DEF Next

\* Run chat_delivery_lost shows an event that a restart will not send again and that
\* nothing stored.  That takes a store that throws, or a process that dies,
\* between the saved cursor and the saved event (LosesEvent): superseded
\* sockets, replays, restarts, duplicates and overlapping flushes lose none.
THEOREM OnlyLostIngestionLoses ==
    Spec /\ [][~LosesEvent]_vars => []PassedIsSaved
  <1>1. Init => PassedIsSaved
    BY DEF Init, PassedIsSaved
  <1>2. /\ IInv /\ SInv /\ PassedIsSaved
        /\ [Next]_vars
        /\ [~LosesEvent]_vars
        => PassedIsSaved'
    <2> SUFFICES ASSUME IInv, SInv, PassedIsSaved, [Next]_vars, [~LosesEvent]_vars
                 PROVE  PassedIsSaved'
      OBVIOUS
    <2>1. CASE UNCHANGED vars
      BY <2>1 DEF vars, gatewayVars, PassedIsSaved, SameCorrection, Removals
    <2>2. CASE ~LosesEvent
      BY <2>2, PassedStep DEF IInv, SInv
    <2> QED
      BY <2>1, <2>2
  <1> QED
    BY <1>1, <1>2, SettledInvariance, PTL DEF Spec

=============================================================================
