---------------------- MODULE ProviderConnectionsProofs ----------------------
(***************************************************************************)
(* Proofs about ProviderConnections, for any processes, connections and    *)
(* sockets.  The argument has two halves that only share the type          *)
(* invariant: rows change in one of the ways RowMoves lists (lemma         *)
(* RowSteps), and each keeps an idle row unleased and a paused one paused; *)
(* sockets open, close and are registered as SocketsOwned and              *)
(* RegisteredIsOpen ask (lemma SocketSteps).                               *)
(***************************************************************************)
EXTENDS ProviderConnections, TLAPS

\* An open socket belongs to a process and a connection, and a process that
\* awaits an answer awaits it for a connection.
SocketsOwned ==
    \A s \in Socket : socket[s] # Closed =>
        socket[s].process \in Process /\ socket[s].connection \in Connection

Serving ==
    \A p \in Process : pc[p] \in {"granting", "opening"} => current[p] \in Connection

IInv == TypeOK /\ IdleRowsUnleased /\ RegisteredIsOpen /\ SocketsOwned /\ Serving

-----------------------------------------------------------------------------
(* Rows. *)

\* How one row may change in a step.
RowMoves(k) ==
    \/ row'[k] = row[k]
    \/ \E desired \in BOOLEAN : row'[k] = Put(row[k], desired)
    \/ row'[k] = [row[k] EXCEPT !.waiting = FALSE]
    \/ /\ row[k].owner # NoProcess
       /\ \/ row'[k] = [row[k] EXCEPT !.expired = TRUE]
          \/ row'[k] = [row[k] EXCEPT !.expired = FALSE]
          \/ row'[k] = Connected(row[k])
          \/ row'[k] = Backoff(row[k])
          \/ row'[k] = Reauthorize(row[k])
          \/ row'[k] = Released(row[k], row[k].owner)
    \/ /\ row[k].state \in {"pending", "backoff", "connecting", "connected"}
       /\ \E p \in Process : row'[k] = Claimed(row[k], p)

\* What each of them makes of a row.
LEMMA RowKept ==
    ASSUME NEW k \in Connection, row[k] \in Row, RowMoves(k),
           row[k].state \in Idle => row[k].owner = NoProcess
    PROVE  /\ row'[k] \in Row
           /\ row'[k].state \in Idle => row'[k].owner = NoProcess
           /\ row[k].state = "reauthorization-required" =>
                 \/ row'[k].state = "reauthorization-required"
                 \/ row'[k] \in {Put(row[k], TRUE), Put(row[k], FALSE)}
  <1> USE DEF Row, State, Idle
  <1>1. CASE row'[k] = row[k]
    BY <1>1
  <1>2. ASSUME NEW desired \in BOOLEAN, row'[k] = Put(row[k], desired)
        PROVE  /\ row'[k] \in Row
               /\ row'[k].state \in Idle => row'[k].owner = NoProcess
               /\ row'[k] \in {Put(row[k], TRUE), Put(row[k], FALSE)}
    BY <1>2 DEF Put, Unleased
  <1>3. CASE row'[k] = [row[k] EXCEPT !.waiting = FALSE]
    BY <1>3
  <1>4. CASE row[k].owner # NoProcess /\ row'[k] = [row[k] EXCEPT !.expired = TRUE]
    BY <1>4
  <1>5. CASE row[k].owner # NoProcess /\ row'[k] = [row[k] EXCEPT !.expired = FALSE]
    BY <1>5
  <1>6. CASE row[k].owner # NoProcess /\ row'[k] = Connected(row[k])
    BY <1>6 DEF Connected
  <1>7. CASE row[k].owner # NoProcess /\ row'[k] = Backoff(row[k])
    BY <1>7 DEF Backoff, Unleased
  <1>8. CASE row[k].owner # NoProcess /\ row'[k] = Reauthorize(row[k])
    BY <1>8 DEF Reauthorize, Unleased
  <1>9. CASE row[k].owner # NoProcess /\ row'[k] = Released(row[k], row[k].owner)
    BY <1>9 DEF Released, Unleased
  <1>10. ASSUME row[k].state \in {"pending", "backoff", "connecting", "connected"},
                NEW p \in Process, row'[k] = Claimed(row[k], p)
         PROVE  /\ row'[k] \in Row
                /\ row'[k].state \notin Idle
                /\ row[k].state # "reauthorization-required"
    BY <1>10 DEF Claimed
  <1> QED
    BY <1>1, <1>2, <1>3, <1>4, <1>5, <1>6, <1>7, <1>8, <1>9, <1>10 DEF RowMoves

\* Every step moves rows only in those ways, and keeps the table's shape.
LEMMA RowSteps ==
    ASSUME IInv, [Next]_vars
    PROVE  /\ \A k \in Connection : RowMoves(k)
           /\ row' = [k \in Connection |-> row'[k]]
  <1> USE ConnectionAssumption
  <1>0. row = [k \in Connection |-> row[k]] /\ \A k \in Connection : row[k] \in Row
    BY DEF IInv, TypeOK
  <1>a. ASSUME UNCHANGED row
        PROVE  /\ \A k \in Connection : RowMoves(k)
               /\ row' = [k \in Connection |-> row'[k]]
    BY <1>0, <1>a DEF RowMoves
  <1>b. ASSUME NEW j \in Connection, NEW r, row' = [row EXCEPT ![j] = r],
               RowMoves(j)
        PROVE  /\ \A k \in Connection : RowMoves(k)
               /\ row' = [k \in Connection |-> row'[k]]
    <2>1. \A k \in Connection : k # j => row'[k] = row[k]
      BY <1>0, <1>b
    <2>2. row' = [k \in Connection |-> row'[k]]
      BY <1>0, <1>b
    <2> QED
      BY <1>b, <2>1, <2>2 DEF RowMoves
  <1>1. CASE UNCHANGED vars
    BY <1>1, <1>a DEF vars
  <1>2. ASSUME NEW k \in Connection, LeaseExpires(k)
        PROVE  /\ \A i \in Connection : RowMoves(i)
               /\ row' = [i \in Connection |-> row'[i]]
    <2>1. row'[k] = [row[k] EXCEPT !.expired = TRUE] /\ row[k].owner # NoProcess
      BY <1>0, <1>2 DEF LeaseExpires
    <2>2. RowMoves(k)
      BY <2>1 DEF RowMoves
    <2> QED
      BY <1>2, <1>b, <2>2 DEF LeaseExpires
  <1>3. ASSUME NEW k \in Connection, BackoffElapses(k)
        PROVE  /\ \A i \in Connection : RowMoves(i)
               /\ row' = [i \in Connection |-> row'[i]]
    <2>1. row'[k] = [row[k] EXCEPT !.waiting = FALSE]
      BY <1>0, <1>3 DEF BackoffElapses
    <2>2. RowMoves(k)
      BY <2>1 DEF RowMoves
    <2> QED
      BY <1>3, <1>b, <2>2 DEF BackoffElapses
  <1>4. ASSUME NEW p \in Process, Start(p)
        PROVE  /\ \A i \in Connection : RowMoves(i)
               /\ row' = [i \in Connection |-> row'[i]]
    <2>1. \A i \in Connection : row'[i] = Put(row[i], TRUE) \/ row'[i] = row[i]
      BY <1>4 DEF Start
    <2>2. row' = [i \in Connection |-> row'[i]]
      BY <1>4 DEF Start
    <2> QED
      BY <2>1, <2>2 DEF RowMoves
  <1>5. ASSUME NEW p \in Process, Crash(p)
        PROVE  UNCHANGED row
    BY <1>5 DEF Crash
  <1>6. ASSUME NEW p \in Process, Stop(p)
        PROVE  /\ \A i \in Connection : RowMoves(i)
               /\ row' = [i \in Connection |-> row'[i]]
    <2>1. \A i \in Connection : row'[i] = Released(row[i], p) \/ row'[i] = row[i]
      BY <1>6 DEF Stop
    <2>2. row' = [i \in Connection |-> row'[i]]
      BY <1>6 DEF Stop
    <2>3. ASSUME NEW i \in Connection PROVE RowMoves(i)
      <3>1. CASE row[i].owner = p
        BY <2>1, <3>1 DEF RowMoves
      <3>2. CASE row[i].owner # p
        BY <2>1, <3>2 DEF RowMoves, Released
      <3> QED BY <3>1, <3>2
    <2> QED
      BY <2>2, <2>3
  <1>7. ASSUME NEW p \in Process, NEW k \in Connection, NEW desired \in BOOLEAN,
               Configure(p, k, desired)
        PROVE  /\ \A i \in Connection : RowMoves(i)
               /\ row' = [i \in Connection |-> row'[i]]
    <2>1. row'[k] = Put(row[k], desired)
      BY <1>0, <1>7 DEF Configure
    <2>2. RowMoves(k)
      BY <2>1 DEF RowMoves
    <2> QED
      BY <1>7, <1>b, <2>2 DEF Configure
  <1>8. ASSUME NEW p \in Process, NEW k \in Connection, Recovered(p, k)
        PROVE  /\ \A i \in Connection : RowMoves(i)
               /\ row' = [i \in Connection |-> row'[i]]
    <2>1. CASE row' = [row EXCEPT ![k] = Released(@, p)]
      <3>1. row'[k] = Released(row[k], p)
        BY <1>0, <2>1
      <3>2. RowMoves(k)
        <4>1. CASE row[k].owner = p
          BY <3>1, <4>1 DEF RowMoves
        <4>2. CASE row[k].owner # p
          BY <3>1, <4>2 DEF RowMoves, Released
        <4> QED BY <4>1, <4>2
      <3> QED
        BY <2>1, <3>2, <1>b
    <2>2. CASE row[k].owner = p /\ row' = [row EXCEPT ![k] = Reauthorize(@)]
      <3>1. row'[k] = Reauthorize(row[k]) /\ row[k].owner # NoProcess
        BY <1>0, <2>2
      <3>2. RowMoves(k)
        BY <3>1 DEF RowMoves
      <3> QED
        BY <2>2, <3>2, <1>b
    <2>3. CASE row[k].owner = p /\ row' = [row EXCEPT ![k] = Backoff(@)]
      <3>1. row'[k] = Backoff(row[k]) /\ row[k].owner # NoProcess
        BY <1>0, <2>3
      <3>2. RowMoves(k)
        BY <3>1 DEF RowMoves
      <3> QED
        BY <2>3, <3>2, <1>b
    <2>4. CASE UNCHANGED row
      BY <2>4, <1>a
    <2> QED
      BY <1>8, <2>1, <2>2, <2>3, <2>4 DEF Recovered
  <1>9. ASSUME NEW p \in Process, Renew(p)
        PROVE  /\ \A i \in Connection : RowMoves(i)
               /\ row' = [i \in Connection |-> row'[i]]
    <2>1. row' = [i \in Connection |-> row'[i]]
      BY <1>9 DEF Renew
    <2>2. ASSUME NEW i \in Connection PROVE RowMoves(i)
      <3>1. \/ row'[i] = row[i]
            \/ Kept(p, i) /\ row'[i] = [row[i] EXCEPT !.expired = FALSE]
            \/ row'[i] = Released(row[i], p)
        BY <1>9 DEF Renew
      <3>2. CASE Kept(p, i) /\ row'[i] = [row[i] EXCEPT !.expired = FALSE]
        BY <3>2 DEF RowMoves, Kept
      <3>3. CASE row'[i] = Released(row[i], p) /\ row[i].owner = p
        BY <3>3 DEF RowMoves
      <3>4. CASE row'[i] = Released(row[i], p) /\ row[i].owner # p
        BY <3>4 DEF RowMoves, Released
      <3> QED
        BY <3>1, <3>2, <3>3, <3>4 DEF RowMoves
    <2> QED
      BY <2>1, <2>2
  <1>10. ASSUME NEW p \in Process, ClaimDue(p)
         PROVE  /\ \A i \in Connection : RowMoves(i)
                /\ row' = [i \in Connection |-> row'[i]]
    <2>1. row' = [i \in Connection |-> row'[i]]
      BY <1>10 DEF ClaimDue
    <2>2. ASSUME NEW i \in Connection PROVE RowMoves(i)
      <3>1. row'[i] = IF Due(i) THEN Claimed(row[i], p) ELSE row[i]
        BY <1>10 DEF ClaimDue
      <3> QED
        BY <3>1 DEF RowMoves, Due
    <2> QED
      BY <2>1, <2>2
  <1>11. ASSUME NEW p \in Process, Serve(p)
         PROVE  UNCHANGED row
    BY <1>11 DEF Serve
  <1>12. ASSUME NEW p \in Process, pc[p] \in {"granting", "opening"}, NEW r,
                Mark(p, r),
                r \in {Connected(row[current[p]]), Backoff(row[current[p]]),
                       Reauthorize(row[current[p]])}
         PROVE  /\ \A i \in Connection : RowMoves(i)
                /\ row' = [i \in Connection |-> row'[i]]
    <2>0. current[p] \in Connection
      BY <1>12 DEF IInv, Serving
    <2>1. CASE row[current[p]].owner = p /\ row' = [row EXCEPT ![current[p]] = r]
      <3>1. row'[current[p]] = r /\ row[current[p]].owner # NoProcess
        BY <1>0, <2>0, <2>1
      <3>2. RowMoves(current[p])
        BY <1>12, <3>1 DEF RowMoves
      <3> QED
        BY <1>b, <2>0, <2>1, <3>2
    <2>2. CASE UNCHANGED row
      BY <2>2, <1>a
    <2> QED
      BY <1>12, <2>1, <2>2 DEF Mark
  <1>13. ASSUME NEW p \in Process, GrantAnswered(p)
         PROVE  /\ \A i \in Connection : RowMoves(i)
                /\ row' = [i \in Connection |-> row'[i]]
    <2>1. CASE UNCHANGED row
      BY <2>1, <1>a
    <2>2. CASE Mark(p, Backoff(row[current[p]]))
      BY <1>12, <1>13, <2>2 DEF GrantAnswered
    <2>3. CASE Mark(p, Reauthorize(row[current[p]]))
      BY <1>12, <1>13, <2>3 DEF GrantAnswered
    <2> QED
      BY <1>13, <2>1, <2>2, <2>3 DEF GrantAnswered
  <1>14. ASSUME NEW p \in Process, Opened(p)
         PROVE  /\ \A i \in Connection : RowMoves(i)
                /\ row' = [i \in Connection |-> row'[i]]
    BY <1>12, <1>14 DEF Opened
  <1>15. ASSUME NEW p \in Process, OpenFails(p)
         PROVE  /\ \A i \in Connection : RowMoves(i)
                /\ row' = [i \in Connection |-> row'[i]]
    BY <1>12, <1>15 DEF OpenFails
  <1>16. ASSUME NEW s \in Socket, NEW kind, NEW after, socket[s] # Closed,
                OnDisconnect(socket[s].process, socket[s].connection, kind, after)
         PROVE  /\ \A i \in Connection : RowMoves(i)
                /\ row' = [i \in Connection |-> row'[i]]
    <2> DEFINE p == socket[s].process
               k == socket[s].connection
    <2>0. p \in Process /\ k \in Connection
      BY <1>16 DEF IInv, SocketsOwned
    <2>1. CASE row[k].owner = p /\ row' = [row EXCEPT ![k] = Backoff(@)]
      <3>1. row'[k] = Backoff(row[k]) /\ row[k].owner # NoProcess
        BY <1>0, <2>0, <2>1
      <3>2. RowMoves(k)
        BY <3>1 DEF RowMoves
      <3> QED
        BY <2>0, <2>1, <3>2, <1>b
    <2>2. CASE UNCHANGED row
      BY <2>2, <1>a
    <2> QED
      BY <1>16, <2>1, <2>2 DEF OnDisconnect
  <1>17. ASSUME NEW s \in Socket, SocketCloses(s)
         PROVE  /\ \A i \in Connection : RowMoves(i)
                /\ row' = [i \in Connection |-> row'[i]]
    BY <1>16, <1>17 DEF SocketCloses
  <1>18. ASSUME NEW s \in Socket, ReconnectRequested(s)
         PROVE  /\ \A i \in Connection : RowMoves(i)
                /\ row' = [i \in Connection |-> row'[i]]
    BY <1>16, <1>18 DEF ReconnectRequested
  <1>19. ASSUME NEW s \in Socket, MessageAfterLeaseLoss(s) \/ GrantExpires(s)
         PROVE  UNCHANGED row
    BY <1>19 DEF MessageAfterLeaseLoss, GrantExpires
  <1> QED
    BY <1>a, <1>1, <1>2, <1>3, <1>4, <1>5, <1>6, <1>7, <1>8, <1>9, <1>10, <1>11,
       <1>13, <1>14, <1>15, <1>17, <1>18, <1>19 DEF Next, Reconcile

-----------------------------------------------------------------------------
(* Sockets, and what the processes remember of them. *)

\* The type of everything but the table.
MemoryOK ==
    /\ socket \in [Socket -> SocketType]
    /\ active \in [Process -> [Connection -> Socket \cup {NoSocket}]]
    /\ recovering \in [Process -> SUBSET Connection]
    /\ pc \in [Process -> Phase]
    /\ todo \in [Process -> SUBSET Connection]
    /\ current \in [Process -> Connection \cup {NoConnection}]

SocketInv == MemoryOK /\ RegisteredIsOpen /\ SocketsOwned /\ Serving

\* A process that ends takes its sockets, its registrations and its memory along.
LEMMA DeathKeeps ==
    ASSUME SocketInv, NEW p \in Process, Dies(p)
    PROVE  SocketInv'
  <1> USE ConnectionAssumption
  <1>1. MemoryOK'
    BY DEF SocketInv, MemoryOK, Dies, Phase, SocketType, Closed, NoSocket
  <1>2. SocketsOwned'
    BY DEF SocketInv, SocketsOwned, Dies
  <1>3. RegisteredIsOpen'
    <2> SUFFICES ASSUME NEW q \in Process, NEW k \in Connection, active'[q][k] # NoSocket
                 PROVE  /\ socket'[active'[q][k]].process = q
                        /\ socket'[active'[q][k]].connection = k
      BY DEF RegisteredIsOpen, Registered
    <2>1. q # p /\ active'[q] = active[q]
      BY DEF SocketInv, MemoryOK, Dies
    <2>2. active[q][k] \in Socket /\ socket[active[q][k]].process = q
                                /\ socket[active[q][k]].connection = k
      BY <2>1 DEF SocketInv, MemoryOK, RegisteredIsOpen, Registered
    <2> QED
      BY <2>1, <2>2 DEF Dies
  <1>4. Serving'
    BY DEF SocketInv, MemoryOK, Serving, Dies
  <1> QED
    BY <1>1, <1>2, <1>3, <1>4 DEF SocketInv

\* A reported disconnect unregisters by key; the socket it comes from, closed or
\* not, is registered under no other.
LEMMA DisconnectKeeps ==
    ASSUME SocketInv, NEW s \in Socket, socket[s] # Closed, NEW kind, NEW after,
           after \in {socket, [socket EXCEPT ![s] = Closed]},
           OnDisconnect(socket[s].process, socket[s].connection, kind, after)
    PROVE  SocketInv'
  <1> DEFINE p == socket[s].process
             k == socket[s].connection
  <1> USE ConnectionAssumption
  <1>0. p \in Process /\ k \in Connection
    BY DEF SocketInv, SocketsOwned
  <1>1. CASE Dies(p)
    BY <1>0, <1>1, DeathKeeps
  <1>2. CASE /\ socket' = after
             /\ UNCHANGED <<pc, todo, current>>
             /\ \/ recovering' = recovering
                \/ recovering' = [recovering EXCEPT ![p] = @ \cup {k}]
             /\ \/ active[p][k] = NoSocket /\ active' = active
                \/ active' = [active EXCEPT ![p][k] = NoSocket]
    <2>1. MemoryOK'
      <3>0. Closed \in SocketType
        BY DEF SocketType, Closed
      <3>1. after \in [Socket -> SocketType]
        BY <3>0 DEF SocketInv, MemoryOK
      <3>2. active' \in [Process -> [Connection -> Socket \cup {NoSocket}]]
        <4>1. [active[p] EXCEPT ![k] = NoSocket] \in [Connection -> Socket \cup {NoSocket}]
          BY <1>0 DEF SocketInv, MemoryOK
        <4> HIDE DEF p, k
        <4> QED
          BY <1>0, <1>2, <4>1 DEF SocketInv, MemoryOK
      <3>3. recovering' \in [Process -> SUBSET Connection]
        <4>1. recovering[p] \cup {k} \in SUBSET Connection
          BY <1>0 DEF SocketInv, MemoryOK
        <4> HIDE DEF p, k
        <4> QED
          BY <1>0, <1>2, <4>1 DEF SocketInv, MemoryOK
      <3> QED
        BY <1>2, <3>1, <3>2, <3>3 DEF SocketInv, MemoryOK
    <2>2. \A t \in Socket : socket'[t] = Closed \/ socket'[t] = socket[t]
      BY <1>2 DEF SocketInv, MemoryOK
    <2>3. \A t \in Socket : t # s => socket'[t] = socket[t]
      BY <1>2 DEF SocketInv, MemoryOK
    <2>4. SocketsOwned'
      BY <2>2 DEF SocketInv, SocketsOwned
    <2>5. RegisteredIsOpen'
      <3> SUFFICES ASSUME NEW q \in Process, NEW i \in Connection, active'[q][i] # NoSocket
                   PROVE  /\ socket'[active'[q][i]].process = q
                          /\ socket'[active'[q][i]].connection = i
        BY DEF RegisteredIsOpen, Registered
      <3>1. active'[q][i] = active[q][i] /\ ~(q = p /\ i = k)
        BY <1>0, <1>2 DEF SocketInv, MemoryOK
      <3>2. active[q][i] \in Socket /\ socket[active[q][i]].process = q
                                  /\ socket[active[q][i]].connection = i
        BY <3>1 DEF SocketInv, MemoryOK, RegisteredIsOpen, Registered
      <3>3. active[q][i] # s
        BY <3>1, <3>2
      <3> QED
        BY <2>3, <3>1, <3>2, <3>3
    <2>6. Serving'
      BY <1>2 DEF SocketInv, Serving
    <2> QED
      BY <2>1, <2>4, <2>5, <2>6 DEF SocketInv
  <1> QED
    BY <1>1, <1>2 DEF OnDisconnect, Unregistered

\* The renewal pass closes exactly the sockets it stops keeping.
LEMMA RenewKeeps ==
    ASSUME SocketInv, NEW p \in Process, Renew(p)
    PROVE  SocketInv'
  <1> USE ConnectionAssumption
  <1>1. MemoryOK'
    <2>1. socket' \in [Socket -> SocketType]
      BY DEF SocketInv, MemoryOK, Renew, SocketType, Closed
    <2>2. active' \in [Process -> [Connection -> Socket \cup {NoSocket}]]
      BY DEF SocketInv, MemoryOK, Renew
    <2>3. pc' \in [Process -> Phase]
      BY DEF SocketInv, MemoryOK, Renew, Phase
    <2> QED
      BY <2>1, <2>2, <2>3 DEF SocketInv, MemoryOK, Renew
  <1>2. SocketsOwned'
    BY DEF SocketInv, SocketsOwned, Renew
  <1>3. RegisteredIsOpen'
    <2> SUFFICES ASSUME NEW q \in Process, NEW k \in Connection, active'[q][k] # NoSocket
                 PROVE  /\ socket'[active'[q][k]].process = q
                        /\ socket'[active'[q][k]].connection = k
      BY DEF RegisteredIsOpen, Registered
    <2>1. active'[q][k] = active[q][k] /\ (q = p => Kept(p, k))
      BY DEF SocketInv, MemoryOK, Renew
    <2>2. active[q][k] \in Socket /\ socket[active[q][k]].process = q
                                /\ socket[active[q][k]].connection = k
      BY <2>1 DEF SocketInv, MemoryOK, RegisteredIsOpen, Registered
    <2>3. ~ \E i \in Connection : active[p][i] = active[q][k] /\ ~Kept(p, i)
      <3> SUFFICES ASSUME NEW i \in Connection, active[p][i] = active[q][k], ~Kept(p, i)
                   PROVE  FALSE
        OBVIOUS
      <3>1. active[p][i] # NoSocket
        BY <2>1
      <3>2. p = q /\ i = k
        BY <2>2, <3>1 DEF SocketInv, RegisteredIsOpen, Registered
      <3> QED
        BY <2>1, <3>2
    <2> QED
      BY <2>1, <2>2, <2>3 DEF Renew
  <1>4. Serving'
    BY DEF SocketInv, MemoryOK, Serving, Renew
  <1> QED
    BY <1>1, <1>2, <1>3, <1>4 DEF SocketInv

\* Marking a row ends its service and touches no socket.
LEMMA MarkTypes ==
    ASSUME SocketInv, NEW p \in Process, NEW r, Mark(p, r)
    PROVE  /\ recovering' \in [Process -> SUBSET Connection]
           /\ pc' \in [Process -> Phase]
           /\ todo' \in [Process -> SUBSET Connection]
           /\ current' \in [Process -> Connection \cup {NoConnection}]
           /\ Serving'
  <1>1. current' = [current EXCEPT ![p] = NoConnection] /\ recovering' = recovering
    BY DEF Mark
  <1>2. \/ pc' = [pc EXCEPT ![p] = "serving"] /\ todo' = todo
        \/ pc' = [pc EXCEPT ![p] = "idle"] /\ todo' = [todo EXCEPT ![p] = {}]
    BY DEF Mark
  <1>3. pc' \in [Process -> Phase] /\ pc'[p] \notin {"granting", "opening"}
    BY <1>2 DEF SocketInv, MemoryOK, Phase
  <1>4. \A q \in Process : q # p => pc'[q] = pc[q] /\ current'[q] = current[q]
    BY <1>1, <1>2 DEF SocketInv, MemoryOK
  <1>5. Serving'
    BY <1>3, <1>4 DEF SocketInv, Serving
  <1>6. todo' \in [Process -> SUBSET Connection]
    BY <1>2 DEF SocketInv, MemoryOK
  <1> QED
    BY <1>1, <1>3, <1>5, <1>6 DEF SocketInv, MemoryOK

\* A new socket takes the place of a closed one, so of no registered one.
LEMMA FreshKeeps ==
    ASSUME SocketInv, NEW p \in Process, current[p] \in Connection, Free # {},
           socket' = Fresh(p)
    PROVE  /\ socket' \in [Socket -> SocketType]
           /\ SocketsOwned'
           /\ NewSocket \in Socket
           /\ socket'[NewSocket].process = p
           /\ socket'[NewSocket].connection = current[p]
           /\ \A q \in Process, k \in Connection : active[q][k] # NoSocket =>
                 /\ socket'[active[q][k]].process = q
                 /\ socket'[active[q][k]].connection = k
  <1> USE ConnectionAssumption
  <1> DEFINE new == [process |-> p, connection |-> current[p], lapsed |-> FALSE]
  <1>1. NewSocket \in Socket /\ socket[NewSocket] = Closed
    BY DEF NewSocket, Free
  <1>2. new \in SocketType
    BY DEF SocketType
  <1>3. socket' = [socket EXCEPT ![NewSocket] = new]
    BY DEF Fresh
  <1>4. socket' \in [Socket -> SocketType] /\ socket'[NewSocket] = new
    BY <1>1, <1>2, <1>3 DEF SocketInv, MemoryOK
  <1>5. \A t \in Socket : t # NewSocket => socket'[t] = socket[t]
    BY <1>3 DEF SocketInv, MemoryOK
  <1>6. SocketsOwned'
    BY <1>4, <1>5 DEF SocketInv, SocketsOwned
  <1>7. ASSUME NEW q \in Process, NEW k \in Connection, active[q][k] # NoSocket
        PROVE  /\ socket'[active[q][k]].process = q
               /\ socket'[active[q][k]].connection = k
    <2>1. active[q][k] \in Socket /\ socket[active[q][k]].process = q
                                /\ socket[active[q][k]].connection = k
      BY <1>7 DEF SocketInv, MemoryOK, RegisteredIsOpen, Registered
    <2>2. active[q][k] # NewSocket
      BY <1>1, <2>1 DEF Closed
    <2> QED
      BY <1>5, <2>1, <2>2
  <1> QED
    BY <1>1, <1>4, <1>6, <1>7

\* Every step keeps sockets owned, and registered ones open.
LEMMA SocketSteps ==
    ASSUME SocketInv, [Next]_vars
    PROVE  SocketInv'
  <1> USE ConnectionAssumption
  <1>a. ASSUME UNCHANGED <<socket, active, recovering, pc, todo, current>>
        PROVE  SocketInv'
    <2>1. MemoryOK'
      BY <1>a DEF SocketInv, MemoryOK
    <2>2. RegisteredIsOpen' /\ SocketsOwned' /\ Serving'
      BY <1>a DEF SocketInv, RegisteredIsOpen, Registered, SocketsOwned, Serving
    <2> QED
      BY <2>1, <2>2 DEF SocketInv
  <1>b. ASSUME UNCHANGED <<socket, active>>,
               recovering' \in [Process -> SUBSET Connection],
               pc' \in [Process -> Phase],
               todo' \in [Process -> SUBSET Connection],
               current' \in [Process -> Connection \cup {NoConnection}],
               Serving'
        PROVE  SocketInv'
    <2>1. RegisteredIsOpen' /\ SocketsOwned'
      BY <1>b DEF SocketInv, RegisteredIsOpen, Registered, SocketsOwned
    <2>2. MemoryOK'
      BY <1>b DEF SocketInv, MemoryOK
    <2> QED
      BY <1>b, <2>1, <2>2 DEF SocketInv
  <1>1. CASE UNCHANGED vars
    BY <1>1, <1>a DEF vars
  <1>2. ASSUME NEW k \in Connection, LeaseExpires(k) \/ BackoffElapses(k)
        PROVE  SocketInv'
    BY <1>2, <1>a DEF LeaseExpires, BackoffElapses
  <1>3. ASSUME NEW p \in Process, Start(p)
        PROVE  SocketInv'
    <2>1. pc' \in [Process -> Phase] /\ Serving'
      BY <1>3 DEF SocketInv, MemoryOK, Serving, Start, Phase
    <2> QED
      BY <1>3, <1>b, <2>1 DEF SocketInv, MemoryOK, Start
  <1>4. ASSUME NEW p \in Process, Crash(p) \/ Stop(p)
        PROVE  SocketInv'
    BY <1>4, DeathKeeps DEF Crash, Stop
  <1>5. ASSUME NEW p \in Process, NEW k \in Connection, NEW desired \in BOOLEAN,
               Configure(p, k, desired)
        PROVE  SocketInv'
    BY <1>5, <1>a DEF Configure
  <1>6. ASSUME NEW p \in Process, NEW k \in Connection, Recovered(p, k)
        PROVE  SocketInv'
    <2>1. CASE Dies(p)
      BY <2>1, DeathKeeps
    <2>2. CASE /\ recovering' = [recovering EXCEPT ![p] = @ \ {k}]
               /\ UNCHANGED <<socket, active, pc, todo, current>>
      <3>1. recovering' \in [Process -> SUBSET Connection]
        BY <2>2 DEF SocketInv, MemoryOK
      <3>2. Serving'
        BY <2>2 DEF SocketInv, Serving
      <3> QED
        BY <2>2, <3>1, <3>2, <1>b DEF SocketInv, MemoryOK
    <2> QED
      BY <1>6, <2>1, <2>2 DEF Recovered
  <1>7. ASSUME NEW p \in Process, Renew(p)
        PROVE  SocketInv'
    BY <1>7, RenewKeeps
  <1>8. ASSUME NEW p \in Process, ClaimDue(p)
        PROVE  SocketInv'
    <2>1. pc' \in [Process -> Phase] /\ Serving'
      BY <1>8 DEF SocketInv, MemoryOK, Serving, ClaimDue, Phase
    <2>2. todo' \in [Process -> SUBSET Connection]
      BY <1>8 DEF SocketInv, MemoryOK, ClaimDue
    <2> QED
      BY <1>8, <1>b, <2>1, <2>2 DEF SocketInv, MemoryOK, ClaimDue
  <1>9. ASSUME NEW p \in Process, Serve(p)
        PROVE  SocketInv'
    <2>1. CASE pc' = [pc EXCEPT ![p] = "idle"] /\ UNCHANGED <<todo, current>>
      <3>1. pc' \in [Process -> Phase] /\ Serving'
        BY <2>1 DEF SocketInv, MemoryOK, Serving, Phase
      <3> QED
        BY <1>9, <2>1, <3>1, <1>b DEF SocketInv, MemoryOK, Serve
    <2>2. ASSUME NEW k \in todo[p], todo' = [todo EXCEPT ![p] = @ \ {k}],
                 \/ UNCHANGED <<pc, current>>
                 \/ /\ pc' = [pc EXCEPT ![p] = "granting"]
                    /\ current' = [current EXCEPT ![p] = k]
          PROVE  SocketInv'
      <3>1. k \in Connection /\ todo' \in [Process -> SUBSET Connection]
        BY <2>2 DEF SocketInv, MemoryOK
      <3>2. /\ pc' \in [Process -> Phase]
            /\ current' \in [Process -> Connection \cup {NoConnection}]
        <4>1. /\ pc \in [Process -> Phase]
              /\ current \in [Process -> Connection \cup {NoConnection}]
              /\ "granting" \in Phase
              /\ k \in Connection \cup {NoConnection}
          BY <3>1 DEF SocketInv, MemoryOK, Phase
        <4>2. CASE UNCHANGED <<pc, current>>
          BY <4>1, <4>2
        <4>3. CASE /\ pc' = [pc EXCEPT ![p] = "granting"]
                   /\ current' = [current EXCEPT ![p] = k]
          BY <4>1, <4>3
        <4> QED
          BY <2>2, <4>2, <4>3
      <3>3. Serving'
        BY <2>2, <3>1 DEF SocketInv, MemoryOK, Serving
      <3> QED
        BY <1>9, <3>1, <3>2, <3>3, <1>b DEF SocketInv, MemoryOK, Serve
    <2> QED
      BY <1>9, <2>1, <2>2 DEF Serve
  <1>10. ASSUME NEW p \in Process, NEW r, Mark(p, r), UNCHANGED <<socket, active>>
         PROVE  SocketInv'
    BY <1>10, <1>b, MarkTypes
  <1>11. ASSUME NEW p \in Process, GrantAnswered(p)
         PROVE  SocketInv'
    <2>1. CASE /\ pc' = [pc EXCEPT ![p] = "opening"]
               /\ UNCHANGED <<recovering, todo, current>>
      <3>1. pc' \in [Process -> Phase] /\ Serving'
        BY <1>11, <2>1 DEF SocketInv, MemoryOK, Serving, Phase, GrantAnswered
      <3> QED
        BY <1>11, <2>1, <3>1, <1>b DEF SocketInv, MemoryOK, GrantAnswered
    <2> QED
      BY <1>11, <2>1, <1>10 DEF GrantAnswered
  <1>12. ASSUME NEW p \in Process, Opened(p)
         PROVE  SocketInv'
    <2> DEFINE k == current[p]
    <2>1. k \in Connection
      BY <1>12 DEF SocketInv, Serving, Opened
    <2>2. /\ socket' \in [Socket -> SocketType]
          /\ SocketsOwned'
          /\ NewSocket \in Socket
          /\ socket'[NewSocket].process = p
          /\ socket'[NewSocket].connection = k
          /\ \A q \in Process, i \in Connection : active[q][i] # NoSocket =>
                /\ socket'[active[q][i]].process = q
                /\ socket'[active[q][i]].connection = i
      BY <1>12, <2>1, FreshKeeps DEF Opened
    <2>3. active' = [active EXCEPT ![p][k] = NewSocket]
      BY <1>12 DEF Opened
    <2>4. /\ recovering' \in [Process -> SUBSET Connection]
          /\ pc' \in [Process -> Phase]
          /\ todo' \in [Process -> SUBSET Connection]
          /\ current' \in [Process -> Connection \cup {NoConnection}]
          /\ Serving'
      BY <1>12, MarkTypes DEF Opened
    <2> HIDE DEF k
    <2>5. active' \in [Process -> [Connection -> Socket \cup {NoSocket}]]
      <3>1. [active[p] EXCEPT ![k] = NewSocket] \in [Connection -> Socket \cup {NoSocket}]
        BY <2>1, <2>2 DEF SocketInv, MemoryOK
      <3> QED
        BY <2>3, <3>1 DEF SocketInv, MemoryOK
    <2>6. RegisteredIsOpen'
      <3> SUFFICES ASSUME NEW q \in Process, NEW i \in Connection, active'[q][i] # NoSocket
                   PROVE  /\ socket'[active'[q][i]].process = q
                          /\ socket'[active'[q][i]].connection = i
        BY DEF RegisteredIsOpen, Registered
      <3>1. \/ active'[q][i] = active[q][i]
            \/ q = p /\ i = k /\ active'[q][i] = NewSocket
        BY <2>1, <2>3 DEF SocketInv, MemoryOK
      <3> QED
        BY <2>2, <3>1
    <2> QED
      BY <2>2, <2>4, <2>5, <2>6 DEF SocketInv, MemoryOK
  <1>13. ASSUME NEW p \in Process, OpenFails(p)
         PROVE  SocketInv'
    <2>1. CASE UNCHANGED socket
      BY <1>13, <2>1, <1>10 DEF OpenFails
    <2>2. CASE Free # {} /\ socket' = Fresh(p)
      <3>1. current[p] \in Connection
        BY <1>13 DEF SocketInv, Serving, OpenFails
      <3>2. /\ socket' \in [Socket -> SocketType]
            /\ SocketsOwned'
            /\ \A q \in Process, i \in Connection : active[q][i] # NoSocket =>
                  /\ socket'[active[q][i]].process = q
                  /\ socket'[active[q][i]].connection = i
        BY <2>2, <3>1, FreshKeeps
      <3>3. active' = active
        BY <1>13 DEF OpenFails
      <3>4. RegisteredIsOpen'
        BY <3>2, <3>3 DEF RegisteredIsOpen, Registered
      <3>5. /\ recovering' \in [Process -> SUBSET Connection]
            /\ pc' \in [Process -> Phase]
            /\ todo' \in [Process -> SUBSET Connection]
            /\ current' \in [Process -> Connection \cup {NoConnection}]
            /\ Serving'
        BY <1>13, MarkTypes DEF OpenFails
      <3> QED
        BY <3>2, <3>3, <3>4, <3>5 DEF SocketInv, MemoryOK
    <2> QED
      BY <1>13, <2>1, <2>2 DEF OpenFails
  <1>14. ASSUME NEW s \in Socket, SocketCloses(s) \/ ReconnectRequested(s)
         PROVE  SocketInv'
    <2>1. CASE ReconnectRequested(s)
      BY <2>1, DisconnectKeeps DEF ReconnectRequested
    <2>2. CASE SocketCloses(s)
      BY <2>2, DisconnectKeeps DEF SocketCloses
    <2> QED
      BY <1>14, <2>1, <2>2
  <1>15. ASSUME NEW s \in Socket, MessageAfterLeaseLoss(s)
         PROVE  SocketInv'
    <2>1. socket[s].process \in Process
      BY <1>15 DEF SocketInv, SocketsOwned, MessageAfterLeaseLoss
    <2> QED
      BY <1>15, <2>1, DeathKeeps DEF MessageAfterLeaseLoss
  <1>16. ASSUME NEW s \in Socket, GrantExpires(s)
         PROVE  SocketInv'
    <2> DEFINE lapsed == [socket[s] EXCEPT !.lapsed = TRUE]
    <2>0. socket[s] \in SocketType
      BY DEF SocketInv, MemoryOK
    <2>1. /\ lapsed \in SocketType
          /\ lapsed.process = socket[s].process
          /\ lapsed.connection = socket[s].connection
      BY <2>0 DEF SocketType
    <2>2. socket' = [socket EXCEPT ![s] = lapsed]
      BY <1>16 DEF GrantExpires
    <2> HIDE DEF lapsed
    <2>3. \A t \in Socket : /\ socket'[t].process = socket[t].process
                            /\ socket'[t].connection = socket[t].connection
                            /\ t # s => socket'[t] = socket[t]
      BY <2>1, <2>2 DEF SocketInv, MemoryOK
    <2>4. MemoryOK'
      <3>1. socket \in [Socket -> SocketType]
        BY DEF SocketInv, MemoryOK
      <3>2. socket' \in [Socket -> SocketType]
        BY <2>1, <2>2, <3>1
      <3> QED
        BY <1>16, <3>2 DEF GrantExpires, SocketInv, MemoryOK
    <2>5. SocketsOwned'
      <3>1. socket[s] # Closed
        BY <1>16 DEF GrantExpires
      <3> QED
        BY <2>3, <3>1 DEF SocketInv, SocketsOwned
    <2>6. RegisteredIsOpen'
      <3> SUFFICES ASSUME NEW q \in Process, NEW k \in Connection, active[q][k] # NoSocket
                   PROVE  /\ socket'[active[q][k]].process = q
                          /\ socket'[active[q][k]].connection = k
        BY <1>16 DEF GrantExpires, RegisteredIsOpen, Registered
      <3>1. active[q][k] \in Socket /\ socket[active[q][k]].process = q
                                  /\ socket[active[q][k]].connection = k
        BY DEF SocketInv, MemoryOK, RegisteredIsOpen, Registered
      <3> QED
        BY <2>3, <3>1
    <2>7. Serving'
      BY <1>16 DEF GrantExpires, SocketInv, Serving
    <2> QED
      BY <2>4, <2>5, <2>6, <2>7 DEF SocketInv
  <1> QED
    BY <1>1, <1>2, <1>3, <1>4, <1>5, <1>6, <1>7, <1>8, <1>9, <1>11, <1>12, <1>13,
       <1>14, <1>15, <1>16 DEF Next, Reconcile

-----------------------------------------------------------------------------
(* The invariant, and what follows from it. *)

LEMMA InitIInv == Init => IInv
  <1> USE ConnectionAssumption
  <1> SUFFICES ASSUME Init PROVE IInv
    OBVIOUS
  <1>1. TypeOK
    BY DEF Init, TypeOK, Row, State, Idle, SocketType, Closed, Phase
  <1>2. IdleRowsUnleased /\ RegisteredIsOpen /\ SocketsOwned /\ Serving
    BY DEF Init, IdleRowsUnleased, RegisteredIsOpen, Registered, SocketsOwned, Serving
  <1> QED
    BY <1>1, <1>2 DEF IInv

LEMMA NextIInv ==
    ASSUME IInv, [Next]_vars
    PROVE  IInv'
  <1>1. SocketInv'
    BY SocketSteps DEF SocketInv, MemoryOK, IInv, TypeOK
  <1>2. /\ row' = [k \in Connection |-> row'[k]]
        /\ \A k \in Connection : RowMoves(k)
    BY RowSteps
  <1>3. ASSUME NEW k \in Connection
        PROVE  row'[k] \in Row /\ (row'[k].state \in Idle => row'[k].owner = NoProcess)
    <2>1. row[k] \in Row /\ (row[k].state \in Idle => row[k].owner = NoProcess)
      BY DEF IInv, TypeOK, IdleRowsUnleased
    <2> QED
      BY <1>2, <2>1, RowKept
  <1>4. row' \in [Connection -> Row]
    BY <1>2, <1>3
  <1> QED
    BY <1>1, <1>3, <1>4 DEF SocketInv, MemoryOK, IInv, TypeOK, IdleRowsUnleased

\* The inductive invariant: types, unleased idle rows, registered sockets open,
\* open sockets owned, and awaited answers for a connection.
THEOREM Invariance == Spec => []IInv
  <1> QED
    BY InitIInv, NextIInv, PTL DEF Spec

\* Every variable keeps its type: in particular a failure, a release or a put
\* never writes a row the selection of due rows does not know.
THEOREM TypeCorrect == Spec => []TypeOK
  <1>1. IInv => TypeOK
    BY DEF IInv
  <1> QED
    BY <1>1, Invariance, PTL

\* A row that is not being connected is leased to nobody, in any number of
\* processes and through every put, recovery, crash and takeover.
THEOREM IdleUnleased == Spec => []IdleRowsUnleased
  <1>1. IInv => IdleRowsUnleased
    BY DEF IInv
  <1> QED
    BY <1>1, Invariance, PTL

\* A registered socket is open and its process's own, for that connection:
\* no stale close leaves a dead socket behind in the supervisor's map.
THEOREM RegisteredOpen == Spec => []RegisteredIsOpen
  <1>1. IInv => RegisteredIsOpen
    BY DEF IInv
  <1> QED
    BY <1>1, Invariance, PTL

\* Only a new put ends a pause for reauthorization: the late answers of
\* recoveries and grants, and other processes' claims, never do.
THEOREM ReauthorizationPaused == Spec => ReauthorizationPauses
  <1> DEFINE Paused == \A k \in Connection : row[k].state = "reauthorization-required" =>
          \/ row'[k].state = "reauthorization-required"
          \/ row'[k] \in {Put(row[k], TRUE), Put(row[k], FALSE)}
  <1>1. ASSUME IInv, [Next]_vars PROVE [Paused]_vars
    <2> SUFFICES ASSUME NEW k \in Connection, row[k].state = "reauthorization-required"
                 PROVE  \/ row'[k].state = "reauthorization-required"
                        \/ row'[k] \in {Put(row[k], TRUE), Put(row[k], FALSE)}
      OBVIOUS
    <2>1. row[k] \in Row /\ (row[k].state \in Idle => row[k].owner = NoProcess)
      BY <1>1 DEF IInv, TypeOK, IdleRowsUnleased
    <2>2. RowMoves(k)
      BY <1>1, RowSteps
    <2> QED
      BY <2>1, <2>2, RowKept
  <1> QED
    BY <1>1, Invariance, PTL DEF Spec, ReauthorizationPauses

-----------------------------------------------------------------------------
(* Which sockets escape the supervisor. *)

\* The supervisor's map knows every open socket.
AllRegistered ==
    \A s \in Socket : socket[s] # Closed =>
        active[socket[s].process][socket[s].connection] = s

\* The connection a process is opening has no socket yet.
ServedApart ==
    \A p \in Process : pc[p] \in {"granting", "opening"} => active[p][current[p]] = NoSocket

\* The two ways a driver leaves a socket open that it reports as gone: a reconnect
\* that Discord asks for, and a handshake that times out.
Abandons ==
    \/ \E s \in Socket : ReconnectRequested(s)
    \/ \E p \in Process : OpenFails(p) /\ socket' # socket

\* A step that opens nothing, and unregisters only what it closes, loses no socket.
LEMMA NothingEscapes ==
    ASSUME SocketInv, AllRegistered,
           \A s \in Socket : socket'[s] # Closed =>
               /\ socket[s] # Closed
               /\ socket'[s].process = socket[s].process
               /\ socket'[s].connection = socket[s].connection
               /\ active'[socket[s].process][socket[s].connection]
                    = active[socket[s].process][socket[s].connection]
    PROVE  AllRegistered'
  BY DEF AllRegistered

LEMMA DeathRegistered ==
    ASSUME SocketInv, AllRegistered, ServedApart, NEW p \in Process, Dies(p)
    PROVE  AllRegistered' /\ ServedApart'
  <1>1. \A q \in Process : q # p =>
          active'[q] = active[q] /\ pc'[q] = pc[q] /\ current'[q] = current[q]
    BY DEF Dies, SocketInv, MemoryOK
  <1>2. pc'[p] = "down"
    BY DEF Dies, SocketInv, MemoryOK
  <1>3. \A s \in Socket : socket'[s] # Closed =>
          socket'[s] = socket[s] /\ socket[s].process # p /\ socket[s].process \in Process
    BY DEF Dies, SocketInv, SocketsOwned
  <1>4. AllRegistered'
    BY <1>1, <1>3, NothingEscapes
  <1> QED
    BY <1>1, <1>2, <1>4 DEF ServedApart

LEMMA CloseRegistered ==
    ASSUME SocketInv, AllRegistered, ServedApart, NEW s \in Socket, SocketCloses(s)
    PROVE  AllRegistered' /\ ServedApart'
  <1> DEFINE p == socket[s].process
             k == socket[s].connection
  <1>1. /\ p \in Process /\ k \in Connection /\ socket[s] # Closed /\ active[p][k] = s
        /\ s # NoSocket
    BY DEF SocketCloses, SocketInv, SocketsOwned, AllRegistered, Socket, NoSocket
  <1>2. CASE Dies(p)
    BY <1>1, <1>2, DeathRegistered
  <1>3. CASE /\ active' = [active EXCEPT ![p][k] = NoSocket]
             /\ socket' = [socket EXCEPT ![s] = Closed] /\ UNCHANGED <<pc, current>>
    <2>1. \A t \in Socket : socket'[t] # Closed => t # s /\ socket'[t] = socket[t]
      BY <1>3 DEF SocketInv, MemoryOK
    <2>2. \A q \in Process, j \in Connection :
            active'[q][j] = IF q = p /\ j = k THEN NoSocket ELSE active[q][j]
      BY <1>1, <1>3 DEF SocketInv, MemoryOK
    <2>3. \A t \in Socket : socket'[t] # Closed =>
            /\ socket[t].process \in Process /\ socket[t].connection \in Connection
            /\ active[socket[t].process][socket[t].connection] = t
      BY <2>1 DEF SocketInv, SocketsOwned, AllRegistered
    <2>4. AllRegistered'
      <3> HIDE DEF p, k
      <3> QED
        BY <1>1, <2>1, <2>2, <2>3, NothingEscapes
    <2>5. ServedApart'
      BY <1>3, <2>2 DEF ServedApart, SocketInv, Serving
    <2> QED
      BY <2>4, <2>5
  <1> QED
    BY <1>1, <1>2, <1>3 DEF SocketCloses, OnDisconnect, Unregistered

LEMMA RenewRegistered ==
    ASSUME SocketInv, AllRegistered, ServedApart, NEW p \in Process, Renew(p)
    PROVE  AllRegistered' /\ ServedApart'
  <1>1. \A q \in Process, k \in Connection :
          active'[q][k] = IF q = p /\ ~(Registered(p, k) /\ Kept(p, k)) THEN NoSocket
                          ELSE active[q][k]
    BY DEF Renew, SocketInv, MemoryOK
  <1>2. ASSUME NEW s \in Socket, socket'[s] # Closed
        PROVE  /\ socket'[s] = socket[s] /\ socket[s].process \in Process
               /\ socket[s].connection \in Connection
               /\ active'[socket[s].process][socket[s].connection]
                    = active[socket[s].process][socket[s].connection]
    <2>1. socket'[s] = socket[s] /\ \A k \in Connection : active[p][k] = s => Kept(p, k)
      BY <1>2 DEF Renew
    <2>2. socket[s].process \in Process /\ socket[s].connection \in Connection
      BY <1>2, <2>1 DEF SocketInv, SocketsOwned
    <2>3. active[socket[s].process][socket[s].connection] = s /\ s # NoSocket
      BY <1>2, <2>1 DEF AllRegistered, Socket, NoSocket
    <2> QED
      BY <1>1, <2>1, <2>2, <2>3 DEF Registered
  <1>3. AllRegistered'
    BY <1>2, NothingEscapes
  <1>4. /\ pc'[p] = "claiming" /\ current' = current
        /\ \A q \in Process : q # p => pc'[q] = pc[q]
    BY DEF Renew, SocketInv, MemoryOK
  <1>5. ServedApart'
    BY <1>1, <1>4 DEF ServedApart, SocketInv, Serving
  <1> QED
    BY <1>3, <1>5

LEMMA OpenRegistered ==
    ASSUME SocketInv, AllRegistered, ServedApart, NEW p \in Process, Opened(p)
    PROVE  AllRegistered' /\ ServedApart'
  <1> DEFINE k == current[p]
             n == NewSocket
             new == [process |-> p, connection |-> k, lapsed |-> FALSE]
  <1>1. k \in Connection /\ active[p][k] = NoSocket
    BY DEF Opened, SocketInv, Serving, ServedApart
  <1>2. n \in Socket
    BY DEF Opened, NewSocket, Free
  <1>3. socket' = [socket EXCEPT ![n] = new] /\ active' = [active EXCEPT ![p][k] = n]
    BY DEF Opened, Fresh
  <1>4. new.process = p /\ new.connection = k
    OBVIOUS
  <1>5. /\ pc'[p] \notin {"granting", "opening"}
        /\ \A q \in Process : q # p => pc'[q] = pc[q] /\ current'[q] = current[q]
    BY DEF Opened, Mark, SocketInv, MemoryOK
  <1> HIDE DEF k, n, new
  <1>6. /\ \A q \in Process, j \in Connection :
             active'[q][j] = IF q = p /\ j = k THEN n ELSE active[q][j]
        /\ socket'[n] = new /\ \A s \in Socket : s # n => socket'[s] = socket[s]
    BY <1>1, <1>2, <1>3 DEF SocketInv, MemoryOK
  <1>7. ASSUME NEW s \in Socket, socket'[s] # Closed
        PROVE  active'[socket'[s].process][socket'[s].connection] = s
    <2>1. CASE s = n
      BY <1>1, <1>4, <1>6, <2>1
    <2>2. CASE s # n
      <3>1. /\ socket'[s] = socket[s] /\ socket[s].process \in Process
            /\ socket[s].connection \in Connection
            /\ active[socket[s].process][socket[s].connection] = s /\ s # NoSocket
        BY <1>6, <1>7, <2>2 DEF SocketInv, SocketsOwned, AllRegistered, Socket, NoSocket
      <3> QED
        BY <1>1, <1>6, <3>1
    <2> QED
      BY <2>1, <2>2
  <1>8. ServedApart'
    BY <1>5, <1>6 DEF ServedApart, SocketInv, Serving
  <1> QED
    BY <1>7, <1>8 DEF AllRegistered

LEMMA RegisteredStep ==
    ASSUME SocketInv, AllRegistered, ServedApart, [Next]_vars, ~Abandons
    PROVE  AllRegistered' /\ ServedApart'
  <1>a. ASSUME UNCHANGED <<socket, active>>, ServedApart'
        PROVE  AllRegistered' /\ ServedApart'
    BY <1>a DEF AllRegistered
  <1>b. ASSUME UNCHANGED <<socket, active, pc, current>>
        PROVE  AllRegistered' /\ ServedApart'
    BY <1>b DEF AllRegistered, ServedApart
  <1>c. ASSUME NEW p \in Process, NEW r, Mark(p, r), UNCHANGED <<socket, active>>
        PROVE  AllRegistered' /\ ServedApart'
    <2>1. /\ pc'[p] \notin {"granting", "opening"}
          /\ \A q \in Process : q # p => pc'[q] = pc[q] /\ current'[q] = current[q]
      BY <1>c DEF Mark, SocketInv, MemoryOK
    <2> QED
      BY <1>a, <1>c, <2>1 DEF ServedApart
  <1>1. CASE UNCHANGED vars
    BY <1>1, <1>b DEF vars
  <1>2. ASSUME NEW k \in Connection, LeaseExpires(k) \/ BackoffElapses(k)
        PROVE  AllRegistered' /\ ServedApart'
    BY <1>2, <1>b DEF LeaseExpires, BackoffElapses
  <1>3. ASSUME NEW p \in Process, Start(p) \/ ClaimDue(p)
        PROVE  AllRegistered' /\ ServedApart'
    <2>1. /\ pc'[p] \notin {"granting", "opening"} /\ UNCHANGED <<socket, active, current>>
          /\ \A q \in Process : q # p => pc'[q] = pc[q]
      BY <1>3 DEF Start, ClaimDue, SocketInv, MemoryOK
    <2> QED
      BY <1>a, <2>1 DEF ServedApart
  <1>4. ASSUME NEW p \in Process, Crash(p) \/ Stop(p)
        PROVE  AllRegistered' /\ ServedApart'
    BY <1>4, DeathRegistered DEF Crash, Stop
  <1>5. ASSUME NEW p \in Process, NEW k \in Connection, NEW desired \in BOOLEAN,
               Configure(p, k, desired)
        PROVE  AllRegistered' /\ ServedApart'
    BY <1>5, <1>b DEF Configure
  <1>6. ASSUME NEW p \in Process, NEW k \in Connection, Recovered(p, k)
        PROVE  AllRegistered' /\ ServedApart'
    BY <1>6, <1>b, DeathRegistered DEF Recovered
  <1>7. ASSUME NEW p \in Process, Serve(p)
        PROVE  AllRegistered' /\ ServedApart'
    <2>1. CASE pc' = [pc EXCEPT ![p] = "idle"] /\ UNCHANGED <<socket, active, current>>
      <3>1. pc'[p] = "idle" /\ \A q \in Process : q # p => pc'[q] = pc[q]
        BY <2>1 DEF SocketInv, MemoryOK
      <3> QED
        BY <1>a, <2>1, <3>1 DEF ServedApart
    <2>2. ASSUME NEW k \in todo[p], ~Registered(p, k), pc' = [pc EXCEPT ![p] = "granting"],
                 current' = [current EXCEPT ![p] = k], UNCHANGED <<socket, active>>
          PROVE  AllRegistered' /\ ServedApart'
      <3>1. /\ current'[p] = k /\ active[p][k] = NoSocket
            /\ \A q \in Process : q # p => pc'[q] = pc[q] /\ current'[q] = current[q]
        BY <2>2 DEF SocketInv, MemoryOK, Registered
      <3> QED
        BY <1>a, <2>2, <3>1 DEF ServedApart
    <2> QED
      BY <1>7, <1>b, <2>1, <2>2 DEF Serve
  <1>8. ASSUME NEW p \in Process, GrantAnswered(p)
        PROVE  AllRegistered' /\ ServedApart'
    <2>1. CASE pc' = [pc EXCEPT ![p] = "opening"] /\ UNCHANGED current
      <3>1. ServedApart'
        BY <1>8, <2>1 DEF ServedApart, GrantAnswered, SocketInv, MemoryOK
      <3> QED
        BY <1>8, <1>a, <3>1 DEF GrantAnswered
    <2> QED
      BY <1>8, <1>c, <2>1 DEF GrantAnswered
  <1>9. ASSUME NEW p \in Process, OpenFails(p)
        PROVE  AllRegistered' /\ ServedApart'
    BY <1>9, <1>c DEF OpenFails, Abandons
  <1>10. ASSUME NEW s \in Socket, MessageAfterLeaseLoss(s)
         PROVE  AllRegistered' /\ ServedApart'
    <2>1. socket[s].process \in Process
      BY <1>10 DEF SocketInv, SocketsOwned, MessageAfterLeaseLoss
    <2> QED
      BY <1>10, <2>1, DeathRegistered DEF MessageAfterLeaseLoss
  <1>11. ASSUME NEW s \in Socket, GrantExpires(s)
         PROVE  AllRegistered' /\ ServedApart'
    <2>1. /\ socket[s] \in SocketType /\ socket[s] # Closed
          /\ UNCHANGED <<active, pc, current>>
          /\ socket' = [socket EXCEPT ![s].lapsed = TRUE]
      BY <1>11 DEF GrantExpires, SocketInv, MemoryOK
    <2>2. \A t \in Socket : socket'[t] # Closed =>
            /\ socket[t] # Closed /\ socket'[t].process = socket[t].process
            /\ socket'[t].connection = socket[t].connection
      BY <2>1 DEF SocketInv, MemoryOK, SocketType
    <2>3. AllRegistered'
      BY <2>1, <2>2, NothingEscapes
    <2> QED
      BY <2>1, <2>3 DEF ServedApart
  <1> QED
    BY <1>1, <1>2, <1>3, <1>4, <1>5, <1>6, <1>7, <1>8, <1>9, <1>10, <1>11,
       RenewRegistered, OpenRegistered, CloseRegistered DEF Next, Reconcile, Abandons

\* Unless a reconnect is asked for or a handshake times out, the supervisor knows every
\* open socket, and bounds it by its grant: these two are the only ways to the
\* violation of GrantBoundsSocket.
THEOREM OnlyAbandonedEscape == Spec /\ [][~Abandons]_vars => []AllRegistered
  <1>1. Init => AllRegistered /\ ServedApart
    BY DEF Init, AllRegistered, ServedApart
  <1>2. IInv => SocketInv
    BY DEF IInv, SocketInv, TypeOK, MemoryOK
  <1>3. IInv /\ AllRegistered /\ ServedApart /\ [Next]_vars /\ [~Abandons]_vars
          => AllRegistered' /\ ServedApart'
    <2>1. ASSUME UNCHANGED vars, AllRegistered, ServedApart PROVE AllRegistered' /\ ServedApart'
      BY <2>1 DEF vars, AllRegistered, ServedApart
    <2> QED
      BY <1>2, <2>1, RegisteredStep
  <1> QED
    BY <1>1, <1>3, Invariance, PTL DEF Spec

=============================================================================
