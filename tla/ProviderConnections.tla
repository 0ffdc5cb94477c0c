------------------------- MODULE ProviderConnections -------------------------
(***************************************************************************)
(* The chat gateway's connection supervisor: gateway processes that share  *)
(* a table of desired provider connections (SQLite), lease its rows, ask   *)
(* SPMT for a grant, open one socket per row and keep it until its grant   *)
(* or its lease ends (apps/chat-gateway/src/connection-supervisor.ts, the  *)
(* provider drivers it opens, and the service loop that drives it).        *)
(*                                                                         *)
(* A process is one JavaScript thread: what it does between two awaits is  *)
(* one step here, and the sockets' events and the recoveries reach it only *)
(* while it awaits.  Each step of the renewal pass touches its own row, so *)
(* the pass is one step too.  The drivers' close is synchronous.           *)
(*                                                                         *)
(* Abstractions.  Time is asynchronous: an unexpired lease, grant or       *)
(* backoff may run out at any moment.  A row never written is a stopped    *)
(* one.  claimDue's limit of 25 rows is larger than the instances, every   *)
(* provider has its driver (here those that hold a socket: Twitch, Discord *)
(* and Kick; YouTube's polls), and recoveries of one connection in flight  *)
(* at once count as one.                                                   *)
(***************************************************************************)
EXTENDS Naturals

CONSTANTS
    Connection,   \* provider connections
    Discord,      \* those of the driver that can be told to reconnect
    Configured,   \* those each process puts when it starts
    Process,      \* gateway processes; each has its own workerId
    MaxSockets,   \* bound: sockets open at once
    NoProcess, NoConnection

ASSUME ConnectionAssumption ==
    /\ Discord \subseteq Connection
    /\ Configured \subseteq Connection
    /\ MaxSockets \in Nat
    /\ NoProcess \notin Process
    /\ NoConnection \notin Connection

VARIABLES
    row,        \* the provider_connections table
    socket,     \* sockets, with the process and the connection they belong to
    active,     \* each supervisor's map from connection to registered socket
    recovering, \* recoverAuthentication calls in flight
    pc,         \* where each process is in its reconcile loop
    todo,       \* rows this reconcile has claimed and not served yet
    current     \* the row being served across an await

vars == <<row, socket, active, recovering, pc, todo, current>>

Socket == 1..MaxSockets
NoSocket == 0

Idle == {"pending", "backoff", "reauthorization-required", "stopped"}
State == Idle \cup {"connecting", "connected"}

Row == [desired: BOOLEAN, state: State, waiting: BOOLEAN,
        owner: Process \cup {NoProcess}, expired: BOOLEAN]

\* A socket: closed ones belong to nobody; lapsed is true once its grant expired.
SocketType == [process: Process \cup {NoProcess},
               connection: Connection \cup {NoConnection}, lapsed: BOOLEAN]
Closed == [process |-> NoProcess, connection |-> NoConnection, lapsed |-> FALSE]

Phase == {"down", "idle", "claiming", "serving", "granting", "opening"}

TypeOK ==
    /\ row \in [Connection -> Row]
    /\ socket \in [Socket -> SocketType]
    /\ active \in [Process -> [Connection -> Socket \cup {NoSocket}]]
    /\ recovering \in [Process -> SUBSET Connection]
    /\ pc \in [Process -> Phase]
    /\ todo \in [Process -> SUBSET Connection]
    /\ current \in [Process -> Connection \cup {NoConnection}]

Init ==
    /\ row = [k \in Connection |-> [desired |-> FALSE, state |-> "stopped",
                 waiting |-> FALSE, owner |-> NoProcess, expired |-> FALSE]]
    /\ socket = [s \in Socket |-> Closed]
    /\ active = [p \in Process |-> [k \in Connection |-> NoSocket]]
    /\ recovering = [p \in Process |-> {}]
    /\ pc = [p \in Process |-> "down"]
    /\ todo = [p \in Process |-> {}]
    /\ current = [p \in Process |-> NoConnection]

-----------------------------------------------------------------------------
(* The rows: SqliteProviderConnectionStore. *)

Unleased(r) == [r EXCEPT !.owner = NoProcess, !.expired = FALSE]

\* put: a connected row stays connected, and whoever held its lease loses it.
Put(r, desired) ==
    Unleased([r EXCEPT !.desired = desired, !.waiting = FALSE,
        !.state = IF ~desired THEN "stopped"
                  ELSE IF r.state = "connected" THEN "connected" ELSE "pending"])

\* As if only rows nobody ever leased were due.
DueUnleased(k) ==
    /\ row[k].desired /\ ~row[k].waiting
    /\ row[k].state \in {"pending", "backoff", "connecting", "connected"}
    /\ row[k].owner = NoProcess

\* As if a row waiting for a new authorization were due like any other.
DueRegardless(k) ==
    /\ row[k].desired /\ ~row[k].waiting
    /\ row[k].owner = NoProcess \/ row[k].expired

\* claimDue's selection.
Due(k) ==
    /\ row[k].desired /\ ~row[k].waiting
    /\ row[k].state \in {"pending", "backoff", "connecting", "connected"}
    /\ row[k].owner = NoProcess \/ row[k].expired

\* claimDue's update of a due row.
Claimed(r, p) == [r EXCEPT !.state = "connecting", !.owner = p, !.expired = FALSE]

\* markConnected
Connected(r) == [r EXCEPT !.state = "connected", !.waiting = FALSE, !.expired = FALSE]

\* As if the failure kept the lease until it expires.
BackoffLeased(r) == [r EXCEPT !.state = "backoff", !.waiting = TRUE]

\* As if the failure stored the driver's own word for it.
BackoffUnnamed(r) == Unleased([r EXCEPT !.state = "disconnected", !.waiting = TRUE])

\* markFailure
Backoff(r) == Unleased([r EXCEPT !.state = "backoff", !.waiting = TRUE])

\* markReauthorizationRequired
Reauthorize(r) == Unleased([r EXCEPT !.state = "reauthorization-required"])

\* release: only the owner's row changes.
Released(r, p) ==
    IF r.owner # p THEN r
    ELSE Unleased([r EXCEPT !.state = IF r.desired THEN "pending" ELSE "stopped",
                            !.waiting = FALSE])

LeaseExpires(k) ==
    /\ row[k].owner # NoProcess /\ ~row[k].expired
    /\ row' = [row EXCEPT ![k].expired = TRUE]
    /\ UNCHANGED <<socket, active, recovering, pc, todo, current>>

BackoffElapses(k) ==
    /\ row[k].waiting
    /\ row' = [row EXCEPT ![k].waiting = FALSE]
    /\ UNCHANGED <<socket, active, recovering, pc, todo, current>>

-----------------------------------------------------------------------------
(* Processes: service-start, and the discovery that rewrites rows. *)

\* The sockets and the memory of a process go with it; its rows do not.
Dies(p) ==
    /\ pc' = [pc EXCEPT ![p] = "down"]
    /\ socket' = [s \in Socket |-> IF socket[s].process = p THEN Closed ELSE socket[s]]
    /\ active' = [active EXCEPT ![p] = [k \in Connection |-> NoSocket]]
    /\ recovering' = [recovering EXCEPT ![p] = {}]
    /\ todo' = [todo EXCEPT ![p] = {}]
    /\ current' = [current EXCEPT ![p] = NoConnection]

Start(p) ==
    /\ pc[p] = "down"
    /\ pc' = [pc EXCEPT ![p] = "idle"]
    /\ row' = [k \in Connection |->
                  IF k \in Configured THEN Put(row[k], TRUE) ELSE row[k]]
    /\ UNCHANGED <<socket, active, recovering, todo, current>>

Crash(p) ==
    /\ pc[p] # "down"
    /\ Dies(p)
    /\ UNCHANGED row

\* stop: registered sockets are closed and their rows released.
Stop(p) ==
    /\ pc[p] = "idle"
    /\ row' = [k \in Connection |->
                  IF active[p][k] # NoSocket THEN Released(row[k], p) ELSE row[k]]
    /\ Dies(p)

\* applyDiscoveredConnection, onLiveChannels: between two reconciles.
Configure(p, k, desired) ==
    /\ pc[p] = "idle"
    /\ row' = [row EXCEPT ![k] = Put(@, desired)]
    /\ UNCHANGED <<socket, active, recovering, pc, todo, current>>

-----------------------------------------------------------------------------
(* Sockets' events. *)

Awaiting(p) == pc[p] \in {"idle", "granting", "opening"}

\* As if an authentication failure kept the socket registered meanwhile.
UnregisteredIfTransport(p, k, kind) ==
    IF kind = "transport" THEN [active EXCEPT ![p][k] = NoSocket] ELSE active

Unregistered(p, k, kind) == [active EXCEPT ![p][k] = NoSocket]

\* onDisconnect looks its connection up by key, not by socket.  A store call
\* that throws inside a listener is an uncaught exception: the process ends.
OnDisconnect(p, k, kind, after) ==
    \/ /\ active[p][k] = NoSocket
       /\ socket' = after
       /\ UNCHANGED <<row, active, recovering, pc, todo, current>>
    \/ /\ active[p][k] # NoSocket
       /\ kind = "authentication"
       /\ recovering' = [recovering EXCEPT ![p] = @ \cup {k}]
       /\ active' = Unregistered(p, k, kind)
       /\ socket' = after
       /\ UNCHANGED <<row, pc, todo, current>>
    \/ /\ active[p][k] # NoSocket
       /\ kind = "transport"
       /\ row[k].owner = p
       /\ row' = [row EXCEPT ![k] = Backoff(@)]
       /\ active' = Unregistered(p, k, kind)
       /\ socket' = after
       /\ UNCHANGED <<recovering, pc, todo, current>>
    \/ /\ active[p][k] # NoSocket
       /\ kind = "transport"
       /\ row[k].owner # p
       /\ Dies(p)
       /\ UNCHANGED row

\* The provider closes the socket.
SocketCloses(s) ==
    LET p == socket[s].process
    IN  /\ socket[s] # Closed
        /\ Awaiting(p)
        /\ \E kind \in {"transport", "authentication"} :
              OnDisconnect(p, socket[s].connection, kind, [socket EXCEPT ![s] = Closed])

\* Discord asks for a reconnect, or invalidates the session: the driver
\* reports a disconnect and leaves the socket open.
ReconnectRequested(s) ==
    LET p == socket[s].process
    IN  /\ socket[s] # Closed
        /\ socket[s].connection \in Discord
        /\ Awaiting(p)
        /\ OnDisconnect(p, socket[s].connection, "transport", socket)

\* A message saves its cursor; the lease is gone, so the listener throws.
MessageAfterLeaseLoss(s) ==
    LET p == socket[s].process
    IN  /\ socket[s] # Closed
        /\ Awaiting(p)
        /\ row[socket[s].connection].owner # p
        /\ Dies(p)
        /\ UNCHANGED row

GrantExpires(s) ==
    /\ socket[s] # Closed /\ ~socket[s].lapsed
    /\ socket' = [socket EXCEPT ![s].lapsed = TRUE]
    /\ UNCHANGED <<row, active, recovering, pc, todo, current>>

-----------------------------------------------------------------------------
(* recoverAuthentication's answer, whenever it comes. *)

Recovered(p, k) ==
    /\ Awaiting(p)
    /\ k \in recovering[p]
    /\ \/ /\ row' = [row EXCEPT ![k] = Released(@, p)]
          /\ recovering' = [recovering EXCEPT ![p] = @ \ {k}]
          /\ UNCHANGED <<socket, active, pc, todo, current>>
       \/ /\ row[k].owner = p
          /\ \/ row' = [row EXCEPT ![k] = Reauthorize(@)]
             \/ row' = [row EXCEPT ![k] = Backoff(@)]
          /\ recovering' = [recovering EXCEPT ![p] = @ \ {k}]
          /\ UNCHANGED <<socket, active, pc, todo, current>>
       \/ /\ row[k].owner # p
          /\ Dies(p)
          /\ UNCHANGED row

-----------------------------------------------------------------------------
(* reconcile. *)

Registered(p, k) == active[p][k] # NoSocket
Lapsed(p, k) == socket[active[p][k]].lapsed

\* As if only the lease decided.
KeptWhateverGrant(p, k) == row[k].owner = p /\ row[k].desired

\* As if only the grant decided.
KeptWhateverLease(p, k) == ~Lapsed(p, k)

\* renew succeeds, expired lease or not, as long as the row is still mine.
Kept(p, k) == ~Lapsed(p, k) /\ row[k].owner = p /\ row[k].desired

\* The pass over the registered sockets.
Renew(p) ==
    /\ pc[p] = "idle"
    /\ row' = [k \in Connection |->
          IF ~Registered(p, k) THEN row[k]
          ELSE IF Kept(p, k) THEN [row[k] EXCEPT !.expired = FALSE]
          ELSE IF Lapsed(p, k) THEN Released(row[k], p) ELSE row[k]]
    /\ active' = [active EXCEPT ![p] =
          [k \in Connection |-> IF Registered(p, k) /\ Kept(p, k) THEN @[k] ELSE NoSocket]]
    /\ socket' = [s \in Socket |->
          IF \E k \in Connection : active[p][k] = s /\ ~Kept(p, k)
          THEN Closed ELSE socket[s]]
    /\ pc' = [pc EXCEPT ![p] = "claiming"]
    /\ UNCHANGED <<recovering, todo, current>>

ClaimDue(p) ==
    /\ pc[p] = "claiming"
    /\ row' = [k \in Connection |->
          IF Due(k) THEN Claimed(row[k], p) ELSE row[k]]
    /\ todo' = [todo EXCEPT ![p] = {k \in Connection : Due(k)}]
    /\ pc' = [pc EXCEPT ![p] = "serving"]
    /\ UNCHANGED <<socket, active, recovering, current>>

Serve(p) ==
    /\ pc[p] = "serving"
    /\ \/ /\ todo[p] = {}
          /\ pc' = [pc EXCEPT ![p] = "idle"]
          /\ UNCHANGED <<todo, current>>
       \/ \E k \in todo[p] :
             /\ todo' = [todo EXCEPT ![p] = @ \ {k}]
             /\ IF Registered(p, k) THEN UNCHANGED <<pc, current>>
                ELSE /\ pc' = [pc EXCEPT ![p] = "granting"]
                     /\ current' = [current EXCEPT ![p] = k]
    /\ UNCHANGED <<row, socket, active, recovering>>

\* What ends the service of the current row: it is marked while the lease is
\* held; otherwise the store throws and the rest of the pass is abandoned.
Mark(p, marked) ==
    LET k == current[p]
    IN  /\ \/ /\ row[k].owner = p
              /\ row' = [row EXCEPT ![k] = marked]
              /\ pc' = [pc EXCEPT ![p] = "serving"]
              /\ UNCHANGED todo
           \/ /\ row[k].owner # p
              /\ pc' = [pc EXCEPT ![p] = "idle"]
              /\ todo' = [todo EXCEPT ![p] = {}]
              /\ UNCHANGED row
        /\ current' = [current EXCEPT ![p] = NoConnection]
        /\ UNCHANGED recovering

\* getGrant answers.
GrantAnswered(p) ==
    /\ pc[p] = "granting"
    /\ \/ /\ pc' = [pc EXCEPT ![p] = "opening"]
          /\ UNCHANGED <<row, recovering, todo, current>>
       \/ Mark(p, Backoff(row[current[p]]))
       \/ Mark(p, Reauthorize(row[current[p]]))
    /\ UNCHANGED <<socket, active>>

Free == {s \in Socket : socket[s] = Closed}

\* Sockets are interchangeable.
NewSocket == CHOOSE s \in Free : TRUE

Fresh(p) == [socket EXCEPT ![NewSocket] =
                [process |-> p, connection |-> current[p], lapsed |-> FALSE]]

\* The driver's open resolves: the socket is registered before it is marked.
Opened(p) ==
    /\ pc[p] = "opening"
    /\ Free # {}
    /\ socket' = Fresh(p)
    /\ active' = [active EXCEPT ![p][current[p]] = NewSocket]
    /\ Mark(p, Connected(row[current[p]]))

\* open rejects; a handshake that timed out leaves its socket open.
OpenFails(p) ==
    /\ pc[p] = "opening"
    /\ Mark(p, Backoff(row[current[p]]))
    /\ \/ UNCHANGED socket
       \/ Free # {} /\ socket' = Fresh(p)
    /\ UNCHANGED active

-----------------------------------------------------------------------------
Reconcile(p) == Renew(p) \/ ClaimDue(p) \/ Serve(p) \/ GrantAnswered(p)
                \/ Opened(p) \/ OpenFails(p)

Next ==
    \/ \E k \in Connection : LeaseExpires(k) \/ BackoffElapses(k)
    \/ \E p \in Process :
          \/ Start(p) \/ Crash(p) \/ Stop(p)
          \/ \E k \in Connection, desired \in BOOLEAN : Configure(p, k, desired)
          \/ \E k \in Connection : Recovered(p, k)
          \/ Reconcile(p)
    \/ \E s \in Socket : \/ SocketCloses(s) \/ ReconnectRequested(s)
                         \/ MessageAfterLeaseLoss(s) \/ GrantExpires(s)

Spec == Init /\ [][Next]_vars

(* Leases and backoffs run out, and the loop of a process that is up goes  *)
(* on, every call it awaits being bounded by a timeout.  That a process    *)
(* which ended is started again is not assumed.                            *)
Fairness ==
    /\ \A k \in Connection : WF_vars(LeaseExpires(k)) /\ WF_vars(BackoffElapses(k))
    /\ \A p \in Process : WF_vars(Reconcile(p))

FairSpec == Spec /\ Fairness

-----------------------------------------------------------------------------
(* Properties. *)

\* A row that is not being connected is nobody's: no late answer, recovery or
\* disconnect can write it until it is claimed again.
IdleRowsUnleased ==
    \A k \in Connection : row[k].state \in Idle => row[k].owner = NoProcess

\* A supervisor never keeps a dead socket, or another connection's, registered:
\* such a row would look connected for ever.
RegisteredIsOpen ==
    \A p \in Process, k \in Connection : Registered(p, k) =>
        /\ socket[active[p][k]].process = p
        /\ socket[active[p][k]].connection = k

\* Reconnection stays paused from an authentication failure until the row is
\* put again, whatever answers late or restarts.
ReauthorizationPauses ==
    [][\A k \in Connection : row[k].state = "reauthorization-required" =>
          \/ row'[k].state = "reauthorization-required"
          \/ row'[k] \in {Put(row[k], TRUE), Put(row[k], FALSE)}]_vars

Attempted(k) ==
    \E p \in Process : Registered(p, k) \/ k \in todo[p] \/ current[p] = k

Unwanted(k) == ~row[k].desired \/ row[k].state = "reauthorization-required"

\* Once one of the processes stays up, a desired connection is open or tried again and
\* again, whatever becomes of the others: no lost lease, aborted pass or late recovery
\* strands it.
DesiredIsRetried ==
    \A p \in Process :
        <>[](pc[p] # "down") => \A k \in Connection : []<>(Unwanted(k) \/ Attempted(k))

\* A registered socket whose row was rewritten or taken over is given up.
SupersededIsGivenUp ==
    \A p \in Process, k \in Connection :
        (Registered(p, k) /\ row[k].owner # p) ~> (~Registered(p, k) \/ row[k].owner = p)

\* A registered socket does not outlive its grant.
GrantBoundsRegistered ==
    \A p \in Process, k \in Connection :
        (Registered(p, k) /\ Lapsed(p, k)) ~> ~(Registered(p, k) /\ Lapsed(p, k))

\* No socket outlives its grant: "an established connection cannot continue
\* indefinitely on an expired authorization".
GrantBoundsSocket ==
    \A s \in Socket : socket[s].lapsed ~> ~socket[s].lapsed

\* What the provider does never takes the gateway process down.
ProviderNeverKills ==
    [][\A s \in Socket : (SocketCloses(s) \/ ReconnectRequested(s) \/ MessageAfterLeaseLoss(s))
          => pc' = pc]_vars

=============================================================================
