---------------------------- MODULE ExecutionJobs ----------------------------
(***************************************************************************)
(* Leased, fenced, metered execution jobs: packages/execution-core (the    *)
(* job service), the usage metering it calls in packages/monetization, and *)
(* the worker program of apps/stellar-core that claims and finishes jobs.  *)
(*                                                                         *)
(* The service is one Node process over a SQLite file: every operation is  *)
(* synchronous, so it is one step, except create, whose insertion and      *)
(* metering are two transactions over two connections between which the    *)
(* process can die (pendingBill names the job in between).  Workers are    *)
(* other processes: each call of theirs may be lost, refused, or applied   *)
(* with its reply lost.                                                    *)
(*                                                                         *)
(* Abstractions.  Job ids number the jobs in listing order (createdAt,     *)
(* id).  A lease is named by its job and the fencing epoch its claim       *)
(* stamped (the code also draws a random leaseId per claim).  Time is      *)
(* asynchronous: an unexpired lease may expire at any moment, and a        *)
(* heartbeat renews one that has not.  A result is named by the fencing    *)
(* epoch of the attempt that computed it, and is 0 where there is none or  *)
(* where retention has put metadata in its place.                          *)
(***************************************************************************)
EXTENDS Naturals, FiniteSets, FiniteSetsExt

CONSTANTS
    Tenant,         \* tenants
    Account,        \* (billed user, period, resource, metering target)
    Key,            \* (ownerAppId, requestedById, idempotencyKey)
    Lane,           \* (executionOwner, executionTarget)
    Capability,     \* capability ids
    Request,        \* create requests, records over the sets above
    Worker,         \* worker processes
    WorkerId,       \* workerId values; two processes may share one
    Profile,        \* Profile[w]: the identity and scope worker w polls with
    MaxJobs,        \* bound: job ids ever issued
    MaxAttempts,    \* maximumAttempts, 3 by default
    ScanLimit,      \* jobs requeueExpired reads, 500
    CandidateLimit, \* queued jobs claim reads, 200
    Limit,          \* Limit[a]: the plan's allowance, or NoLimit
    NoLimit,
    NoRequest, NoOwner, NoLease

JobId == 1..MaxJobs
NoId == 0
RequestType == [tenant: Tenant, key: Key, account: Account, lane: Lane,
                capability: Capability, quantity: Nat \ {0}]
ProfileType == [id: WorkerId, lane: Lane, capabilities: SUBSET Capability,
                tenants: SUBSET Tenant]

ASSUME BoundsAssumption ==
    /\ MaxJobs \in Nat
    /\ MaxAttempts \in Nat \ {0}
    /\ ScanLimit \in Nat
    /\ CandidateLimit \in Nat
ASSUME RequestAssumption == Request \subseteq RequestType
ASSUME ProfileAssumption == Profile \in [Worker -> ProfileType]
ASSUME LimitAssumption == \A a \in Account : Limit[a] # NoLimit => Limit[a] \in Nat
ASSUME NullAssumption ==
    /\ NoRequest \notin Request
    /\ NoOwner \notin WorkerId
    /\ NoLease \notin [job: JobId, fencingEpoch: Nat]

VARIABLES
    job,         \* the execution_jobs table
    issued,      \* job ids issued so far
    pendingBill, \* the job create has inserted and not metered yet, or NoId
    ledger,      \* the usage_events table
    pc,          \* where each worker process is in its run loop
    lease        \* the lease each worker process believes it holds

serviceVars == <<job, issued, pendingBill, ledger>>
vars == <<job, issued, pendingBill, ledger, pc, lease>>

Leased == {"leased", "running"}
Active == {"queued"} \cup Leased
Terminal == {"succeeded", "failed", "cancelled", "dead-letter"}
Stored == Active \cup Terminal

Job == [state: Stored \cup {"none", "deleted"},
        req: Request \cup {NoRequest},
        attempt: Nat, fencingEpoch: Nat,
        owner: WorkerId \cup {NoOwner}, expired: BOOLEAN,
        result: Nat, redacted: BOOLEAN]

NoJob == [state |-> "none", req |-> NoRequest, attempt |-> 0,
          fencingEpoch |-> 0, owner |-> NoOwner, expired |-> FALSE,
          result |-> 0, redacted |-> FALSE]

UsageEvent == [job: JobId, account: Account, quantity: Nat]
Phase == {"idle", "polling", "claimed", "prepared", "inferring", "retrying", "failing"}

TypeOK ==
    /\ job \in [JobId -> Job]
    /\ issued \in 0..MaxJobs
    /\ pendingBill \in JobId \cup {NoId}
    /\ ledger \subseteq UsageEvent
    /\ pc \in [Worker -> Phase]
    /\ lease \in [Worker -> [job: JobId, fencingEpoch: Nat] \cup {NoLease}]

Init ==
    /\ job = [j \in JobId |-> NoJob]
    /\ issued = 0
    /\ pendingBill = NoId
    /\ ledger = {}
    /\ pc = [w \in Worker |-> "idle"]
    /\ lease = [w \in Worker |-> NoLease]

-----------------------------------------------------------------------------
(* Metering: packages/monetization. *)

Used(a) == SumFunctionOnSet([e \in ledger |-> e.quantity], {e \in ledger : e.account = a})

\* As if the projected usage were compared with the allowance exclusively of
\* what this very event adds.
AllowedIgnoringRequest(r) ==
    Limit[r.account] # NoLimit => Used(r.account) <= Limit[r.account]

\* decide: the projected total stays within the plan's allowance.
Allowed(r) ==
    Limit[r.account] # NoLimit =>
        Used(r.account) + r.quantity <= Limit[r.account]

-----------------------------------------------------------------------------
(* Create: insertion, then metering. *)

SameKey(i, r) == job[i].req.tenant = r.tenant /\ job[i].req.key = r.key

\* As if a finished job freed its idempotency key.
ExistingActive(r) ==
    {i \in JobId : job[i].state \in Active /\ SameKey(i, r)}

\* findExecutionJobByIdempotency: whatever its state, a retained job owns its
\* key; the caller is answered with it (or refused, if the input differs).
Existing(r) == {i \in JobId : job[i].state \in Stored /\ SameKey(i, r)}

ServiceIdle == pendingBill = NoId

CreateInsert(r) ==
    /\ ServiceIdle
    /\ issued < MaxJobs
    /\ Existing(r) = {}
    /\ Allowed(r)
    /\ job' = [job EXCEPT ![issued + 1] =
                  [NoJob EXCEPT !.state = "queued", !.req = r]]
    /\ issued' = issued + 1
    /\ pendingBill' = issued + 1
    /\ UNCHANGED <<ledger, pc, lease>>

CreateConsume ==
    /\ ~ServiceIdle
    /\ LET r == job[pendingBill].req
       IN  /\ Allowed(r)
           /\ ledger' = ledger \cup {[job |-> pendingBill, account |-> r.account,
                                      quantity |-> r.quantity]}
    /\ pendingBill' = NoId
    /\ UNCHANGED <<job, issued, pc, lease>>

\* consume throws (the allowance, or the ledger's database): the job fails.
CreateRefused ==
    /\ ~ServiceIdle
    /\ job' = [job EXCEPT ![pendingBill].state = "failed"]
    /\ pendingBill' = NoId
    /\ UNCHANGED <<issued, ledger, pc, lease>>

\* The process dies between the two transactions; nothing repairs it later.
CreateCrash ==
    /\ ~ServiceIdle
    /\ pendingBill' = NoId
    /\ UNCHANGED <<job, issued, ledger, pc, lease>>

-----------------------------------------------------------------------------
(* Leases. *)

\* withoutLease
Unleased(r) == [r EXCEPT !.owner = NoOwner, !.expired = FALSE]

\* Time passes leaseExpiresAt.
LeaseExpires(j) ==
    /\ job[j].state \in Leased
    /\ ~job[j].expired
    /\ job' = [job EXCEPT ![j].expired = TRUE]
    /\ UNCHANGED <<issued, pendingBill, ledger, pc, lease>>

\* As if the fencing epoch and the lease id were not compared.
HoldsLeaseUnfenced(w) ==
    /\ lease[w] # NoLease
    /\ LET current == job[lease[w].job]
       IN  /\ current.state \in Leased
           /\ current.owner = Profile[w].id
           /\ ~current.expired

\* requireLease: the state, owner, lease and expiry all match.
HoldsLease(w) ==
    /\ lease[w] # NoLease
    /\ LET current == job[lease[w].job]
       IN  /\ current.state \in Leased
           /\ current.owner = Profile[w].id
           /\ current.fencingEpoch = lease[w].fencingEpoch
           /\ ~current.expired

-----------------------------------------------------------------------------
(* Claiming: claimAny walks the tenants, claim sweeps and takes one job. *)

InLane(j, t, k) ==
    job[j].state \in Stored /\ job[j].req.tenant = t /\ job[j].req.lane = k

\* requeueExpired reads the oldest ScanLimit retained jobs, finished or not.
Scanned(t, k) ==
    {j \in JobId : /\ InLane(j, t, k)
                   /\ Cardinality({i \in JobId : InLane(i, t, k) /\ i < j}) < ScanLimit}

Expired(j) == job[j].state \in Leased /\ job[j].expired

\* As if a lease that expires never counted against the attempts.
RequeuedForever(r) == Unleased([r EXCEPT !.state = "queued"])

Requeued(r) ==
    Unleased([r EXCEPT !.state =
        IF r.attempt >= MaxAttempts THEN "dead-letter" ELSE "queued"])

\* As if a live lease could be swept too.
SweptEager(ts, k) ==
    [j \in JobId |->
        IF job[j].state \in Leased /\ \E t \in ts : j \in Scanned(t, k)
        THEN Requeued(job[j]) ELSE job[j]]

\* As if only a job no heartbeat ever reached were swept.
SweptUnstarted(ts, k) ==
    [j \in JobId |->
        IF job[j].state = "leased" /\ Expired(j) /\ \E t \in ts : j \in Scanned(t, k)
        THEN Requeued(job[j]) ELSE job[j]]

\* The table after requeueExpired for each tenant of ts.
Swept(ts, k) ==
    [j \in JobId |->
        IF Expired(j) /\ \E t \in ts : j \in Scanned(t, k)
        THEN Requeued(job[j]) ELSE job[j]]

\* Tenants with an active job of the lane, among those the worker may serve.
ActiveTenants(w) ==
    {t \in Profile[w].tenants :
        \E j \in JobId : InLane(j, t, Profile[w].lane) /\ job[j].state \in Active}

\* Tenant order of claimAny: the oldest active job first.
OldestActive(t, k) ==
    Min({j \in JobId : InLane(j, t, k) /\ job[j].state \in Active})

\* The tenants claimAny tries before t.
Before(w, t) ==
    {u \in ActiveTenants(w) :
        OldestActive(u, Profile[w].lane) < OldestActive(t, Profile[w].lane)}

\* Queued jobs of tenant t after the sweep, the oldest CandidateLimit of them.
Candidates(w, t) ==
    LET table == Swept({t}, Profile[w].lane)
        queued == {j \in JobId : InLane(j, t, Profile[w].lane)
                                 /\ table[j].state = "queued"}
    IN  {j \in queued : /\ Cardinality({i \in queued : i < j}) < CandidateLimit
                        /\ job[j].req.capability \in Profile[w].capabilities}

\* claimAny's answer: the first tenant with a candidate, its oldest one.
Offered(w) ==
    {j \in JobId :
        LET t == job[j].req.tenant
        IN  /\ job[j].state \in Active
            /\ t \in ActiveTenants(w)
            /\ j \in Candidates(w, t)
            /\ \A i \in Candidates(w, t) : j <= i
            /\ \A u \in Before(w, t) : Candidates(w, u) = {}}

\* As if the claim did not advance the fencing epoch.
GrantedUnfenced(r, w) ==
    [r EXCEPT !.state = "leased", !.attempt = @ + 1,
              !.owner = Profile[w].id, !.expired = FALSE]

\* As if the lease recorded the worker process, not its workerId.
GrantedToProcess(r, w) ==
    [r EXCEPT !.state = "leased", !.attempt = @ + 1, !.fencingEpoch = @ + 1,
              !.owner = w, !.expired = FALSE]

Granted(r, w) ==
    [r EXCEPT !.state = "leased", !.attempt = @ + 1, !.fencingEpoch = @ + 1,
              !.owner = Profile[w].id, !.expired = FALSE]

Goto(w, phase) == pc' = [pc EXCEPT ![w] = phase] /\ UNCHANGED lease
Finish(w) == /\ pc' = [pc EXCEPT ![w] = "idle"]
             /\ lease' = [lease EXCEPT ![w] = NoLease]

\* runOnce asks the inference provider first.  While it answers unhealthy the
\* worker polls nothing, and changes nothing.
CheckHealth(w) ==
    /\ pc[w] = "idle"
    /\ Goto(w, "polling")
    /\ UNCHANGED serviceVars

\* A job is claimed; if the reply is lost the worker process exits without it.
Claim(w) ==
    /\ ServiceIdle
    /\ pc[w] = "polling"
    /\ \E j \in Offered(w) :
          LET t == job[j].req.tenant
              table == Swept(Before(w, t) \cup {t}, Profile[w].lane)
          IN  /\ job' = [table EXCEPT ![j] = Granted(@, w)]
              /\ \/ /\ pc' = [pc EXCEPT ![w] = "claimed"]
                    /\ lease' = [lease EXCEPT ![w] =
                          [job |-> j, fencingEpoch |-> job'[j].fencingEpoch]]
                 \/ Finish(w)
    /\ UNCHANGED <<issued, pendingBill, ledger>>

\* Nothing to claim: the sweeps still happened.
ClaimNothing(w) ==
    /\ ServiceIdle
    /\ pc[w] = "polling"
    /\ Offered(w) = {}
    /\ job' = Swept(ActiveTenants(w), Profile[w].lane)
    /\ Finish(w)
    /\ UNCHANGED <<issued, pendingBill, ledger>>

\* One poll that reaches the service.
Poll(w) == Claim(w) \/ ClaimNothing(w)

-----------------------------------------------------------------------------
(* The worker program: StellarChatWorker.execute. *)

AfterHeartbeat == [claimed |-> "prepared", prepared |-> "inferring"]

\* A heartbeat is applied or not, and answered or not.  Whatever keeps the
\* worker from its next phase (a lost lease, a lost reply, a request it cannot
\* parse, context it cannot read) is reported as not retryable.
Heartbeat(w) ==
    /\ ServiceIdle
    /\ pc[w] \in DOMAIN AfterHeartbeat
    /\ \/ /\ HoldsLease(w)
          /\ job' = [job EXCEPT ![lease[w].job].state = "running"]
          /\ Goto(w, AfterHeartbeat[pc[w]]) \/ Goto(w, "failing")
       \/ Goto(w, "failing") /\ UNCHANGED job
    /\ UNCHANGED <<issued, pendingBill, ledger>>

\* The inference provider fails, retryably or not.
ProviderFails(w) ==
    /\ pc[w] = "inferring"
    /\ Goto(w, "retrying") \/ Goto(w, "failing")
    /\ UNCHANGED serviceVars

Succeed(w) ==
    /\ ServiceIdle
    /\ pc[w] = "inferring"
    /\ \/ /\ HoldsLease(w)
          /\ job' = [job EXCEPT ![lease[w].job] =
                Unleased([@ EXCEPT !.state = "succeeded",
                                   !.result = lease[w].fencingEpoch])]
          /\ Finish(w) \/ Goto(w, "failing")
       \/ Goto(w, "failing") /\ UNCHANGED job
    /\ UNCHANGED <<issued, pendingBill, ledger>>

\* As if a retryable failure always went back to the queue.
FailedStateNoCap(r, retryable) == IF retryable THEN "queued" ELSE "failed"

FailedState(r, retryable) ==
    IF ~retryable THEN "failed"
    ELSE IF r.attempt < MaxAttempts THEN "queued" ELSE "dead-letter"

\* The failure report; refused or lost, the worker's loop rejects and the
\* process is started again, so either way the lease is forgotten.
Fail(w) ==
    /\ ServiceIdle
    /\ pc[w] \in {"retrying", "failing"}
    /\ \/ /\ HoldsLease(w)
          /\ LET j == lease[w].job
                 state == FailedState(job[j], pc[w] = "retrying")
             IN  job' = [job EXCEPT ![j] = Unleased([@ EXCEPT !.state = state])]
       \/ UNCHANGED job
    /\ Finish(w)
    /\ UNCHANGED <<issued, pendingBill, ledger>>

\* The process ends, or a poll does not reach the service, which ends it.
WorkerCrash(w) ==
    /\ pc[w] # "idle"
    /\ Finish(w)
    /\ UNCHANGED serviceVars

-----------------------------------------------------------------------------
(* Cancellation, erasure and retention. *)

Cancel(j) ==
    /\ ServiceIdle
    /\ job[j].state \in Active
    /\ job' = [job EXCEPT ![j] = Unleased([@ EXCEPT !.state = "cancelled"])]
    /\ UNCHANGED <<issued, pendingBill, ledger, pc, lease>>

Deleted == [NoJob EXCEPT !.state = "deleted"]

\* deleteForUser: every job billed to the account, cancelled then deleted.
EraseAccount(a) ==
    /\ ServiceIdle
    /\ job' = [j \in JobId |->
                  IF job[j].state \in Stored /\ job[j].req.account = a
                  THEN Deleted ELSE job[j]]
    /\ UNCHANGED <<issued, pendingBill, ledger, pc, lease>>

\* redactPayloads: metadata takes the place of the input and of the result,
\* whether the job succeeded or not.
Minimised(r) == [r EXCEPT !.redacted = TRUE, !.result = 0]

\* The retention sweep: finished jobs old enough are deleted, younger ones
\* content-minimized.
RetentionSweep(old, ripe) ==
    /\ ServiceIdle
    /\ \A j \in old \cup ripe : job[j].state \in Terminal
    /\ job' = [j \in JobId |->
                  CASE j \in old -> Deleted
                    [] j \in ripe \ old -> Minimised(job[j])
                    [] OTHER -> job[j]]
    /\ UNCHANGED <<issued, pendingBill, ledger, pc, lease>>

-----------------------------------------------------------------------------
Next ==
    \/ \E r \in Request : CreateInsert(r)
    \/ CreateConsume \/ CreateRefused \/ CreateCrash
    \/ \E j \in JobId : LeaseExpires(j) \/ Cancel(j)
    \/ \E w \in Worker : \/ CheckHealth(w) \/ Claim(w) \/ ClaimNothing(w)
                         \/ Heartbeat(w) \/ ProviderFails(w)
                         \/ Succeed(w) \/ Fail(w) \/ WorkerCrash(w)
    \/ \E a \in Account : EraseAccount(a)
    \/ \E old, ripe \in SUBSET JobId : RetentionSweep(old, ripe)

Spec == Init /\ [][Next]_vars

(* Time passes, and the service finishes what it started.  Any single poll  *)
(* may be lost, but a poll made again and again in the end reaches the       *)
(* service.  Nothing is assumed of the provider, nor of what a worker does   *)
(* with the job it claimed.                                                 *)
Fairness ==
    /\ WF_vars(CreateConsume \/ CreateRefused)
    /\ \A j \in JobId : WF_vars(LeaseExpires(j))
    /\ \A w \in Worker : SF_vars(Poll(w))

FairSpec == Spec /\ Fairness

-----------------------------------------------------------------------------
(* Properties. *)

\* Attempts are budgeted: only a job with attempts left waits in the queue,
\* and only one that used them all is dead-lettered.
RetryBudget ==
    \A j \in JobId :
        /\ job[j].attempt <= MaxAttempts
        /\ job[j].state = "queued" => job[j].attempt < MaxAttempts
        /\ job[j].state = "dead-letter" => job[j].attempt = MaxAttempts

\* Fencing: at most one worker process at a time would pass requireLease for
\* a job, even when a restarted process shares the old one's workerId.
ExclusiveLease ==
    \A v, w \in Worker :
        (HoldsLease(v) /\ HoldsLease(w) /\ lease[v].job = lease[w].job) => v = w

\* A succeeded job carries the result of its last attempt until retention
\* minimizes it, and no other job ever carries a worker's result: what a
\* superseded worker computed never lands.
ResultIsLastAttempts ==
    \A j \in JobId :
        /\ job[j].result # 0 <=> job[j].state = "succeeded" /\ ~job[j].redacted
        /\ job[j].result # 0 => job[j].result = job[j].fencingEpoch

\* An idempotency key owns at most one retained job.
OneJobPerKey ==
    \A i, j \in JobId :
        (/\ job[i].state \in Stored /\ job[j].state \in Stored
         /\ job[i].req.tenant = job[j].req.tenant
         /\ job[i].req.key = job[j].req.key) => i = j

\* The recorded usage never exceeds the plan's allowance, across retries,
\* erasures, refusals and crashes.
WithinAllowance ==
    \A a \in Account : Limit[a] # NoLimit => Used(a) <= Limit[a]

\* A job the ledger refused is never attempted: every attempted job was
\* metered.  It fails when the process dies between the two transactions of
\* create.
AttemptedWasMetered ==
    \A j \in JobId : job[j].attempt > 0 => \E e \in ledger : e.job = j

\* A finished job keeps its state until it is deleted.  Its result changes
\* only when retention puts metadata in its place, which is never undone.
FinishedIsFinal ==
    [][\A j \in JobId : job[j].state \in Terminal =>
          \/ job'[j].state = "deleted"
          \/ /\ job'[j].state = job[j].state
             /\ job[j].redacted => job'[j].redacted
             /\ job'[j].result # job[j].result =>
                   job'[j].result = 0 /\ job'[j].redacted]_vars

\* A lease that has not expired goes back to the queue only when its own
\* holder reports a retryable failure.
LiveLeaseKept ==
    [][\A j \in JobId :
          (/\ job[j].state \in Leased /\ ~job[j].expired
           /\ job'[j].state = "queued" \/ job'[j].fencingEpoch > job[j].fencingEpoch) =>
          \E w \in Worker :
              HoldsLease(w) /\ lease[w].job = j /\ pc[w] = "retrying"]_vars

\* Worker w polls for jobs like j.
Serves(w, j) ==
    /\ job[j].req # NoRequest
    /\ job[j].req.tenant \in Profile[w].tenants
    /\ job[j].req.lane = Profile[w].lane
    /\ job[j].req.capability \in Profile[w].capabilities

\* The worker finds its provider healthy, and so goes on to poll, for ever.
KeepsPolling(w) == []<>(pc[w] = "polling")

\* Every accepted job that a worker keeps polling for is settled: whatever
\* workers crash, leases expire and replies are lost, it ends or is deleted.
\* Nothing settles a job while every such worker's provider stays unhealthy.
EveryJobSettles ==
    \A w \in Worker, j \in JobId :
        KeepsPolling(w) =>
            (job[j].state \in Active /\ Serves(w, j)) ~> (job[j].state \notin Active)

\* A lease that expired is taken back by a later poll of its lane.
ExpiredLeaseIsSwept ==
    \A w \in Worker, j \in JobId :
        KeepsPolling(w) => (Expired(j) /\ Serves(w, j)) ~> ~Expired(j)

=============================================================================
