------------------------- MODULE ExecutionJobsProofs -------------------------
(***************************************************************************)
(* Proofs about ExecutionJobs, for every set of tenants, requests and      *)
(* workers and every bound.                                                *)
(*                                                                         *)
(* The argument.  A step either inserts one job, or is one worker's        *)
(* failure report, or moves every row of the table by one of the moves     *)
(* that Change lists (StepMoves).  What depends on one row at a time       *)
(* (RowOK) is proved once per move.  Births says where the service's       *)
(* single thread stands between inserting a job and metering it, and       *)
(* Fenced relates the leases workers believe in to the epochs the table    *)
(* has stamped; together they are inductive.                               *)
(***************************************************************************)
EXTENDS ExecutionJobsContract, SumTheorems

\* Ids beyond the last issued are unused, and the job between insertion and
\* metering is queued and was never attempted.
Births ==
    /\ \A j \in JobId : j > issued => job[j] = NoJob
    /\ pendingBill \in 0..issued
    /\ ~ServiceIdle => /\ job[pendingBill].state = "queued"
                       /\ job[pendingBill].attempt = 0
                       /\ job[pendingBill].req \in Request

\* What one row of the table always satisfies.
RowOK(r) ==
    /\ r.attempt <= MaxAttempts
    /\ r.fencingEpoch = r.attempt
    /\ r.state = "queued" => r.attempt < MaxAttempts
    /\ r.state = "dead-letter" => r.attempt = MaxAttempts
    /\ r.state \in Leased => r.attempt > 0
    /\ r.redacted => r.state \in Terminal
    /\ (r.result # 0) <=> (r.state = "succeeded" /\ ~r.redacted)
    /\ r.result # 0 => r.result = r.fencingEpoch

\* A believed lease names a job that was issued; while that job is stored its
\* epoch was stamped by a claim, and no two workers believe in the same one.
Fenced ==
    \A w \in Worker : lease[w] # NoLease =>
        LET j == lease[w].job
        IN  /\ job[j].state # "none"
            /\ job[j].state \in Stored =>
                 /\ lease[w].fencingEpoch <= job[j].fencingEpoch
                 /\ \A v \in Worker :
                      (lease[v] # NoLease /\ lease[v] = lease[w]) => v = w

\* The inductive invariant.
IInv == /\ TypeOK
        /\ Births
        /\ \A j \in JobId : RowOK(job[j])
        /\ Fenced
        /\ OneJobPerKey

-----------------------------------------------------------------------------
(* The moves of a row. *)

Birth(s, q) == s = [NoJob EXCEPT !.state = "queued", !.req = q]

\* A claim of a queued row, or of one whose lease the same claim swept.
Taken(r, s, w) ==
    \/ r.state = "queued" /\ s = Granted(r, w)
    \/ /\ r.state \in Leased /\ r.expired /\ r.attempt < MaxAttempts
       /\ s = Granted(Requeued(r), w)

Settled(r, s) ==
    \/ r.state = "queued" /\ s = [r EXCEPT !.state = "failed"]
    \/ /\ r.state \in Leased
       /\ s = Unleased([r EXCEPT !.state = "succeeded", !.result = r.fencingEpoch])
    \/ r.state \in Active /\ s = Unleased([r EXCEPT !.state = "cancelled"])

Removed(r, s) ==
    \/ r.state \in Stored /\ s = Deleted
    \/ r.state \in Terminal /\ s = Minimised(r)

Kept(r, s) ==
    \/ s = r
    \/ r.state \in Leased /\ s = [r EXCEPT !.expired = TRUE]
    \/ r.state \in Leased /\ r.expired /\ s = Requeued(r)
    \/ r.state \in Leased /\ s = [r EXCEPT !.state = "running"]

\* What a step that neither inserts a job nor reports a failure may do to a row.
Change(r, s) ==
    Kept(r, s) \/ Settled(r, s) \/ Removed(r, s) \/ \E w \in Worker : Taken(r, s, w)

FailMove(r, s, retryable) ==
    /\ r.state \in Leased
    /\ s = Unleased([r EXCEPT !.state = FailedState(r, retryable)])

-----------------------------------------------------------------------------
(* Rows: types, budget, results. *)

LEMMA NullRows == NoJob \in Job /\ Deleted \in Job /\ RowOK(NoJob) /\ RowOK(Deleted)
  <1>1. NoJob \in Job /\ Deleted \in Job
    BY DEF NoJob, Deleted, Job, Stored, Active, Leased, Terminal
  <1>2. RowOK(NoJob) /\ RowOK(Deleted)
    BY BoundsAssumption DEF NoJob, Deleted, Leased, Terminal, RowOK
  <1> QED
    BY <1>1, <1>2

LEMMA BirthRow ==
  ASSUME NEW q \in Request, NEW s, Birth(s, q)
  PROVE  s \in Job /\ RowOK(s) /\ s.state = "queued" /\ s.req = q
  <1>1. s \in Job
    BY DEF Birth, NoJob, Job, Stored, Active, Leased, Terminal
  <1>2. RowOK(s)
    BY BoundsAssumption DEF Birth, NoJob, Leased, Terminal, RowOK
  <1>3. s.state = "queued" /\ s.req = q
    BY DEF Birth, NoJob
  <1> QED
    BY <1>1, <1>2, <1>3

\* requeueExpired: the row back in the queue, or dead-lettered.
LEMMA RequeuedRow ==
  ASSUME NEW r \in Job, RowOK(r), r.state \in Leased
  PROVE  /\ Requeued(r) \in Job
         /\ RowOK(Requeued(r))
         /\ Requeued(r).state \in {"queued", "dead-letter"}
         /\ Requeued(r).state = "queued" => r.attempt < MaxAttempts
         /\ Requeued(r).attempt = r.attempt
         /\ Requeued(r).fencingEpoch = r.fencingEpoch
         /\ Requeued(r).req = r.req
  <1> DEFINE s == Requeued(r)
  <1>1. s \in Job
    BY DEF Requeued, Unleased, Job, Stored, Active, Leased, Terminal
  <1>2. /\ s.state = IF r.attempt >= MaxAttempts THEN "dead-letter" ELSE "queued"
        /\ s.attempt = r.attempt /\ s.fencingEpoch = r.fencingEpoch
        /\ s.result = r.result /\ s.redacted = r.redacted /\ s.req = r.req
    BY DEF Requeued, Unleased, Job
  <1>3. r.attempt \in Nat /\ r.fencingEpoch \in Nat
    BY DEF Job
  <1> HIDE DEF s
  <1>4. s.state \in {"queued", "dead-letter"} /\ (s.state = "queued" => r.attempt < MaxAttempts)
    BY <1>2, <1>3, BoundsAssumption
  <1>5. RowOK(s)
    BY <1>2, <1>3, <1>4, BoundsAssumption DEF Leased, Terminal, RowOK
  <1> QED
    BY <1>1, <1>2, <1>4, <1>5 DEF s

LEMMA GrantedRow ==
  ASSUME NEW r \in Job, RowOK(r), r.state = "queued", NEW w \in Worker
  PROVE  /\ Granted(r, w) \in Job
         /\ RowOK(Granted(r, w))
         /\ Granted(r, w).state = "leased"
         /\ Granted(r, w).fencingEpoch = r.fencingEpoch + 1
         /\ Granted(r, w).req = r.req
  <1>1. Profile[w].id \in WorkerId
    BY ProfileAssumption DEF ProfileType
  <1> DEFINE s == Granted(r, w)
  <1>2. s \in Job
    <2> DEFINE m == [r EXCEPT !.attempt = r.attempt + 1]
               n == [m EXCEPT !.fencingEpoch = r.fencingEpoch + 1]
    <2>1. m \in Job /\ r.fencingEpoch + 1 \in Nat
      BY DEF Job
    <2>2. n \in Job
      <3> HIDE DEF m
      <3> QED
        BY <2>1 DEF Job
    <2>3. s = [n EXCEPT !.state = "leased", !.owner = Profile[w].id, !.expired = FALSE]
      BY DEF Granted, Job
    <2> HIDE DEF s, m, n
    <2> QED
      BY <1>1, <2>2, <2>3 DEF Job, Stored, Active, Leased, Terminal
  <1>3. /\ s.state = "leased" /\ s.attempt = r.attempt + 1
        /\ s.fencingEpoch = r.fencingEpoch + 1
        /\ s.result = r.result /\ s.redacted = r.redacted /\ s.req = r.req
    BY DEF Granted, Job
  <1>4. r.attempt \in Nat /\ r.fencingEpoch \in Nat
    BY DEF Job
  <1> HIDE DEF s
  <1>5. RowOK(s)
    BY <1>3, <1>4, BoundsAssumption DEF Leased, Terminal, RowOK
  <1> QED
    BY <1>2, <1>3, <1>5 DEF s

LEMMA FailRow ==
  ASSUME NEW r \in Job, RowOK(r), NEW s, NEW b \in BOOLEAN, FailMove(r, s, b)
  PROVE  /\ s \in Job
         /\ RowOK(s)
         /\ s.state \in {"failed", "queued", "dead-letter"}
         /\ s.state = "queued" => b
         /\ s.fencingEpoch = r.fencingEpoch
         /\ s.req = r.req
  <1>1. s \in Job
    BY DEF FailMove, FailedState, Unleased, Job, Stored, Active, Leased, Terminal
  <1>2. /\ s.state = FailedState(r, b) /\ s.attempt = r.attempt
        /\ s.fencingEpoch = r.fencingEpoch /\ s.result = r.result
        /\ s.redacted = r.redacted /\ s.req = r.req /\ r.state \in Leased
    BY DEF FailMove, Unleased, Job
  <1>3. r.attempt \in Nat /\ r.fencingEpoch \in Nat
    BY DEF Job
  <1>4. /\ s.state \in {"failed", "queued", "dead-letter"}
        /\ s.state = "queued" => b /\ r.attempt < MaxAttempts
        /\ s.state = "dead-letter" => r.attempt >= MaxAttempts
    BY <1>2, <1>3, BoundsAssumption DEF FailedState
  <1>5. RowOK(s)
    BY <1>2, <1>3, <1>4, BoundsAssumption DEF Leased, Terminal, RowOK
  <1> QED
    BY <1>1, <1>2, <1>4, <1>5

LEMMA KeptRow ==
  ASSUME NEW r \in Job, RowOK(r), NEW s, Kept(r, s)
  PROVE  /\ s \in Job /\ RowOK(s)
         /\ s.fencingEpoch = r.fencingEpoch /\ s.req = r.req
         /\ s.result = r.result /\ s.redacted = r.redacted
         /\ (s.state \in Stored) <=> (r.state \in Stored)
         /\ r.state \notin Leased => s.state = r.state
         /\ s.state = "none" => r.state = "none"
         /\ r.state = "none" => s = r
  <1>1. CASE s = r
    BY <1>1
  <1>2. CASE r.state \in Leased /\ s = [r EXCEPT !.expired = TRUE]
    BY <1>2 DEF Job, Stored, Active, Leased, Terminal, RowOK
  <1>3. CASE r.state \in Leased /\ r.expired /\ s = Requeued(r)
    <2>1. Requeued(r).result = r.result /\ Requeued(r).redacted = r.redacted
      BY DEF Requeued, Unleased, Job
    <2> QED
      BY <1>3, <2>1, RequeuedRow DEF Stored, Active, Leased, Terminal
  <1>4. CASE r.state \in Leased /\ s = [r EXCEPT !.state = "running"]
    BY <1>4 DEF Job, Stored, Active, Leased, Terminal, RowOK
  <1> QED
    BY <1>1, <1>2, <1>3, <1>4 DEF Kept

LEMMA SettledRow ==
  ASSUME NEW r \in Job, RowOK(r), NEW s, Settled(r, s)
  PROVE  /\ s \in Job /\ RowOK(s)
         /\ s.fencingEpoch = r.fencingEpoch /\ s.req = r.req
         /\ r.state \in Active /\ s.state \in {"failed", "succeeded", "cancelled"}
  <1>1. CASE r.state = "queued" /\ s = [r EXCEPT !.state = "failed"]
    BY <1>1 DEF Job, Stored, Active, Leased, Terminal, RowOK
  <1>2. CASE /\ r.state \in Leased
             /\ s = Unleased([r EXCEPT !.state = "succeeded",
                                       !.result = r.fencingEpoch])
    <2>1. s \in Job
      BY <1>2 DEF Unleased, Job, Stored, Active, Leased, Terminal
    <2>2. /\ s.state = "succeeded" /\ s.attempt = r.attempt
          /\ s.fencingEpoch = r.fencingEpoch /\ s.result = r.fencingEpoch
          /\ s.redacted = r.redacted /\ s.req = r.req /\ r.attempt \in Nat
      BY <1>2 DEF Unleased, Job
    <2>3. RowOK(s)
      BY <1>2, <2>2 DEF Leased, Terminal, RowOK
    <2> QED
      BY <1>2, <2>1, <2>2, <2>3 DEF Active
  <1>3. CASE r.state \in Active /\ s = Unleased([r EXCEPT !.state = "cancelled"])
    BY <1>3 DEF Unleased, Job, Stored, Active, Leased, Terminal, RowOK
  <1> QED
    BY <1>1, <1>2, <1>3 DEF Settled

LEMMA RemovedRow ==
  ASSUME NEW r \in Job, RowOK(r), NEW s, Removed(r, s)
  PROVE  /\ s \in Job /\ RowOK(s)
         /\ r.state \in Stored
         /\ \/ s.state = "deleted"
            \/ /\ s.state = r.state /\ s.redacted /\ s.result = 0
               /\ s.fencingEpoch = r.fencingEpoch /\ s.req = r.req
  <1>1. CASE r.state \in Stored /\ s = Deleted
    <2>1. Deleted.state = "deleted"
      BY DEF Deleted, NoJob
    <2>2. s \in Job /\ RowOK(s) /\ s.state = "deleted" /\ r.state \in Stored
      BY <1>1, <2>1, NullRows
    <2> QED
      BY <2>2
  <1>2. CASE r.state \in Terminal /\ s = Minimised(r)
    BY <1>2 DEF Minimised, Job, Stored, Active, Leased, Terminal, RowOK
  <1> QED
    BY <1>1, <1>2 DEF Removed

LEMMA TakenRow ==
  ASSUME NEW r \in Job, RowOK(r), NEW s, NEW w \in Worker, Taken(r, s, w)
  PROVE  /\ s \in Job /\ RowOK(s)
         /\ r.state \in Active /\ s.state = "leased"
         /\ s.fencingEpoch = r.fencingEpoch + 1 /\ s.req = r.req
         /\ r.state = "queued" \/ r.expired
  <1>1. CASE r.state = "queued" /\ s = Granted(r, w)
    BY <1>1, GrantedRow DEF Active
  <1>2. CASE /\ r.state \in Leased /\ r.expired /\ r.attempt < MaxAttempts
             /\ s = Granted(Requeued(r), w)
    <2>1. Requeued(r).state = "queued"
      BY <1>2, BoundsAssumption DEF Requeued, Unleased, Job
    <2> QED
      BY <1>2, <2>1, RequeuedRow, GrantedRow DEF Active
  <1> QED
    BY <1>1, <1>2 DEF Taken

\* What every step but an insertion does to a row.
Evolves(r, s) ==
    /\ s.state \in Stored => /\ r.state \in Stored
                             /\ s.req = r.req
                             /\ s.fencingEpoch >= r.fencingEpoch
    /\ s.state = "none" => r.state = "none"
    /\ r.state = "none" => s = r
    /\ r.state \in Terminal =>
         \/ s.state = "deleted"
         \/ /\ s.state = r.state
            /\ r.redacted => s.redacted
            /\ s.result # r.result => s.result = 0 /\ s.redacted

LEMMA ChangeRow ==
  ASSUME NEW r \in Job, RowOK(r), NEW s, Change(r, s)
  PROVE  s \in Job /\ RowOK(s) /\ Evolves(r, s)
  <1> r.fencingEpoch \in Nat
    BY DEF Job
  <1> USE DEF Evolves, Stored, Active, Leased, Terminal
  <1>1. CASE Kept(r, s)
    BY <1>1, KeptRow
  <1>2. CASE Settled(r, s)
    BY <1>2, SettledRow
  <1>3. CASE Removed(r, s)
    <2>1. s \in Job /\ RowOK(s) /\ r.state \in Stored
      BY <1>3, RemovedRow
    <2>2. CASE s.state = "deleted"
      BY <2>1, <2>2
    <2>3. CASE /\ s.state = r.state /\ s.redacted /\ s.result = 0
               /\ s.fencingEpoch = r.fencingEpoch /\ s.req = r.req
      BY <2>1, <2>3
    <2>4. \/ s.state = "deleted"
          \/ /\ s.state = r.state /\ s.redacted /\ s.result = 0
             /\ s.fencingEpoch = r.fencingEpoch /\ s.req = r.req
      BY <1>3, RemovedRow
    <2> QED
      BY <2>2, <2>3, <2>4
  <1>4. CASE \E w \in Worker : Taken(r, s, w)
    BY <1>4, TakenRow
  <1> QED
    BY <1>1, <1>2, <1>3, <1>4 DEF Change

-----------------------------------------------------------------------------
(* Steps: every action moves every row by a Change, except an insertion and  *)
(* a failure report.                                                         *)

Table == job' = [j \in JobId |-> job'[j]]
AllChange == Table /\ \A j \in JobId : Change(job[j], job'[j])

LEMMA SweptRow ==
  ASSUME NEW ts, NEW k, NEW j \in JobId
  PROVE  Kept(job[j], Swept(ts, k)[j])
  BY DEF Swept, Expired, Kept

\* What a claim takes is queued, or will be once its own sweep is done.
LEMMA OfferedRow ==
  ASSUME TypeOK, NEW w \in Worker, NEW j \in Offered(w)
  PROVE  LET t == job[j].req.tenant
         IN  Taken(job[j],
                   Granted(Swept(Before(w, t) \cup {t}, Profile[w].lane)[j], w), w)
  <1> DEFINE t == job[j].req.tenant
             k == Profile[w].lane
             one == Swept({t}, k)
             all == Swept(Before(w, t) \cup {t}, k)
  <1>1. /\ j \in JobId
        /\ job[j].state \in Active
        /\ j \in Candidates(w, t)
    BY DEF Offered
  <1>2. one[j].state = "queued"
    BY <1>1 DEF Candidates
  <1>3. CASE Expired(j) /\ j \in Scanned(t, k)
    <2>1. one[j] = Requeued(job[j]) /\ all[j] = Requeued(job[j])
      BY <1>1, <1>3 DEF Swept
    <2>2. job[j].attempt < MaxAttempts
      <3>1. job[j] \in Job
        BY <1>1 DEF TypeOK
      <3>2. Requeued(job[j]).state =
              IF job[j].attempt >= MaxAttempts THEN "dead-letter" ELSE "queued"
        BY <3>1 DEF Requeued, Unleased, Job
      <3>3. ~(job[j].attempt >= MaxAttempts)
        BY <1>2, <2>1, <3>2
      <3>4. job[j].attempt \in Nat
        BY <3>1 DEF Job
      <3> QED
        BY <3>3, <3>4, BoundsAssumption
    <2> QED
      BY <1>3, <2>1, <2>2 DEF Taken, Expired
  <1>4. CASE ~(Expired(j) /\ j \in Scanned(t, k))
    <2>1. one[j] = job[j]
      BY <1>1, <1>4 DEF Swept
    <2>2. ~Expired(j)
      BY <1>2, <2>1 DEF Expired, Leased
    <2>3. all[j] = job[j]
      BY <1>1, <2>2 DEF Swept
    <2> QED
      BY <1>2, <2>1, <2>3 DEF Taken
  <1> QED
    BY <1>3, <1>4

\* A claim sweeps, and takes one row; any other row is kept.
LEMMA ClaimChanges ==
  ASSUME TypeOK, NEW w \in Worker, Claim(w)
  PROVE  AllChange
  <1>1. PICK j \in Offered(w) :
          LET t == job[j].req.tenant
              table == Swept(Before(w, t) \cup {t}, Profile[w].lane)
          IN  job' = [table EXCEPT ![j] = Granted(@, w)]
    BY DEF Claim
  <1> DEFINE t == job[j].req.tenant
             table == Swept(Before(w, t) \cup {t}, Profile[w].lane)
  <1>2. j \in JobId
    BY DEF Offered
  <1>3. table = [i \in JobId |-> table[i]] /\ DOMAIN table = JobId
    BY DEF Swept
  <1>4. job' = [table EXCEPT ![j] = Granted(table[j], w)]
    BY <1>1
  <1>5. \A i \in JobId : Kept(job[i], table[i])
    BY SweptRow
  <1>6. Taken(job[j], Granted(table[j], w), w)
    BY OfferedRow
  <1> HIDE DEF table
  <1>7. Table
    BY <1>3, <1>4 DEF Table
  <1>8. ASSUME NEW i \in JobId PROVE Change(job[i], job'[i])
    <2>1. CASE i = j
      BY <1>2, <1>3, <1>4, <1>6, <2>1 DEF Change
    <2>2. CASE i # j
      BY <1>3, <1>4, <1>5, <2>2 DEF Change
    <2> QED
      BY <2>1, <2>2
  <1> QED
    BY <1>7, <1>8 DEF AllChange

\* A step that writes one row.
LEMMA OneRowChanges ==
  ASSUME TypeOK, NEW j \in JobId, NEW s, Change(job[j], s),
         job' = [job EXCEPT ![j] = s]
  PROVE  AllChange
  <1>1. job = [i \in JobId |-> job[i]] /\ DOMAIN job = JobId
    BY DEF TypeOK
  <1> QED
    BY <1>1 DEF AllChange, Table, Change, Kept

LEMMA NoRowChanges ==
  ASSUME TypeOK, UNCHANGED job
  PROVE  AllChange
  BY DEF AllChange, Table, Change, Kept, TypeOK

\* A worker that passes requireLease holds a leased row under its own epoch.
LEMMA HeldRow ==
  ASSUME TypeOK, NEW w \in Worker, HoldsLease(w)
  PROVE  /\ lease[w].job \in JobId
         /\ job[lease[w].job].state \in Leased
         /\ job[lease[w].job].fencingEpoch = lease[w].fencingEpoch
         /\ ~job[lease[w].job].expired
  <1>1. lease[w] \in [job: JobId, fencingEpoch: Nat]
    BY DEF TypeOK, HoldsLease
  <1> QED
    BY <1>1 DEF HoldsLease

LEMMA WorkerChanges ==
  ASSUME TypeOK, NEW w \in Worker,
         \/ CheckHealth(w) \/ ClaimNothing(w) \/ Heartbeat(w)
         \/ ProviderFails(w) \/ Succeed(w) \/ WorkerCrash(w)
  PROVE  AllChange
  <1>1. CASE ClaimNothing(w)
    <2>1. job' = Swept(ActiveTenants(w), Profile[w].lane)
      BY <1>1 DEF ClaimNothing
    <2>2. Table
      BY <2>1 DEF Table, Swept
    <2> QED
      BY <2>1, <2>2, SweptRow DEF AllChange, Change
  <1>2. CASE UNCHANGED job
    BY <1>2, NoRowChanges
  <1>3. CASE Heartbeat(w) /\ ~UNCHANGED job
    <2>1. /\ HoldsLease(w)
          /\ job' = [job EXCEPT ![lease[w].job] = [job[lease[w].job] EXCEPT !.state = "running"]]
      BY <1>3 DEF Heartbeat
    <2>2. Change(job[lease[w].job], [job[lease[w].job] EXCEPT !.state = "running"])
      BY <2>1, HeldRow DEF Change, Kept
    <2> QED
      BY <2>1, <2>2, HeldRow, OneRowChanges
  <1>4. CASE Succeed(w) /\ ~UNCHANGED job
    <2> DEFINE r == job[lease[w].job]
               s == Unleased([r EXCEPT !.state = "succeeded", !.result = r.fencingEpoch])
    <2>1. HoldsLease(w)
      BY <1>4 DEF Succeed
    <2>2. job' = [job EXCEPT ![lease[w].job] = s]
      BY <1>4, <2>1, HeldRow DEF Succeed
    <2>3. Change(r, s)
      BY <2>1, HeldRow DEF Change, Settled
    <2> HIDE DEF s
    <2> QED
      BY <2>1, <2>2, <2>3, HeldRow, OneRowChanges
  <1> QED
    BY <1>1, <1>2, <1>3, <1>4 DEF CheckHealth, ProviderFails, WorkerCrash, serviceVars

\* The failure report changes no row, or the reporter's own by a FailMove.
LEMMA FailChanges ==
  ASSUME TypeOK, NEW w \in Worker, Fail(w), ~UNCHANGED job
  PROVE  /\ HoldsLease(w)
         /\ \E s : /\ job' = [job EXCEPT ![lease[w].job] = s]
                  /\ FailMove(job[lease[w].job], s, pc[w] = "retrying")
  <1> DEFINE r == job[lease[w].job]
             s == Unleased([r EXCEPT !.state = FailedState(r, pc[w] = "retrying")])
  <1>1. HoldsLease(w)
    BY DEF Fail
  <1>2. job' = [job EXCEPT ![lease[w].job] = s]
    BY DEF Fail
  <1>3. FailMove(r, s, pc[w] = "retrying")
    BY <1>1, HeldRow DEF FailMove
  <1> QED
    BY <1>1, <1>2, <1>3

LEMMA ServiceChanges ==
  ASSUME TypeOK, Births,
         \/ CreateConsume \/ CreateRefused \/ CreateCrash
         \/ \E j \in JobId : LeaseExpires(j) \/ Cancel(j)
         \/ \E a \in Account : EraseAccount(a)
         \/ \E old, ripe \in SUBSET JobId : RetentionSweep(old, ripe)
  PROVE  AllChange
  <1>1. CASE CreateConsume \/ CreateCrash
    BY <1>1, NoRowChanges DEF CreateConsume, CreateCrash
  <1>2. CASE CreateRefused
    <2>1. pendingBill \in JobId /\ job[pendingBill].state = "queued"
      BY <1>2 DEF CreateRefused, ServiceIdle, NoId, Births, TypeOK
    <2>2. job' = [job EXCEPT ![pendingBill] = [job[pendingBill] EXCEPT !.state = "failed"]]
      BY <1>2 DEF CreateRefused
    <2>3. Change(job[pendingBill], [job[pendingBill] EXCEPT !.state = "failed"])
      BY <2>1 DEF Change, Settled
    <2> QED
      BY <2>1, <2>2, <2>3, OneRowChanges
  <1>3. ASSUME NEW j \in JobId, LeaseExpires(j) PROVE AllChange
    <2>1. job' = [job EXCEPT ![j] = [job[j] EXCEPT !.expired = TRUE]]
      BY <1>3 DEF LeaseExpires
    <2>2. Change(job[j], [job[j] EXCEPT !.expired = TRUE])
      BY <1>3 DEF LeaseExpires, Change, Kept
    <2> QED
      BY <2>1, <2>2, OneRowChanges
  <1>4. ASSUME NEW j \in JobId, Cancel(j) PROVE AllChange
    <2> DEFINE s == Unleased([job[j] EXCEPT !.state = "cancelled"])
    <2>1. job' = [job EXCEPT ![j] = s]
      BY <1>4 DEF Cancel
    <2>2. Change(job[j], s)
      BY <1>4 DEF Cancel, Change, Settled
    <2> HIDE DEF s
    <2> QED
      BY <2>1, <2>2, OneRowChanges
  <1>5. ASSUME NEW a \in Account, EraseAccount(a) PROVE AllChange
    BY <1>5 DEF EraseAccount, AllChange, Table, Change, Kept, Removed
  <1>6. ASSUME NEW old \in SUBSET JobId, NEW ripe \in SUBSET JobId,
               RetentionSweep(old, ripe)
        PROVE  AllChange
    <2>1. Table
      BY <1>6 DEF RetentionSweep, Table
    <2>2. ASSUME NEW j \in JobId PROVE Change(job[j], job'[j])
      <3>1. CASE j \in old
        BY <1>6, <3>1 DEF RetentionSweep, Change, Removed, Stored
      <3>2. CASE j \in ripe \ old
        BY <1>6, <3>2 DEF RetentionSweep, Change, Removed
      <3>3. CASE j \notin old \cup ripe
        BY <1>6, <3>3 DEF RetentionSweep, Change, Kept
      <3> QED
        BY <3>1, <3>2, <3>3
    <2> QED
      BY <2>1, <2>2 DEF AllChange
  <1> QED
    BY <1>1, <1>2, <1>3, <1>4, <1>5, <1>6

LEMMA StepKinds ==
  ASSUME TypeOK, Births, [Next]_vars
  PROVE  \/ AllChange
         \/ \E r \in Request : CreateInsert(r)
         \/ \E w \in Worker : Fail(w) /\ ~UNCHANGED job
  <1>1. CASE UNCHANGED vars
    BY <1>1, NoRowChanges DEF vars
  <1>2. CASE Next
    BY <1>2, WorkerChanges, ServiceChanges, ClaimChanges, NoRowChanges DEF Next
  <1> QED
    BY <1>1, <1>2

\* A step that is not an insertion.
LEMMA StepEvolves ==
  ASSUME TypeOK, Births, \A j \in JobId : RowOK(job[j]),
         [Next]_vars, ~ \E r \in Request : CreateInsert(r)
  PROVE  /\ job' \in [JobId -> Job]
         /\ \A j \in JobId : RowOK(job'[j]) /\ Evolves(job[j], job'[j])
  <1>0. \A j \in JobId : job[j] \in Job
    BY DEF TypeOK
  <1>1. CASE AllChange
    <2>1. \A j \in JobId : /\ job'[j] \in Job /\ RowOK(job'[j])
                           /\ Evolves(job[j], job'[j])
      BY <1>0, <1>1, ChangeRow DEF AllChange
    <2> QED
      BY <1>1, <2>1 DEF AllChange, Table
  <1>2. ASSUME NEW w \in Worker, Fail(w), ~UNCHANGED job
        PROVE  /\ job' \in [JobId -> Job]
               /\ \A j \in JobId : RowOK(job'[j]) /\ Evolves(job[j], job'[j])
    <2> DEFINE k == lease[w].job
    <2>1. PICK s : /\ job' = [job EXCEPT ![k] = s]
                   /\ FailMove(job[k], s, pc[w] = "retrying")
      BY <1>2, FailChanges
    <2>2. k \in JobId
      BY <1>2, FailChanges, HeldRow
    <2>3. (pc[w] = "retrying") \in BOOLEAN
      OBVIOUS
    <2>4. /\ s \in Job /\ RowOK(s)
          /\ s.state \in {"failed", "queued", "dead-letter"}
          /\ s.fencingEpoch = job[k].fencingEpoch /\ s.req = job[k].req
      BY <1>0, <2>1, <2>2, <2>3, FailRow
    <2>5. job[k].state \in Leased /\ job[k].fencingEpoch \in Nat
      BY <1>0, <2>1, <2>2 DEF FailMove, Job
    <2>6. Evolves(job[k], s)
      BY <2>4, <2>5 DEF Evolves, Stored, Active, Leased, Terminal
    <2>7. \A j \in JobId : Evolves(job[j], job[j])
      BY <1>0 DEF Evolves, Job
    <2> HIDE DEF k
    <2> QED
      BY <2>1, <2>2, <2>4, <2>6, <2>7 DEF TypeOK
  <1> QED
    BY <1>1, <1>2, StepKinds

\* An insertion writes the first unused row, whose key no stored row holds.
LEMMA InsertRow ==
  ASSUME TypeOK, Births, NEW r \in Request, CreateInsert(r)
  PROVE  /\ issued + 1 \in JobId
         /\ job[issued + 1] = NoJob
         /\ Birth(job'[issued + 1], r)
         /\ \A j \in JobId : j # issued + 1 => job'[j] = job[j]
         /\ job' = [job EXCEPT ![issued + 1] = job'[issued + 1]]
         /\ Existing(r) = {}
  <1>1. issued \in Nat /\ issued + 1 \in JobId /\ issued + 1 > issued
    BY BoundsAssumption DEF TypeOK, JobId, CreateInsert
  <1>2. job[issued + 1] = NoJob
    BY <1>1 DEF Births
  <1> QED
    BY <1>1, <1>2 DEF CreateInsert, Birth, TypeOK

LEMMA RowsStep ==
  ASSUME TypeOK, Births, \A j \in JobId : RowOK(job[j]), [Next]_vars
  PROVE  job' \in [JobId -> Job] /\ \A j \in JobId : RowOK(job'[j])
  <1>1. ASSUME NEW r \in Request, CreateInsert(r)
        PROVE  job' \in [JobId -> Job] /\ \A j \in JobId : RowOK(job'[j])
    <2>1. job'[issued + 1] \in Job /\ RowOK(job'[issued + 1])
      BY <1>1, InsertRow, BirthRow
    <2> QED
      BY <1>1, <2>1, InsertRow DEF TypeOK
  <1> QED
    BY <1>1, StepEvolves

-----------------------------------------------------------------------------
(* The service's own variables. *)

\* Only the steps of create touch what the service keeps beside the table.
LEMMA ServiceVarsStep ==
  ASSUME TypeOK, Births, [Next]_vars
  PROVE  /\ issued' \in 0..MaxJobs
         /\ pendingBill' \in JobId \cup {NoId}
         /\ ledger' \subseteq UsageEvent
  <1>1. CASE \E r \in Request : CreateInsert(r)
    <2>1. issued + 1 \in JobId
      BY <1>1, InsertRow
    <2> QED
      BY <1>1, <2>1, BoundsAssumption DEF CreateInsert, TypeOK, JobId
  <1>2. CASE CreateConsume
    <2>1. pendingBill \in JobId /\ job[pendingBill].req \in RequestType
      BY <1>2, RequestAssumption DEF CreateConsume, Births, TypeOK, ServiceIdle
    <2>2. /\ job[pendingBill].req.account \in Account
          /\ job[pendingBill].req.quantity \in Nat
      BY <2>1 DEF RequestType
    <2> QED
      BY <1>2, <2>1, <2>2 DEF CreateConsume, TypeOK, UsageEvent
  <1>3. CASE CreateRefused \/ CreateCrash
    BY <1>3 DEF CreateRefused, CreateCrash, TypeOK
  <1>4. CASE UNCHANGED <<issued, pendingBill, ledger>>
    BY <1>4 DEF TypeOK
  <1>5. ASSUME NEW j \in JobId, LeaseExpires(j) \/ Cancel(j)
        PROVE  UNCHANGED <<issued, pendingBill, ledger>>
    BY <1>5 DEF LeaseExpires, Cancel
  <1>6. ASSUME NEW w \in Worker,
               \/ CheckHealth(w) \/ Claim(w) \/ ClaimNothing(w) \/ Heartbeat(w)
               \/ ProviderFails(w) \/ Succeed(w) \/ Fail(w) \/ WorkerCrash(w)
        PROVE  UNCHANGED <<issued, pendingBill, ledger>>
    BY <1>6 DEF CheckHealth, Claim, ClaimNothing, Heartbeat, ProviderFails, Succeed, Fail,
                WorkerCrash, serviceVars
  <1>7. CASE \/ \E a \in Account : EraseAccount(a)
             \/ \E old, ripe \in SUBSET JobId : RetentionSweep(old, ripe)
    BY <1>4, <1>7 DEF EraseAccount, RetentionSweep
  <1>8. CASE UNCHANGED vars
    BY <1>4, <1>8 DEF vars
  <1> QED
    BY <1>1, <1>2, <1>3, <1>4, <1>5, <1>6, <1>7, <1>8 DEF Next

\* A step that does not hand out a lease keeps every believed lease or drops it.
LeasesShrink == \A w \in Worker : lease'[w] \in {lease[w], NoLease}

LEMMA LeaseStep ==
  ASSUME TypeOK, [Next]_vars
  PROVE  \/ /\ LeasesShrink
            /\ pc' \in [Worker -> Phase]
            /\ lease' \in [Worker -> [job: JobId, fencingEpoch: Nat] \cup {NoLease}]
         \/ \E w \in Worker : Claim(w)
  <1> DEFINE Result ==
        /\ LeasesShrink
        /\ pc' \in [Worker -> Phase]
        /\ lease' \in [Worker -> [job: JobId, fencingEpoch: Nat] \cup {NoLease}]
  <1>1. ASSUME UNCHANGED <<pc, lease>> PROVE Result
    BY <1>1 DEF TypeOK, LeasesShrink
  <1>2. ASSUME NEW w \in Worker, Finish(w) PROVE Result
    BY <1>2 DEF Finish, TypeOK, LeasesShrink, Phase
  <1>3. ASSUME NEW w \in Worker, NEW p \in Phase, Goto(w, p) PROVE Result
    BY <1>3 DEF Goto, TypeOK, LeasesShrink
  <1> HIDE DEF Result
  <1>4. ASSUME NEW w \in Worker,
               \/ CheckHealth(w) \/ ClaimNothing(w) \/ Heartbeat(w) \/ ProviderFails(w)
               \/ Succeed(w) \/ Fail(w) \/ WorkerCrash(w)
        PROVE  Result
    <2>1. {"polling", "failing", "retrying", "prepared", "inferring"} \subseteq Phase
      BY DEF Phase
    <2>2. CASE CheckHealth(w) \/ ClaimNothing(w)
      BY <1>2, <1>3, <2>1, <2>2 DEF CheckHealth, ClaimNothing
    <2>3. CASE Heartbeat(w)
      <3>1. AfterHeartbeat[pc[w]] \in Phase
        BY <2>3 DEF Heartbeat, AfterHeartbeat, Phase
      <3>2. \E p \in Phase : Goto(w, p)
        BY <2>1, <2>3, <3>1 DEF Heartbeat
      <3> QED
        BY <1>3, <3>2
    <2>4. CASE ProviderFails(w)
      <3>1. Goto(w, "retrying") \/ Goto(w, "failing")
        BY <2>4 DEF ProviderFails
      <3> QED
        BY <1>3, <2>1, <3>1
    <2>5. CASE Succeed(w)
      BY <1>2, <1>3, <2>1, <2>5 DEF Succeed
    <2>6. CASE Fail(w) \/ WorkerCrash(w)
      BY <1>2, <2>6 DEF Fail, WorkerCrash
    <2> QED
      BY <1>4, <2>2, <2>3, <2>4, <2>5, <2>6
  <1>5. ASSUME \/ \E r \in Request : CreateInsert(r)
               \/ CreateConsume \/ CreateRefused \/ CreateCrash
               \/ \E j \in JobId : LeaseExpires(j) \/ Cancel(j)
               \/ \E a \in Account : EraseAccount(a)
               \/ \E old, ripe \in SUBSET JobId : RetentionSweep(old, ripe)
               \/ UNCHANGED vars
        PROVE  Result
    BY <1>1, <1>5 DEF CreateInsert, CreateConsume, CreateRefused, CreateCrash,
                      LeaseExpires, Cancel, EraseAccount, RetentionSweep, vars
  <1>6. Result \/ \E w \in Worker : Claim(w)
    <2>1. CASE Next
      BY <1>4, <1>5, <2>1 DEF Next
    <2> QED
      BY <1>5, <2>1
  <1> QED
    BY <1>6 DEF Result

\* A claim that answers its worker stamps the row with a fresh epoch.
LEMMA ClaimLease ==
  ASSUME TypeOK, \A j \in JobId : RowOK(job[j]), NEW w \in Worker, Claim(w)
  PROVE  \/ Finish(w)
         \/ \E j \in JobId :
              /\ pc' = [pc EXCEPT ![w] = "claimed"]
              /\ lease' = [lease EXCEPT ![w] =
                     [job |-> j, fencingEpoch |-> job'[j].fencingEpoch]]
              /\ job'[j] \in Job /\ job'[j].state = "leased"
              /\ job'[j].fencingEpoch = job[j].fencingEpoch + 1
              /\ job[j].state \in Active
  <1>1. PICK j \in Offered(w) :
          LET t == job[j].req.tenant
              table == Swept(Before(w, t) \cup {t}, Profile[w].lane)
          IN  /\ job' = [table EXCEPT ![j] = Granted(@, w)]
              /\ \/ /\ pc' = [pc EXCEPT ![w] = "claimed"]
                    /\ lease' = [lease EXCEPT ![w] =
                          [job |-> j, fencingEpoch |-> job'[j].fencingEpoch]]
                 \/ Finish(w)
    BY DEF Claim
  <1> DEFINE t == job[j].req.tenant
             table == Swept(Before(w, t) \cup {t}, Profile[w].lane)
  <1>2. j \in JobId /\ j \in DOMAIN table
    BY DEF Offered, Swept
  <1>3. Taken(job[j], Granted(table[j], w), w)
    BY OfferedRow
  <1>4. job'[j] = Granted(table[j], w)
    BY <1>1, <1>2
  <1>5. Taken(job[j], job'[j], w) /\ job[j] \in Job
    BY <1>2, <1>3, <1>4 DEF TypeOK
  <1> QED
    BY <1>1, <1>2, <1>5, TakenRow

\* Between an insertion and its metering only time passes and workers compute.
LEMMA PendingStep ==
  ASSUME TypeOK, Births, [Next]_vars, ~ \E r \in Request : CreateInsert(r)
  PROVE  /\ issued' = issued
         /\ \/ pendingBill' = NoId
            \/ /\ pendingBill' = pendingBill
               /\ ServiceIdle \/ job'[pendingBill] = job[pendingBill]
  <1>1. CASE CreateConsume \/ CreateRefused \/ CreateCrash
    BY <1>1 DEF CreateConsume, CreateRefused, CreateCrash
  <1>2. ASSUME NEW j \in JobId, LeaseExpires(j)
        PROVE  /\ issued' = issued /\ pendingBill' = pendingBill
               /\ ServiceIdle \/ job'[pendingBill] = job[pendingBill]
    BY <1>2 DEF LeaseExpires, Births, TypeOK, Leased
  <1>3. CASE ServiceIdle /\ UNCHANGED <<issued, pendingBill>>
    BY <1>3
  <1>4. ASSUME NEW j \in JobId, Cancel(j)
        PROVE  ServiceIdle /\ UNCHANGED <<issued, pendingBill>>
    BY <1>4 DEF Cancel
  <1>5. ASSUME NEW w \in Worker,
               \/ Claim(w) \/ ClaimNothing(w) \/ Heartbeat(w) \/ Succeed(w) \/ Fail(w)
        PROVE  ServiceIdle /\ UNCHANGED <<issued, pendingBill>>
    BY <1>5 DEF Claim, ClaimNothing, Heartbeat, Succeed, Fail
  <1>6. ASSUME NEW w \in Worker, CheckHealth(w) \/ ProviderFails(w) \/ WorkerCrash(w)
        PROVE  UNCHANGED <<job, issued, pendingBill>>
    BY <1>6 DEF CheckHealth, ProviderFails, WorkerCrash, serviceVars
  <1>7. CASE \/ \E a \in Account : EraseAccount(a)
             \/ \E old, ripe \in SUBSET JobId : RetentionSweep(old, ripe)
    BY <1>3, <1>7 DEF EraseAccount, RetentionSweep
  <1>8. CASE UNCHANGED vars
    BY <1>8 DEF vars
  <1> QED
    BY <1>1, <1>2, <1>3, <1>4, <1>5, <1>6, <1>7, <1>8 DEF Next

LEMMA BirthsStep ==
  ASSUME TypeOK, Births, \A j \in JobId : RowOK(job[j]), [Next]_vars
  PROVE  Births'
  <1>0. issued \in Nat /\ pendingBill \in Nat /\ NoJob.state = "none"
    BY BoundsAssumption DEF TypeOK, JobId, NoId, NoJob
  <1>1. ASSUME NEW r \in Request, CreateInsert(r) PROVE Births'
    <2>1. /\ job'[issued + 1].state = "queued" /\ job'[issued + 1].req = r
          /\ job'[issued + 1].attempt = 0
      BY <1>1, InsertRow DEF Birth, NoJob
    <2>2. /\ issued' = issued + 1 /\ pendingBill' = issued + 1
          /\ \A j \in JobId : j # issued + 1 => job'[j] = job[j]
      BY <1>1, InsertRow DEF CreateInsert
    <2>3. \A j \in JobId : j > issued + 1 => j > issued /\ j # issued + 1
      BY <1>0 DEF JobId
    <2> QED
      BY <1>0, <2>1, <2>2, <2>3 DEF Births
  <1>2. CASE ~ \E r \in Request : CreateInsert(r)
    <2>1. \A j \in JobId : j > issued => job'[j] = NoJob
      BY <1>0, <1>2, StepEvolves DEF Births, Evolves
    <2>2. /\ issued' = issued
          /\ \/ pendingBill' = NoId
             \/ /\ pendingBill' = pendingBill
                /\ ServiceIdle \/ job'[pendingBill] = job[pendingBill]
      BY <1>2, PendingStep
    <2>3. CASE pendingBill' = NoId
      BY <1>0, <2>1, <2>2, <2>3 DEF Births, ServiceIdle, NoId
    <2>4. CASE /\ pendingBill' = pendingBill
               /\ ServiceIdle \/ job'[pendingBill] = job[pendingBill]
      BY <2>1, <2>2, <2>4 DEF Births, ServiceIdle
    <2> QED
      BY <2>2, <2>3, <2>4
  <1> QED
    BY <1>1, <1>2

-----------------------------------------------------------------------------
(* Fencing. *)

\* Believed leases stay fenced by a step that hands none out.
LEMMA FencedShrinkStep ==
  ASSUME TypeOK, Births, \A j \in JobId : RowOK(job[j]), Fenced,
         [Next]_vars, LeasesShrink
  PROVE  Fenced'
  <1> SUFFICES ASSUME NEW w \in Worker, lease'[w] # NoLease
               PROVE  LET j == lease'[w].job
                      IN  /\ job'[j].state # "none"
                          /\ job'[j].state \in Stored =>
                               /\ lease'[w].fencingEpoch <= job'[j].fencingEpoch
                               /\ \A v \in Worker :
                                    (lease'[v] # NoLease /\ lease'[v] = lease'[w]) => v = w
    BY DEF Fenced
  <1> DEFINE j == lease[w].job
  <1>1. lease[w] # NoLease /\ lease'[w] = lease[w]
    BY DEF LeasesShrink
  <1>2. /\ j \in JobId /\ lease[w].fencingEpoch \in Nat
        /\ job[j] \in Job /\ job[j].fencingEpoch \in Nat
    BY <1>1 DEF TypeOK, Job
  <1>3. /\ job[j].state # "none"
        /\ job[j].state \in Stored =>
             /\ lease[w].fencingEpoch <= job[j].fencingEpoch
             /\ \A v \in Worker :
                  (lease[v] # NoLease /\ lease[v] = lease[w]) => v = w
    BY <1>1 DEF Fenced
  <1>4. \A v \in Worker : lease'[v] # NoLease => lease'[v] = lease[v]
    BY DEF LeasesShrink
  <1>5. /\ job'[j] \in Job /\ job'[j].state # "none"
        /\ job'[j].state \in Stored =>
             /\ job[j].state \in Stored
             /\ job'[j].fencingEpoch >= job[j].fencingEpoch
    <2>1. ASSUME NEW r \in Request, CreateInsert(r) PROVE job'[j] = job[j]
      <3>1. j # issued + 1
        BY <1>3, <2>1, InsertRow DEF NoJob
      <3> QED
        BY <1>2, <2>1, <3>1, InsertRow
    <2>2. CASE \E r \in Request : CreateInsert(r)
      BY <1>2, <1>3, <2>1, <2>2
    <2>3. CASE ~ \E r \in Request : CreateInsert(r)
      BY <1>2, <1>3, <2>3, StepEvolves DEF Evolves
    <2> QED
      BY <2>2, <2>3
  <1>6. job'[j].fencingEpoch \in Nat
    BY <1>5 DEF Job
  <1> QED
    BY <1>1, <1>2, <1>3, <1>4, <1>5, <1>6

LEMMA FencedClaimStep ==
  ASSUME TypeOK, Births, \A j \in JobId : RowOK(job[j]), Fenced,
         NEW c \in Worker, Claim(c)
  PROVE  Fenced'
  <1>0. Next /\ ~ \E r \in Request : CreateInsert(r)
    <2>1. UNCHANGED issued
      BY DEF Claim
    <2>2. issued # issued + 1
      BY BoundsAssumption DEF TypeOK
    <2> QED
      BY <2>1, <2>2 DEF Next, CreateInsert
  <1>1. CASE Finish(c)
    <2>1. LeasesShrink
      BY <1>1 DEF LeasesShrink, Finish, TypeOK
    <2> QED
      BY <1>0, <2>1, FencedShrinkStep
  <1>2. CASE ~ Finish(c)
    <2>1. PICK k \in JobId :
            /\ lease' = [lease EXCEPT ![c] =
                   [job |-> k, fencingEpoch |-> job'[k].fencingEpoch]]
            /\ job'[k] \in Job /\ job'[k].state = "leased"
            /\ job'[k].fencingEpoch = job[k].fencingEpoch + 1
            /\ job[k].state \in Active
      BY <1>2, ClaimLease
    <2> DEFINE new == [job |-> k, fencingEpoch |-> job'[k].fencingEpoch]
    <2>2. /\ lease'[c] = new /\ new.job = k
          /\ new.fencingEpoch = job[k].fencingEpoch + 1
          /\ \A v \in Worker : v # c => lease'[v] = lease[v]
      BY <2>1 DEF TypeOK
    <2>3. job[k] \in Job /\ job[k].fencingEpoch \in Nat /\ job[k].state \in Stored
      BY <2>1 DEF TypeOK, Job, Stored
    \* Nobody else believes in a lease with the new epoch.
    <2>4. \A v \in Worker : (v # c /\ lease[v] # NoLease) => lease[v] # new
      <3> SUFFICES ASSUME NEW v \in Worker, lease[v] # NoLease, lease[v] = new
                   PROVE  FALSE
        OBVIOUS
      <3>1. lease[v].job = k /\ lease[v].fencingEpoch = job[k].fencingEpoch + 1
        BY <2>2
      <3>2. lease[v].fencingEpoch <= job[k].fencingEpoch
        BY <2>3, <3>1 DEF Fenced
      <3> QED
        BY <2>3, <3>1, <3>2
    <2> HIDE DEF new
    <2>5. SUFFICES ASSUME NEW w \in Worker, lease'[w] # NoLease
                   PROVE  LET j == lease'[w].job
                          IN  /\ job'[j].state # "none"
                              /\ job'[j].state \in Stored =>
                                   /\ lease'[w].fencingEpoch <= job'[j].fencingEpoch
                                   /\ \A v \in Worker :
                                        (lease'[v] # NoLease /\ lease'[v] = lease'[w]) => v = w
      BY DEF Fenced
    <2>6. CASE w = c
      BY <2>1, <2>2, <2>3, <2>4, <2>6
    <2>7. CASE w # c
      <3> DEFINE j == lease[w].job
      <3>1. lease'[w] = lease[w] /\ lease[w] # NoLease /\ lease'[w] # new
        BY <2>2, <2>4, <2>5, <2>7
      <3>2. j \in JobId /\ lease[w].fencingEpoch \in Nat /\ job[j].fencingEpoch \in Nat
        BY <3>1 DEF TypeOK, Job
      <3>3. /\ job'[j] \in Job /\ job'[j].state # "none"
            /\ job'[j].state \in Stored =>
                 /\ job[j].state \in Stored
                 /\ job'[j].fencingEpoch >= job[j].fencingEpoch
        BY <1>0, <3>1, <3>2, StepEvolves DEF Evolves, Fenced
      <3>4. job'[j].fencingEpoch \in Nat
        BY <3>3 DEF Job
      <3>5. job'[j].state \in Stored =>
              lease[w].fencingEpoch <= job'[j].fencingEpoch
        BY <3>1, <3>2, <3>3, <3>4 DEF Fenced
      <3>6. ASSUME job'[j].state \in Stored,
                   NEW v \in Worker, lease'[v] # NoLease, lease'[v] = lease'[w]
            PROVE  v = w
        <4>1. v # c
          BY <2>2, <3>1, <3>6
        <4>2. lease[v] # NoLease /\ lease[v] = lease[w]
          BY <2>2, <3>1, <3>6, <4>1
        <4> QED
          BY <3>1, <3>3, <3>6, <4>2 DEF Fenced
      <3> QED
        BY <3>1, <3>3, <3>5, <3>6
    <2> QED
      BY <2>6, <2>7
  <1> QED
    BY <1>1, <1>2

-----------------------------------------------------------------------------
(* The inductive invariant. *)

LEMMA KeyStep ==
  ASSUME TypeOK, Births, \A j \in JobId : RowOK(job[j]), OneJobPerKey, [Next]_vars
  PROVE  OneJobPerKey'
  <1>1. ASSUME NEW r \in Request, CreateInsert(r) PROVE OneJobPerKey'
    <2> DEFINE n == issued + 1
    <2>1. /\ job'[n].req = r
          /\ \A j \in JobId : j # n => job'[j] = job[j]
      BY <1>1, InsertRow, BirthRow
    <2>2. \A j \in JobId : job[j].state \in Stored =>
            ~(job[j].req.tenant = r.tenant /\ job[j].req.key = r.key)
      BY <1>1, InsertRow DEF Existing, SameKey
    <2> HIDE DEF n
    <2> QED
      BY <2>1, <2>2 DEF OneJobPerKey
  <1>2. CASE ~ \E r \in Request : CreateInsert(r)
    <2>1. \A j \in JobId : job'[j].state \in Stored =>
            job[j].state \in Stored /\ job'[j].req = job[j].req
      BY <1>2, StepEvolves DEF Evolves
    <2> QED
      BY <2>1 DEF OneJobPerKey
  <1> QED
    BY <1>1, <1>2

LEMMA InitIInv == Init => IInv
  <1> SUFFICES ASSUME Init PROVE IInv
    OBVIOUS
  <1>1. \A j \in JobId : job[j] = NoJob
    BY DEF Init
  <1>2. TypeOK
    BY NullRows, BoundsAssumption DEF Init, TypeOK, Phase, NoId
  <1>3. Births
    BY <1>1 DEF Init, Births, ServiceIdle, NoId
  <1>4. \A j \in JobId : RowOK(job[j])
    BY <1>1, NullRows
  <1>5. Fenced
    BY DEF Init, Fenced
  <1>6. OneJobPerKey
    BY <1>1 DEF OneJobPerKey, NoJob, Stored, Active, Leased, Terminal
  <1> QED
    BY <1>2, <1>3, <1>4, <1>5, <1>6 DEF IInv

LEMMA NextIInv == IInv /\ [Next]_vars => IInv'
  <1> SUFFICES ASSUME IInv, [Next]_vars PROVE IInv'
    OBVIOUS
  <1> USE DEF IInv
  <1>1. job' \in [JobId -> Job] /\ \A j \in JobId : RowOK(job'[j])
    BY RowsStep
  <1>2. /\ issued' \in 0..MaxJobs
        /\ pendingBill' \in JobId \cup {NoId}
        /\ ledger' \subseteq UsageEvent
    BY ServiceVarsStep
  <1>3. Births' /\ OneJobPerKey'
    BY BirthsStep, KeyStep
  <1>4. CASE LeasesShrink /\ pc' \in [Worker -> Phase]
             /\ lease' \in [Worker -> [job: JobId, fencingEpoch: Nat] \cup {NoLease}]
    <2>1. Fenced'
      BY <1>4, FencedShrinkStep
    <2>2. TypeOK'
      BY <1>1, <1>2, <1>4 DEF TypeOK
    <2> QED
      BY <1>1, <1>3, <2>1, <2>2
  <1>5. ASSUME NEW w \in Worker, Claim(w) PROVE IInv'
    <2>1. Fenced'
      BY <1>5, FencedClaimStep
    <2>2. pc' \in [Worker -> Phase]
          /\ lease' \in [Worker -> [job: JobId, fencingEpoch: Nat] \cup {NoLease}]
      <3>1. CASE Finish(w)
        BY <3>1 DEF Finish, TypeOK, Phase
      <3>2. CASE ~ Finish(w)
        <4>1. PICK j \in JobId :
                /\ pc' = [pc EXCEPT ![w] = "claimed"]
                /\ lease' = [lease EXCEPT ![w] =
                       [job |-> j, fencingEpoch |-> job'[j].fencingEpoch]]
                /\ job'[j] \in Job
          BY <1>5, <3>2, ClaimLease
        <4>2. job'[j].fencingEpoch \in Nat
          BY <4>1 DEF Job
        <4> QED
          BY <4>1, <4>2 DEF TypeOK, Phase
      <3> QED
        BY <3>1, <3>2
    <2>3. TypeOK'
      BY <1>1, <1>2, <2>2 DEF TypeOK
    <2> QED
      BY <1>1, <1>3, <2>1, <2>3
  <1> QED
    BY <1>4, <1>5, LeaseStep

\* The inductive invariant holds in every reachable state: rows are born in
\* order and only once, each row is coherent, every lease a worker believes in
\* was stamped by a claim, and retained jobs have distinct keys.
THEOREM Invariance == Spec => []IInv
  BY InitIInv, NextIInv, PTL DEF Spec

-----------------------------------------------------------------------------
(* The properties. *)

\* Every variable keeps its type.
THEOREM TypeCorrect == Spec => []TypeOK
  <1>1. IInv => TypeOK
    BY DEF IInv
  <1> QED
    BY <1>1, Invariance, PTL

\* Attempts stay within maximumAttempts, whatever expires, fails or crashes.
THEOREM AttemptsBudgeted == Spec => []RetryBudget
  <1>1. IInv => RetryBudget
    BY DEF IInv, RowOK, RetryBudget
  <1> QED
    BY <1>1, Invariance, PTL

\* requireLease admits at most one worker process per job.
THEOREM LeasesExclusive == Spec => []ExclusiveLease
  <1>1. IInv => ExclusiveLease
    <2> SUFFICES ASSUME IInv,
                        NEW v \in Worker, NEW w \in Worker,
                        HoldsLease(v), HoldsLease(w), lease[v].job = lease[w].job
                 PROVE  v = w
      BY DEF ExclusiveLease
    <2>1. /\ lease[v] \in [job: JobId, fencingEpoch: Nat]
          /\ lease[w] \in [job: JobId, fencingEpoch: Nat]
          /\ lease[v] # NoLease /\ lease[w] # NoLease
      BY DEF IInv, TypeOK, HoldsLease
    <2>2. lease[v].fencingEpoch = lease[w].fencingEpoch
      BY DEF HoldsLease
    <2>3. lease[v] = lease[w]
      BY <2>1, <2>2
    <2>4. job[lease[w].job].state \in Stored
      BY DEF HoldsLease, Stored, Active
    <2> QED
      BY <2>1, <2>3, <2>4 DEF IInv, Fenced
  <1> QED
    BY <1>1, Invariance, PTL

\* A result is the one its job's last attempt computed.
THEOREM ResultsCurrent == Spec => []ResultIsLastAttempts
  <1>1. IInv => ResultIsLastAttempts
    BY DEF IInv, RowOK, ResultIsLastAttempts
  <1> QED
    BY <1>1, Invariance, PTL

\* Idempotency keys stay unique over every interleaving of create, deletion,
\* erasure and retention.
THEOREM KeysUnique == Spec => []OneJobPerKey
  <1>1. IInv => OneJobPerKey
    BY DEF IInv
  <1> QED
    BY <1>1, Invariance, PTL

-----------------------------------------------------------------------------
(* The allowance: usage is a sum over a ledger that stays finite. *)

\* The usage each account's allowance is compared with.
Metered == IsFiniteSet(ledger) /\ WithinAllowance

\* One usage event more adds its quantity to its account's usage, and to no other.
LEMMA UsedGrows ==
    ASSUME ledger \subseteq UsageEvent, IsFiniteSet(ledger), NEW e \in UsageEvent, e \notin ledger,
           ledger' = ledger \cup {e}, NEW a \in Account
    PROVE  /\ Used(a) \in Int
           /\ Used(a)' = IF a = e.account THEN Used(a) + e.quantity ELSE Used(a)
  <1> DEFINE f == [x \in ledger |-> x.quantity]
             g == [x \in ledger' |-> x.quantity]
             S == {x \in ledger : x.account = a}
  <1>1. /\ Used(a) = SumFunctionOnSet(f, S)
        /\ Used(a)' = SumFunctionOnSet(g, {x \in ledger' : x.account = a})
    BY DEF Used
  <1>2. {x \in ledger' : x.account = a} = IF a = e.account THEN S \cup {e} ELSE S
    OBVIOUS
  <1>3. IsFiniteSet(S) /\ e \notin S
    BY FS_Subset
  <1>4. /\ \A x \in S : f[x] = g[x] /\ f[x] \in Int
        /\ g[e] = e.quantity /\ g[e] \in Int
    BY DEF UsageEvent
  <1> HIDE DEF f, g, S
  <1>5. SumFunctionOnSet(f, S) \in Int
    BY <1>3, <1>4, SumType
  <1>6. SumFunctionOnSet(f, S) = SumFunctionOnSet(g, S)
    BY <1>3, <1>4, SumSame
  <1>7. SumFunctionOnSet(g, S \cup {e}) = SumFunctionOnSet(g, S) + g[e]
    <2>1. \A y \in S \cup {e} : g[y] \in Int
      BY <1>4
    <2> QED
      BY <1>3, <2>1, SumAdd
  <1> QED
    BY <1>1, <1>2, <1>4, <1>5, <1>6, <1>7

LEMMA MeteredStep ==
    ASSUME IInv, Metered, [Next]_vars
    PROVE  Metered'
  <1>1. CASE UNCHANGED ledger
    BY <1>1 DEF Metered, WithinAllowance, Used
  <1>2. ASSUME CreateConsume PROVE Metered'
    <2> DEFINE r == job[pendingBill].req
               e == [job |-> pendingBill, account |-> r.account, quantity |-> r.quantity]
    <2>1. /\ ledger' = ledger \cup {e} /\ ~ServiceIdle
          /\ Limit[r.account] # NoLimit => Used(r.account) + r.quantity <= Limit[r.account]
      BY <1>2 DEF CreateConsume, Allowed
    <2>2. r \in RequestType /\ pendingBill \in JobId
      BY <2>1, RequestAssumption DEF IInv, Births, TypeOK, ServiceIdle
    <2>3. e \in UsageEvent /\ e.account = r.account /\ e.quantity = r.quantity
      BY <2>2 DEF UsageEvent, RequestType
    <2>4. ledger \subseteq UsageEvent
      BY DEF IInv, TypeOK
    <2> HIDE DEF e, r
    <2>5. CASE e \in ledger
      <3>1. UNCHANGED ledger
        BY <2>1, <2>5
      <3> QED
        BY <1>1, <3>1
    <2>6. CASE e \notin ledger
      <3>1. IsFiniteSet(ledger')
        BY <2>1, FS_AddElement DEF Metered
      <3>2. ASSUME NEW a \in Account, Limit[a] # NoLimit PROVE Used(a)' <= Limit[a]
        <4>1. Used(a)' = IF a = e.account THEN Used(a) + e.quantity ELSE Used(a)
          BY <2>1, <2>3, <2>4, <2>6, UsedGrows DEF Metered
        <4> QED
          BY <2>1, <2>3, <3>2, <4>1 DEF Metered, WithinAllowance
      <3> QED
        BY <3>1, <3>2 DEF Metered, WithinAllowance
    <2> QED
      BY <2>5, <2>6
  <1>3. CASE UNCHANGED vars
    BY <1>1, <1>3 DEF vars
  <1>4. ASSUME Next, ~CreateConsume PROVE UNCHANGED ledger
    BY <1>4 DEF Next, CreateInsert, CreateRefused, CreateCrash, LeaseExpires, Cancel, Claim,
       CheckHealth, ClaimNothing, Heartbeat, ProviderFails, Succeed, Fail, WorkerCrash,
       EraseAccount, RetentionSweep, serviceVars
  <1> QED
    BY <1>1, <1>2, <1>3, <1>4

\* Recorded usage stays within the plan's allowance, for any number of requests, keys
\* and accounts, whatever is retried, refused or lost between create's transactions.
THEOREM AllowanceKept == Spec => []WithinAllowance
  <1>1. Init => Metered
    <2> SUFFICES ASSUME Init, NEW a \in Account, Limit[a] # NoLimit
                 PROVE  IsFiniteSet(ledger) /\ Used(a) <= Limit[a]
      BY FS_EmptySet DEF Metered, WithinAllowance, Init
    <2>1. ledger = {} /\ IsFiniteSet(ledger)
      BY FS_EmptySet DEF Init
    <2>2. Used(a) = 0
      BY <2>1, SumType DEF Used
    <2> QED
      BY <2>1, <2>2, LimitAssumption
  <1>2. Metered => WithinAllowance
    BY DEF Metered
  <1> QED
    BY <1>1, <1>2, MeteredStep, Invariance, PTL DEF Spec

-----------------------------------------------------------------------------
(* Action properties. *)

\* A finished job keeps its state until it is deleted, and nothing but
\* content minimization, for good, takes the place of its result.
THEOREM FinishedJobsFinal == Spec => FinishedIsFinal
  <1> DEFINE Final ==
        \A j \in JobId : job[j].state \in Terminal =>
          \/ job'[j].state = "deleted"
          \/ /\ job'[j].state = job[j].state
             /\ job[j].redacted => job'[j].redacted
             /\ job'[j].result # job[j].result =>
                   job'[j].result = 0 /\ job'[j].redacted
  <1>1. IInv /\ [Next]_vars => [Final]_vars
    <2> SUFFICES ASSUME IInv, [Next]_vars PROVE Final
      OBVIOUS
    <2>1. ASSUME NEW r \in Request, CreateInsert(r) PROVE Final
      <3>1. /\ job[issued + 1].state \notin Terminal
            /\ \A j \in JobId : j # issued + 1 => job'[j] = job[j]
        BY <2>1, InsertRow DEF IInv, NoJob, Terminal
      <3> QED
        BY <3>1
    <2>2. CASE ~ \E r \in Request : CreateInsert(r)
      BY <2>2, StepEvolves DEF IInv, Evolves
    <2> QED
      BY <2>1, <2>2
  <1> QED
    BY <1>1, Invariance, PTL DEF Spec, FinishedIsFinal

LEMMA ChangeLive ==
  ASSUME NEW r \in Job, RowOK(r), r.state \in Leased, ~r.expired, NEW s, Change(r, s)
  PROVE  s.state # "queued" /\ ~(s.fencingEpoch > r.fencingEpoch)
  <1>0. r.fencingEpoch \in Nat
    BY DEF Job
  <1>1. CASE Kept(r, s)
    <2>1. s.fencingEpoch = r.fencingEpoch
      BY <1>1, KeptRow
    <2>2. s.state # "queued"
      BY <1>1 DEF Kept, Job, Leased
    <2> QED
      BY <1>0, <2>1, <2>2
  <1>2. CASE Settled(r, s)
    BY <1>0, <1>2, SettledRow
  <1>3. CASE Removed(r, s)
    <2>1. s = Deleted
      BY <1>3 DEF Removed, Leased, Terminal
    <2> QED
      BY <1>0, <2>1 DEF Deleted, NoJob
  <1>4. CASE \E w \in Worker : Taken(r, s, w)
    BY <1>4, TakenRow DEF Leased
  <1> QED
    BY <1>1, <1>2, <1>3, <1>4 DEF Change

\* While a lease has not expired, its job goes back to the queue or to another
\* worker only by its own holder's retryable failure report.
THEOREM LiveLeasesKept == Spec => LiveLeaseKept
  <1> DEFINE Live(j) == job[j].state \in Leased /\ ~job[j].expired
             Lost(j) == \/ job'[j].state = "queued"
                        \/ job'[j].fencingEpoch > job[j].fencingEpoch
             Reported(j) == \E w \in Worker :
                              HoldsLease(w) /\ lease[w].job = j /\ pc[w] = "retrying"
  <1>1. ASSUME IInv, [Next]_vars, NEW j \in JobId, Live(j), Lost(j)
        PROVE  Reported(j)
    <2>1. job[j] \in Job /\ job[j].fencingEpoch \in Nat
      BY <1>1 DEF IInv, TypeOK, Job
    <2>2. job'[j] # job[j]
      BY <1>1, <2>1 DEF Leased
    <2>3. ~ AllChange
      BY <1>1, <2>1, ChangeLive DEF IInv, AllChange
    <2>4. ~ \E r \in Request : CreateInsert(r)
      BY <1>1, <2>2, InsertRow DEF IInv, NoJob, Leased
    <2>5. PICK w \in Worker : Fail(w) /\ ~UNCHANGED job
      BY <1>1, <2>3, <2>4, StepKinds DEF IInv
    <2>6. PICK s : /\ HoldsLease(w)
                   /\ job' = [job EXCEPT ![lease[w].job] = s]
                   /\ FailMove(job[lease[w].job], s, pc[w] = "retrying")
      BY <1>1, <2>5, FailChanges DEF IInv
    <2>7. lease[w].job = j /\ job'[j] = s
      BY <1>1, <2>2, <2>6 DEF IInv, TypeOK
    <2>8. (pc[w] = "retrying") \in BOOLEAN
      OBVIOUS
    <2>9. /\ s.state = "queued" => pc[w] = "retrying"
          /\ s.fencingEpoch = job[j].fencingEpoch
      BY <1>1, <2>1, <2>6, <2>7, <2>8, FailRow DEF IInv
    <2> QED
      BY <1>1, <2>1, <2>6, <2>7, <2>9
  <1>2. IInv /\ [Next]_vars =>
          [\A j \in JobId :
             (/\ job[j].state \in Leased /\ ~job[j].expired
              /\ job'[j].state = "queued" \/ job'[j].fencingEpoch > job[j].fencingEpoch) =>
             \E w \in Worker :
                 HoldsLease(w) /\ lease[w].job = j /\ pc[w] = "retrying"]_vars
    BY <1>1
  <1> QED
    BY <1>2, Invariance, PTL DEF Spec, LiveLeaseKept

-----------------------------------------------------------------------------
(* The service implements JobContract. *)

\* A row's move, seen through PhaseOf, is one of the contract's.
ContractMove(r, s) ==
  LET p == PhaseOf(r.state)
      Becomes(q, n, v) == PhaseOf(s.state) = q /\ s.attempt = n /\ s.result = v
  IN  \/ Becomes(p, r.attempt, r.result)
      \/ p = "unborn" /\ Becomes("open", 0, 0)
      \/ p \in {"open", "held"} /\ r.attempt < MaxAttempts
           /\ Becomes("held", r.attempt + 1, 0)
      \/ p = "held" /\ r.attempt < MaxAttempts /\ Becomes("open", r.attempt, 0)
      \/ p \in {"open", "held"} /\ Becomes("closed", r.attempt, 0)
      \/ p = "held" /\ Becomes("closed", r.attempt, r.attempt)
      \/ p = "closed" /\ Becomes("closed", r.attempt, 0)
      \/ p \in {"open", "held", "closed"} /\ Becomes("gone", 0, 0)

LEMMA Phases ==
  /\ PhaseOf("none") = "unborn"
  /\ PhaseOf("queued") = "open"
  /\ \A x \in Leased : PhaseOf(x) = "held"
  /\ \A x \in Terminal : PhaseOf(x) = "closed"
  /\ PhaseOf("deleted") = "gone"
  BY DEF PhaseOf, Leased, Terminal

LEMMA KeptContract ==
  ASSUME NEW r \in Job, RowOK(r), NEW s, Kept(r, s)
  PROVE  ContractMove(r, s)
  <1>1. CASE s = r
    BY <1>1 DEF ContractMove
  <1>2. CASE /\ r.state \in Leased
             /\ s = [r EXCEPT !.expired = TRUE] \/ s = [r EXCEPT !.state = "running"]
    <2>1. s.state \in Leased /\ s.attempt = r.attempt /\ s.result = r.result
      BY <1>2 DEF Job, Leased
    <2> QED
      BY <1>2, <2>1, Phases DEF ContractMove
  <1>3. CASE r.state \in Leased /\ r.expired /\ s = Requeued(r)
    <2>1. s.attempt = r.attempt /\ s.result = r.result
      BY <1>3 DEF Requeued, Unleased, Job
    <2>2. r.result = 0
      BY <1>3 DEF RowOK, Leased
    <2>3. /\ s.state \in {"queued", "dead-letter"}
          /\ s.state = "queued" => r.attempt < MaxAttempts
      BY <1>3, RequeuedRow
    <2>4. CASE s.state = "queued"
      BY <1>3, <2>1, <2>2, <2>3, <2>4, Phases DEF ContractMove
    <2>5. CASE s.state = "dead-letter"
      BY <1>3, <2>1, <2>2, <2>5, Phases DEF ContractMove, Terminal
    <2> QED
      BY <2>3, <2>4, <2>5
  <1> QED
    BY <1>1, <1>2, <1>3 DEF Kept

LEMMA SettledContract ==
  ASSUME NEW r \in Job, RowOK(r), NEW s, Settled(r, s)
  PROVE  ContractMove(r, s)
  <1>1. CASE /\ r.state \in Leased
             /\ s = Unleased([r EXCEPT !.state = "succeeded", !.result = r.fencingEpoch])
    <2>1. /\ s.state = "succeeded" /\ s.attempt = r.attempt
          /\ s.result = r.fencingEpoch /\ r.fencingEpoch = r.attempt
      BY <1>1 DEF Unleased, Job, RowOK
    <2> QED
      BY <1>1, <2>1, Phases DEF ContractMove, Terminal
  <1>2. CASE \/ r.state = "queued" /\ s = [r EXCEPT !.state = "failed"]
             \/ r.state \in Active /\ s = Unleased([r EXCEPT !.state = "cancelled"])
    <2>1. /\ s.state \in {"failed", "cancelled"} /\ s.attempt = r.attempt
          /\ s.result = r.result
      BY <1>2 DEF Unleased, Job
    <2>2. r.state \in Active /\ r.result = 0
      BY <1>2 DEF Active, Leased, RowOK
    <2>3. PhaseOf(r.state) \in {"open", "held"} /\ PhaseOf(s.state) = "closed"
      BY <2>1, <2>2, Phases DEF Active, Terminal
    <2> QED
      BY <2>1, <2>2, <2>3 DEF ContractMove
  <1> QED
    BY <1>1, <1>2 DEF Settled

LEMMA RemovedContract ==
  ASSUME NEW r \in Job, RowOK(r), NEW s, Removed(r, s)
  PROVE  ContractMove(r, s)
  <1>1. CASE r.state \in Stored /\ s = Deleted
    <2>1. PhaseOf(r.state) \in {"open", "held", "closed"}
      BY <1>1, Phases DEF Stored, Active
    <2>2. s.state = "deleted" /\ s.attempt = 0 /\ s.result = 0
      BY <1>1 DEF Deleted, NoJob
    <2> QED
      BY <2>1, <2>2, Phases DEF ContractMove
  <1>2. CASE r.state \in Terminal /\ s = Minimised(r)
    <2>1. s.state = r.state /\ s.attempt = r.attempt /\ s.result = 0
      BY <1>2 DEF Minimised, Job
    <2> QED
      BY <1>2, <2>1, Phases DEF ContractMove
  <1> QED
    BY <1>1, <1>2 DEF Removed

LEMMA TakenContract ==
  ASSUME NEW r \in Job, RowOK(r), NEW s, NEW w \in Worker, Taken(r, s, w)
  PROVE  ContractMove(r, s)
  <1>1. r.state \in Active /\ s.state = "leased"
    BY TakenRow
  <1>2. r.attempt \in Nat /\ r.result = 0
    BY <1>1 DEF Job, RowOK, Active, Leased
  <1>3. s.attempt = r.attempt + 1 /\ s.result = r.result /\ r.attempt < MaxAttempts
    <2>1. CASE r.state = "queued" /\ s = Granted(r, w)
      BY <2>1 DEF Granted, Job, RowOK
    <2>2. CASE r.attempt < MaxAttempts /\ s = Granted(Requeued(r), w)
      BY <2>2 DEF Granted, Requeued, Unleased, Job
    <2> QED
      BY <2>1, <2>2 DEF Taken
  <1>4. PhaseOf(r.state) \in {"open", "held"} /\ PhaseOf(s.state) = "held"
    BY <1>1, Phases DEF Active, Leased
  <1> QED
    BY <1>2, <1>3, <1>4 DEF ContractMove

LEMMA FailContract ==
  ASSUME NEW r \in Job, RowOK(r), NEW s, NEW b \in BOOLEAN, FailMove(r, s, b)
  PROVE  ContractMove(r, s)
  <1>1. /\ s.attempt = r.attempt /\ s.result = r.result /\ r.attempt \in Nat
        /\ s.state = FailedState(r, b) /\ r.state \in Leased
    BY DEF FailMove, Unleased, Job
  <1>2. r.result = 0
    BY <1>1 DEF RowOK, Leased
  <1>3. \/ s.state = "queued" /\ r.attempt < MaxAttempts
        \/ s.state \in {"failed", "dead-letter"}
    BY <1>1 DEF FailedState
  <1>4. PhaseOf(r.state) = "held"
    BY <1>1, Phases
  <1>5. CASE s.state = "queued" /\ r.attempt < MaxAttempts
    BY <1>1, <1>2, <1>4, <1>5, Phases DEF ContractMove
  <1>6. CASE s.state \in {"failed", "dead-letter"}
    <2>1. PhaseOf(s.state) = "closed"
      BY <1>6, Phases DEF Terminal
    <2> QED
      BY <1>1, <1>2, <1>4, <2>1 DEF ContractMove
  <1> QED
    BY <1>3, <1>5, <1>6

LEMMA StepContract ==
  ASSUME IInv, [Next]_vars, NEW j \in JobId
  PROVE  ContractMove(job[j], job'[j])
  <1>0. job[j] \in Job /\ RowOK(job[j])
    BY DEF IInv, TypeOK
  <1>1. CASE job'[j] = job[j]
    BY <1>1 DEF ContractMove
  <1>2. CASE AllChange
    <2>1. Change(job[j], job'[j])
      BY <1>2 DEF AllChange
    <2> QED
      BY <1>0, <2>1, KeptContract, SettledContract, RemovedContract, TakenContract
      DEF Change
  <1>3. ASSUME NEW r \in Request, CreateInsert(r), job'[j] # job[j]
        PROVE  ContractMove(job[j], job'[j])
    <2>0. job[j] = NoJob /\ Birth(job'[j], r)
      BY <1>3, InsertRow DEF IInv
    <2>1. /\ job[j].state = "none" /\ job'[j].state = "queued"
          /\ job'[j].attempt = 0 /\ job'[j].result = 0
      BY <2>0 DEF Birth, NoJob
    <2> QED
      BY <2>1, Phases DEF ContractMove
  <1>4. ASSUME NEW w \in Worker, Fail(w), ~UNCHANGED job, job'[j] # job[j]
        PROVE  ContractMove(job[j], job'[j])
    <2>1. PICK s : /\ job' = [job EXCEPT ![lease[w].job] = s]
                   /\ FailMove(job[lease[w].job], s, pc[w] = "retrying")
      BY <1>4, FailChanges DEF IInv
    <2>2. lease[w].job = j /\ job'[j] = s
      BY <1>4, <2>1 DEF IInv, TypeOK
    <2>3. (pc[w] = "retrying") \in BOOLEAN
      OBVIOUS
    <2> QED
      BY <1>0, <2>1, <2>2, <2>3, FailContract
  <1> QED
    BY <1>1, <1>2, <1>3, <1>4, StepKinds DEF IInv

\* The execution-job service, with its storage, crashes and workers, implements
\* the contract its requesters rely on.
THEOREM Refinement == Spec => ImplementsContract
  <1>1. Init => Contract!Init
    BY Phases DEF Init, Contract!Init, NoJob
  <1>2. IInv /\ IInv' /\ [Next]_vars => [Contract!Next /\ Contract!Shape]_Contract!vars
    <2> SUFFICES ASSUME IInv, IInv', [Next]_vars
                 PROVE  Contract!Next /\ Contract!Shape
      OBVIOUS
    <2>1. \A j \in JobId : /\ job'[j] \in Job
                           /\ job'[j].attempt \in Nat /\ job'[j].result \in Nat
                           /\ PhaseOf(job'[j].state) \in Contract!Phases
      <3> TAKE j \in JobId
      <3>1. job'[j] \in Job
        BY DEF IInv, TypeOK
      <3>2. job'[j].state \in {"none", "deleted", "queued"} \cup Leased \cup Terminal
        BY <3>1 DEF Job, Stored, Active
      <3>3. PhaseOf(job'[j].state) \in Contract!Phases
        BY <3>2, Phases DEF Contract!Phases
      <3> QED
        BY <3>1, <3>3 DEF Job
    <2>2. Contract!Shape
      BY <2>1 DEF Contract!Shape
    <2>3. ASSUME NEW j \in JobId PROVE Contract!Move(j)
      <3>1. ContractMove(job[j], job'[j])
        BY StepContract
      <3> QED
        BY <3>1 DEF ContractMove, Contract!Move, Contract!Stay, Contract!Open,
           Contract!Hold, Contract!Release, Contract!Abandon, Contract!Complete,
           Contract!Minimise, Contract!Forget, Contract!Becomes
    <2> QED
      BY <2>2, <2>3 DEF Contract!Next
  <1> QED
    BY <1>1, <1>2, Invariance, PTL DEF Spec, ImplementsContract, Contract!Spec

-----------------------------------------------------------------------------
(* Metering before work. *)

\* A job that waits or is worked on, or ever was, is metered or awaits its bill.
Billed ==
    \A j \in JobId : (job[j].state \in Active \/ job[j].attempt > 0) =>
        j = pendingBill \/ \E e \in ledger : e.job = j

LEMMA ActivePhases ==
  ASSUME NEW r \in Job
  PROVE  (r.state \in Active) <=> (PhaseOf(r.state) \in {"open", "held"})
  <1>1. r.state \in {"none", "deleted", "queued"} \cup Leased \cup Terminal
    BY DEF Job, Stored, Active
  <1>2. CASE r.state \in {"none", "deleted"}
    BY <1>2, Phases DEF Active, Leased
  <1>3. CASE r.state \in Terminal
    BY <1>3, Phases DEF Active, Leased, Terminal
  <1>4. CASE r.state \in {"queued"} \cup Leased
    BY <1>4, Phases DEF Active
  <1> QED
    BY <1>1, <1>2, <1>3, <1>4

\* Only an insertion makes a job one that may be worked on.
LEMMA NothingRevives ==
  ASSUME IInv, [Next]_vars, ~ \E r \in Request : CreateInsert(r), NEW j \in JobId,
         job'[j].state \in Active \/ job'[j].attempt > 0
  PROVE  job[j].state \in Active \/ job[j].attempt > 0
  <1>1. job[j] \in Job /\ job'[j] \in Job /\ Evolves(job[j], job'[j])
    BY StepEvolves DEF IInv, TypeOK
  <1>2. ContractMove(job[j], job'[j])
    BY StepContract
  <1>3. job[j].attempt \in Nat
    BY <1>1 DEF Job
  <1> SUFFICES ASSUME job[j].state \notin Active, job[j].attempt = 0 PROVE FALSE
    BY <1>3
  <1>4. PhaseOf(job[j].state) \notin {"open", "held"}
    BY <1>1, ActivePhases
  <1>5. \/ PhaseOf(job'[j].state) = PhaseOf(job[j].state) /\ job'[j].attempt = 0
        \/ PhaseOf(job[j].state) = "unborn" /\ PhaseOf(job'[j].state) = "open"
        \/ PhaseOf(job'[j].state) = "gone" /\ job'[j].attempt = 0
    BY <1>2, <1>4 DEF ContractMove
  <1>6. CASE PhaseOf(job[j].state) = "unborn" /\ PhaseOf(job'[j].state) = "open"
    <2>1. job[j].state = "none"
      <3>1. job[j].state \in {"none", "deleted", "queued"} \cup Leased \cup Terminal
        BY <1>1 DEF Job, Stored, Active
      <3> QED
        BY <1>6, <3>1, Phases
    <2> QED
      BY <1>1, <1>6, <2>1, Phases DEF Evolves
  <1>7. CASE \/ PhaseOf(job'[j].state) = PhaseOf(job[j].state) /\ job'[j].attempt = 0
             \/ PhaseOf(job'[j].state) = "gone" /\ job'[j].attempt = 0
    <2>1. job'[j].state \notin Active
      BY <1>1, <1>4, <1>7, ActivePhases
    <2> QED
      BY <1>7, <2>1
  <1> QED
    BY <1>5, <1>6, <1>7

LEMMA BilledStep ==
  ASSUME IInv, Billed, [Next]_vars, ~CreateCrash
  PROVE  Billed'
  <1> SUFFICES ASSUME NEW j \in JobId, job'[j].state \in Active \/ job'[j].attempt > 0
               PROVE  j = pendingBill' \/ \E e \in ledger' : e.job = j
    BY DEF Billed
  <1>1. ASSUME NEW r \in Request, CreateInsert(r)
        PROVE  j = pendingBill' \/ \E e \in ledger' : e.job = j
    <2>1. /\ pendingBill = NoId /\ pendingBill' = issued + 1 /\ ledger' = ledger
          /\ j # issued + 1 => job'[j] = job[j]
      BY <1>1, InsertRow DEF CreateInsert, ServiceIdle, IInv
    <2>2. j # NoId
      BY DEF JobId, NoId
    <2> QED
      BY <2>1, <2>2 DEF Billed
  <1>2. CASE ~ \E r \in Request : CreateInsert(r)
    <2>1. j = pendingBill \/ \E e \in ledger : e.job = j
      BY <1>2, NothingRevives DEF Billed
    <2>2. ledger \subseteq ledger'
      BY <1>2 DEF Next, CreateConsume, CreateRefused, CreateCrash, LeaseExpires, Cancel,
         CheckHealth, Claim, ClaimNothing, Heartbeat, ProviderFails, Succeed, Fail, WorkerCrash,
         EraseAccount, RetentionSweep, serviceVars, vars
    <2>3. CASE j = pendingBill /\ CreateConsume
      <3>1. PICK e : e.job = pendingBill /\ e \in ledger'
        BY <2>3 DEF CreateConsume
      <3> QED
        BY <2>3, <3>1
    <2>4. CASE j = pendingBill /\ CreateRefused
      <3>1. job'[j].state = "failed" /\ job'[j].attempt = 0
        BY <2>4 DEF CreateRefused, IInv, Births, TypeOK, Job
      <3> QED
        BY <3>1 DEF Active, Leased
    <2>5. CASE j = pendingBill /\ ~CreateConsume /\ ~CreateRefused
      <3>1. j # NoId
        BY DEF JobId, NoId
      <3>2. pendingBill' = pendingBill
        BY <1>2, <2>5, <3>1 DEF ServiceIdle, Next, LeaseExpires, Cancel, Claim, ClaimNothing,
           CheckHealth, Heartbeat, ProviderFails, Succeed, Fail, WorkerCrash, EraseAccount,
           RetentionSweep, serviceVars, vars
      <3> QED
        BY <2>5, <3>2
    <2> QED
      BY <2>1, <2>2, <2>3, <2>4, <2>5
  <1> QED
    BY <1>1, <1>2

\* While the service does not die between create's two transactions, no job is
\* attempted that was not metered: that crash is the only way to the violation of
\* AttemptedWasMetered.
THEOREM OnlyACrashLeavesUnmetered == Spec /\ [][~CreateCrash]_vars => []AttemptedWasMetered
  <1>1. Init => Billed
    BY DEF Init, Billed, NoJob, Active, Leased
  <1>2. IInv /\ Billed => AttemptedWasMetered
    BY DEF IInv, Births, Billed, AttemptedWasMetered, ServiceIdle, JobId, NoId
  <1>3. IInv /\ Billed /\ [Next]_vars /\ [~CreateCrash]_vars => Billed'
    <2>1. ASSUME UNCHANGED vars, Billed PROVE Billed'
      BY <2>1 DEF vars, Billed
    <2> QED
      BY <2>1, BilledStep
  <1> QED
    BY <1>1, <1>2, <1>3, Invariance, PTL DEF Spec

-----------------------------------------------------------------------------
(* The sweep. *)

\* What a tenant retains in a lane, finished or not.
Retained(t, k) == {j \in JobId : InLane(j, t, k)}

\* A poll that finds no work leaves no expired lease in its lane, of any of its tenants
\* that retains no more jobs there than the scan reads, however many the others retain:
\* it takes the limit to strand one (ExpiredLeaseIsSwept).
THEOREM PollSweeps ==
    Spec => [][\A w \in Worker : ClaimNothing(w) =>
                 \A j \in JobId :
                   /\ job[j].req.tenant \in Profile[w].tenants
                   /\ job[j].req.lane = Profile[w].lane
                   /\ Cardinality(Retained(job[j].req.tenant, Profile[w].lane)) <= ScanLimit
                   => ~(job'[j].state \in Leased /\ job'[j].expired)]_vars
  <1> DEFINE Clean == \A w \in Worker : ClaimNothing(w) =>
                 \A j \in JobId :
                   /\ job[j].req.tenant \in Profile[w].tenants
                   /\ job[j].req.lane = Profile[w].lane
                   /\ Cardinality(Retained(job[j].req.tenant, Profile[w].lane)) <= ScanLimit
                   => ~(job'[j].state \in Leased /\ job'[j].expired)
  <1>1. ASSUME IInv, NEW w \in Worker, ClaimNothing(w), NEW j \in JobId,
               job[j].req.tenant \in Profile[w].tenants, job[j].req.lane = Profile[w].lane,
               Cardinality(Retained(job[j].req.tenant, Profile[w].lane)) <= ScanLimit
        PROVE  ~(job'[j].state \in Leased /\ job'[j].expired)
    <2> DEFINE t == job[j].req.tenant
               k == Profile[w].lane
               older == {i \in JobId : InLane(i, t, k) /\ i < j}
    <2>1. job' = Swept(ActiveTenants(w), k)
      BY <1>1 DEF ClaimNothing
    <2>2. CASE ~Expired(j)
      <3>1. job'[j] = job[j]
        BY <2>1, <2>2 DEF Swept
      <3> QED
        BY <2>2, <3>1 DEF Expired
    <2>3. CASE Expired(j)
      <3>1. InLane(j, t, k) /\ t \in ActiveTenants(w)
        BY <1>1, <2>3 DEF InLane, ActiveTenants, Expired, Stored, Active
      <3>2. Cardinality(older) < ScanLimit
        <4> DEFINE all == Retained(t, k)
        <4>1. older \subseteq all /\ j \in all /\ j \notin older
          BY <3>1 DEF JobId, Retained
        <4>2. IsFiniteSet(all)
          <5>1. IsFiniteSet(JobId)
            BY BoundsAssumption, FS_Interval DEF JobId
          <5> QED
            BY <5>1, FS_Subset DEF Retained
        <4>3. Cardinality(all) <= ScanLimit
          BY <1>1
        <4> HIDE DEF older, all
        <4>4. /\ IsFiniteSet(older) /\ Cardinality(older) <= Cardinality(all)
              /\ Cardinality(older) # Cardinality(all)
          BY <4>1, <4>2, FS_Subset
        <4>5. Cardinality(older) \in Nat /\ Cardinality(all) \in Nat
          BY <4>2, <4>4, FS_CardinalityType
        <4> QED
          BY <4>3, <4>4, <4>5, BoundsAssumption
      <3>3. j \in Scanned(t, k)
        BY <3>1, <3>2 DEF Scanned
      <3>4. job'[j] = Requeued(job[j])
        BY <2>1, <2>3, <3>1, <3>3 DEF Swept
      <3>5. Requeued(job[j]).state \notin Leased
        BY <1>1, <2>3, RequeuedRow DEF IInv, TypeOK, Expired, Leased
      <3> QED
        BY <3>4, <3>5
    <2> QED
      BY <2>2, <2>3
  <1>2. IInv /\ [Next]_vars => [Clean]_vars
    BY <1>1
  <1> QED
    BY <1>2, Invariance, PTL DEF Spec

=============================================================================
