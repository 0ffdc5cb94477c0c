--------------------------- MODULE MCExecutionJobs ---------------------------
(* Model-checking instance of ExecutionJobs: two tenants, two worker         *)
(* processes that share a workerId (a restarted worker whose predecessor is  *)
(* still running), and three requests, two of which reuse one idempotency    *)
(* key with different input.                                                 *)
EXTENDS ExecutionJobsContract

CONSTANTS t1, t2, a1, a2, k1, k2, chat, speech, sprite, w1, w2, stellar

First == [tenant |-> t1, key |-> k1, account |-> a1, lane |-> sprite,
          capability |-> chat, quantity |-> 1]
Reused == [First EXCEPT !.capability = speech]
Second == [First EXCEPT !.key = k2]
Other == [tenant |-> t2, key |-> k2, account |-> a2, lane |-> sprite,
          capability |-> chat, quantity |-> 2]

Spoken == [Second EXCEPT !.capability = speech]

MCRequest == {First, Reused, Other}
OneTenantRequest == {First, Second}
TwoCapabilityRequest == {First, Spoken}

MCProfile ==
    [w \in {w1, w2} |-> [id |-> stellar, lane |-> sprite,
                         capabilities |-> {chat, speech}, tenants |-> {t1, t2}]]

\* Two workers of one lane, each polling for capabilities of its own.
MixedProfile ==
    [MCProfile EXCEPT ![w1].capabilities = {chat, speech}, ![w2].capabilities = {speech}]

MCLimit == [a \in {a1, a2} |-> IF a = a1 THEN 2 ELSE 3]
Unlimited == [a \in {a1, a2} |-> NoLimit]

=============================================================================
