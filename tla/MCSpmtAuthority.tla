--------------------------- MODULE MCSpmtAuthority ---------------------------
(* Model-checking instances of the authorities SPMT runs in one process and    *)
(* one store: provider credentials, the XP ledger with StreamWeaver's rewards  *)
(* over it, the outbox, the sign-in tokens and a device with its commands.     *)
(* But for rewards and ledger they share no state, so each behaviour runs one  *)
(* part of them and leaves the others in their initial states.                 *)
EXTENDS ProviderCredentials, StreamRewards, EventOutbox, HumanSessions, DeviceCommands

CONSTANTS w1, w2, u1, u2, k1, r1, r2, e1, e2, h1, h2, ka, ca, cb, pa, pb

MCCall == {<<w1, 1>>, <<w1, 2>>, <<w2, 1>>}
MCRawKey == {<<k1, "">>, <<k1, "credit">>, <<k1, "growth">>, <<r1, "">>}
MCAward == {30, -10}
MCReward == {[price |-> 3, award |-> 2, first |-> TRUE]}

\* The awards beside the rewards are among the ledger's; its own key is no redemption's.
ASSUME PartsAssumption ==
    /\ {<<k1, "">>, <<r1, "">>} \subseteq RawKey /\ 30 \in Award
    /\ k1 \notin RewardRequest

VARIABLE part

Part == {"credentials", "ledger", "rewards", "fan-out", "batch", "family", "service", "devices"}

vars == <<part, credentialVars, allRewardVars, outboxVars, sessionVars, deviceVars>>

Init ==
    /\ part \in Part
    /\ CredentialInit /\ LedgerInit /\ RewardInit /\ OutboxInit /\ SessionInit
    /\ DeviceInit
    /\ service.credential = ca /\ service.policy = pa /\ rotationKey = ka

\* The calls of a process are alike: its second starts only beside its first.  The
\* first link can be refreshed, until its grant ends; only its tokens are rotated, and
\* only its grant ends.
Credentials ==
    /\ part = "credentials" /\ CredentialNext
    /\ links = 0 /\ links' = 1 => grant'[1].renewable
    /\ links = 2 => grant'[2] = grant[2]
    /\ InFlight(<<w1, 1>>) \/ call'[<<w1, 2>>] \in {call[<<w1, 2>>], Idle}
    /\ UNCHANGED <<part, allRewardVars, outboxVars, sessionVars, deviceVars>>

\* Every ledger operation, under one key.
Ledger ==
    /\ part = "ledger" /\ LedgerNext
    /\ \A k \in XpKey : k[1] # k1 => xp'[k] = xp[k]
    /\ \A r \in {r1, r2}, kind \in {"transfer", "gamble"} :
         settled'[<<kind, r>>] = settled[<<kind, r>>]
    /\ UNCHANGED <<part, rewardVars, credentialVars, outboxVars, sessionVars, deviceVars>>

\* Redemptions of two users, while another app makes awards, one under a key of theirs.
Rewards ==
    /\ part = "rewards"
    /\ \/ RewardStep
       \/ /\ \E k \in {<<k1, "">>, <<r1, "">>}, u \in XpUser : AwardXp(k, u, 30, TRUE)
          /\ UNCHANGED rewardVars
    /\ \A r \in {r1, r2} : Opened(r)' => receipt'[r].user = IF r = r1 THEN u1 ELSE u2
    /\ UNCHANGED <<part, credentialVars, outboxVars, sessionVars, deviceVars>>

\* One event and webhooks that come and go; or two events in a batch, and webhooks
\* registered before them.
Outbox ==
    /\ part \in {"fan-out", "batch"} /\ OutboxNext
    /\ part = "fan-out" => record'[e2].state = "none"
    /\ part = "batch" => hooks'[h2] = "none" /\ (hooks' # hooks => row[e1] + row[e2] = 0)
    /\ UNCHANGED <<part, credentialVars, allRewardVars, sessionVars, deviceVars>>

Sessions ==
    /\ \/ part = "family" /\ FamilyNext
       \/ part = "service" /\ ServiceNext
    /\ UNCHANGED <<part, credentialVars, allRewardVars, outboxVars, deviceVars>>

\* The device is paired by a code, or directly; then a command, and beside one whose grant
\* was replaced another of the new grant, after which the owner changes nothing.
Devices ==
    /\ part = "devices" /\ DeviceNext
    /\ command'[1] # NoCommand => codes' = 0
    /\ command'[2] # NoCommand =>
         /\ command'[2].by = "service" /\ command'[2].grant = 2 /\ command'[1].grant = 1
         /\ permissionVars' = permissionVars
    /\ UNCHANGED <<part, credentialVars, allRewardVars, outboxVars, sessionVars>>

Next == Credentials \/ Ledger \/ Rewards \/ Outbox \/ Sessions \/ Devices

Spec == Init /\ [][Next]_vars /\ CredentialFairness

\* Every part's state is of its type.
TypeOK ==
    /\ CredentialTypeOK /\ LedgerTypeOK /\ RewardTypeOK /\ OutboxTypeOK /\ SessionTypeOK
    /\ DeviceTypeOK

=============================================================================
