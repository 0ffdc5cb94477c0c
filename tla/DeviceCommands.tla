---------------------------- MODULE DeviceCommands ----------------------------
(***************************************************************************)
(* A person's Companion device: its pairing and the owner's automation     *)
(* grants in SPMT (packages/platform-data-core), the commands apps and the *)
(* owner queue for it as execution jobs (packages/platform-ops), and the   *)
(* Companion that claims them and drives a local adapter (apps/companion). *)
(*                                                                         *)
(* The owner may withdraw a grant, give it anew, pair the device again or  *)
(* revoke it at any moment; the Companion asks SPMT whether it may go on   *)
(* at its claim, at its heartbeat and at its report, and may die, or lose  *)
(* an answer, between any two of its steps.                                *)
(*                                                                         *)
(* Abstractions.  One tenant, one device, its owner.  Commands are         *)
(* numbered in the order of their creation, and each has an idempotency    *)
(* key of its own (both apps that make them use the request's id), so a    *)
(* repeated request finds the command it made and changes nothing.  The    *)
(* jobs are those of ExecutionJobs below its scan limits; their metering,  *)
(* which is free for a Companion, and their retention are left out.  A     *)
(* lease is named by the attempt that took it, and may expire at any       *)
(* moment.  The device has every capability, the Companion's own           *)
(* registration only those of LocalAction; a payload is always valid.      *)
(***************************************************************************)
EXTENDS Naturals

CONSTANTS
    DeviceApp,     \* apps that may be installed in the tenant
    DeviceAction,  \* DEVICE_AUTOMATION_ACTIONS
    LocalAction,   \* those whose capability the Companion registered locally
    MaxCommands,   \* bound: commands queued
    MaxTries,      \* maximumAttempts
    MaxGrants,     \* bound: automation grants given
    MaxCodes       \* bound: pairing codes not used yet

ASSUME DeviceAssumption ==
    /\ LocalAction \subseteq DeviceAction
    /\ MaxCommands \in Nat /\ MaxTries \in Nat \ {0} /\ MaxGrants \in Nat /\ MaxCodes \in Nat

VARIABLES
    device,      \* the paired_devices row: none, or revokedAt
    automation,  \* its automationGrants, by app
    grants,      \* grant ids given so far
    enabled,     \* apps whose install is enabled
    codes,       \* device_bootstraps neither used nor expired
    identity,    \* the service identity companion:<deviceId>
    command,     \* the execution jobs
    withdrawn,   \* history: the owner has since withdrawn what a command rests on
    companion,   \* the Companion's process
    saved,       \* its saved pairing
    receipts,    \* companion_receipts, by command
    applied      \* how often the adapter carried a command out

permissionVars == <<device, automation, grants, enabled, codes, identity>>
localVars == <<saved, receipts, applied>>
deviceVars == <<permissionVars, command, withdrawn, companion, localVars>>

Commands == 1..MaxCommands

AutomationGrant == [id: Nat, actions: SUBSET DeviceAction]
NotGranted == [id |-> 0, actions |-> {}]

\* by is requestedByType; grant the deviceAutomationGrantId of a service's command;
\* live says that the lease has not expired.
Command == [state: {"queued", "leased", "running", "succeeded", "failed", "dead-letter",
                    "cancelled"},
            app: DeviceApp, by: {"user", "service"}, action: DeviceAction,
            grant: Nat, try: 0..MaxTries, live: BOOLEAN]
NoCommand == [state |-> "none"]

\* What the process is about to do with the command it claimed.
Stage == {"down", "idle", "claimed", "dispatching", "adapting", "applied", "reporting",
          "failing"}
Companion == [at: Stage, id: 0..MaxCommands, try: 0..MaxTries, retryable: BOOLEAN]
At(stage) == [at |-> stage, id |-> 0, try |-> 0, retryable |-> FALSE]

DeviceTypeOK ==
    /\ device \in {"none", "paired", "revoked"}
    /\ automation \in [DeviceApp -> AutomationGrant]
    /\ grants \in Nat /\ codes \in Nat
    /\ enabled \subseteq DeviceApp
    /\ identity \in {"none", "live", "revoked"}
    /\ command \in [Commands -> Command \cup {NoCommand}]
    /\ withdrawn \in [Commands -> BOOLEAN]
    /\ companion \in Companion
    /\ saved \in BOOLEAN
    /\ receipts \in [Commands -> {"none", "completed", "rejected"}]
    /\ applied \in [Commands -> Nat]

DeviceInit ==
    /\ device = "none" /\ identity = "none" /\ codes = 0
    /\ automation = [a \in DeviceApp |-> NotGranted] /\ grants = 0
    /\ enabled = {}
    /\ command = [c \in Commands |-> NoCommand]
    /\ withdrawn = [c \in Commands |-> FALSE]
    /\ companion = At("down") /\ saved = FALSE
    /\ receipts = [c \in Commands |-> "none"]
    /\ applied = [c \in Commands |-> 0]

-----------------------------------------------------------------------------
(* What the owner does. *)

\* What a service's commands rest on is noted as withdrawn once their grant is not the
\* app's any more.
NoteWithdrawals ==
    withdrawn' = [c \in Commands |->
        \/ withdrawn[c]
        \/ /\ command[c] # NoCommand /\ command[c].by = "service"
           /\ automation'[command[c].app].id # command[c].grant]

\* pairDevice writes the row anew, without the grants of the one it replaces.
Pair ==
    /\ device # "revoked"
    /\ device' = "paired"
    /\ automation' = [a \in DeviceApp |-> NotGranted]
    /\ NoteWithdrawals

PairDevice == Pair /\ UNCHANGED <<grants, enabled, codes, identity, command, companion, localVars>>

CreateDeviceBootstrap ==
    /\ codes < MaxCodes
    /\ codes' = codes + 1
    /\ UNCHANGED <<device, automation, grants, enabled, identity, command, withdrawn, companion,
                   localVars>>

\* A code expires, or it is used up by an exchange that does not get to the pairing: the
\* device is revoked, or SPMT dies between the two transactions.
BootstrapEnds ==
    /\ codes > 0
    /\ codes' = codes - 1
    /\ UNCHANGED <<device, automation, grants, enabled, identity, command, withdrawn, companion,
                   localVars>>

\* exchangeDeviceBootstrap: the code is used up, the device paired, its identity
\* registered and its credential answered.  It ends after the pairing when there is such
\* an identity already, or SPMT dies; the answer may be lost.
ExchangeDeviceBootstrap ==
    /\ codes > 0
    /\ codes' = codes - 1
    /\ Pair
    /\ \/ UNCHANGED <<identity, saved>>
       \/ identity = "none" /\ identity' = "live" /\ saved' \in BOOLEAN
    /\ UNCHANGED <<grants, enabled, command, companion, receipts, applied>>

\* Every change of an app's actions gives it another grant.
SetDeviceAutomation(a, actions) ==
    /\ a \in enabled /\ device = "paired"
    /\ actions # automation[a].actions
    /\ IF actions = {}
       THEN automation' = [automation EXCEPT ![a] = NotGranted] /\ UNCHANGED grants
       ELSE /\ grants < MaxGrants
            /\ grants' = grants + 1
            /\ automation' = [automation EXCEPT ![a] = [id |-> grants + 1, actions |-> actions]]
    /\ NoteWithdrawals
    /\ UNCHANGED <<device, enabled, codes, identity, command, companion, localVars>>

\* revokeDevice, two transactions: SPMT may die after the first.
RevokeDevice ==
    /\ device # "none"
    /\ device' = "revoked"
    /\ identity' \in {identity, IF identity = "live" THEN "revoked" ELSE identity}
    /\ withdrawn' = [c \in Commands |-> withdrawn[c] \/ command[c] # NoCommand]
    /\ UNCHANGED <<automation, grants, enabled, codes, command, companion, localVars>>

\* installApp and disableApp
SetInstalled(a) ==
    /\ enabled' \in {enabled \cup {a}, enabled \ {a}}
    /\ UNCHANGED <<device, automation, grants, codes, identity, command, withdrawn, companion,
                   localVars>>

-----------------------------------------------------------------------------
(* Jobs that carry commands. *)

\* authorizeDeviceJob
MayRequest(a, by, action) ==
    /\ a \in enabled /\ device = "paired"
    /\ by = "service" => action \in automation[a].actions

\* As if a command went by its app's grant of the day.
AuthorizedByApp(job) ==
    /\ job.app \in enabled /\ device = "paired"
    /\ job.by = "service" => job.action \in automation[job.app].actions

\* companionCanClaim
Authorized(job) ==
    /\ job.app \in enabled /\ device = "paired"
    /\ job.by = "service" =>
         automation[job.app].id = job.grant /\ job.action \in automation[job.app].actions

CreateDeviceJob(a, by, action) ==
    /\ MayRequest(a, by, action)
    /\ \E c \in Commands :
         /\ command[c] = NoCommand /\ \A d \in Commands : d < c => command[d] # NoCommand
         /\ command' = [command EXCEPT ![c] =
                [state |-> "queued", app |-> a, by |-> by, action |-> action, try |-> 0,
                 grant |-> IF by = "service" THEN automation[a].id ELSE 0, live |-> FALSE]]
    /\ UNCHANGED <<permissionVars, withdrawn, companion, localVars>>

Underway(job) == job.state \in {"leased", "running"}

CancelDeviceJob(c) ==
    /\ Underway(command[c]) \/ command[c].state = "queued"
    /\ command' = [command EXCEPT ![c].state = "cancelled", ![c].live = FALSE]
    /\ UNCHANGED <<permissionVars, withdrawn, companion, localVars>>

CommandLeaseExpires(c) ==
    /\ Underway(command[c]) /\ command[c].live
    /\ command' = [command EXCEPT ![c].live = FALSE]
    /\ UNCHANGED <<permissionVars, withdrawn, companion, localVars>>

\* requeueExpired
Swept(job) ==
    IF Underway(job) /\ ~job.live
    THEN [job EXCEPT !.state = IF job.try >= MaxTries THEN "dead-letter" ELSE "queued"]
    ELSE job

\* claimAny for the device: the oldest queued command it is authorized for.
ClaimableCommands == {c \in Commands : Swept(command[c]).state = "queued" /\ Authorized(command[c])}

-----------------------------------------------------------------------------
(* The Companion. *)

RestartCompanion ==
    /\ companion.at = "down" /\ saved
    /\ companion' = At("idle")
    /\ UNCHANGED <<permissionVars, command, withdrawn, localVars>>

\* It is stopped, or a call outside execute, or the report of a failure, is denied or
\* lost, which ends the script.
CompanionEnds ==
    /\ companion.at # "down"
    /\ companion' = At("down")
    /\ UNCHANGED <<permissionVars, command, withdrawn, localVars>>

\* A claim whose answer is lost ends the script.
ClaimCommand ==
    /\ companion.at = "idle" /\ identity = "live"
    /\ IF ClaimableCommands = {}
       THEN /\ command' = [c \in Commands |-> Swept(command[c])]
            /\ UNCHANGED companion
       ELSE \E c \in ClaimableCommands :
              /\ \A d \in ClaimableCommands : c <= d
              /\ command' = [d \in Commands |->
                     IF d = c THEN [command[c] EXCEPT !.state = "leased", !.live = TRUE, !.try = @ + 1]
                              ELSE Swept(command[d])]
              /\ companion' \in {At("down"), [at |-> "claimed", id |-> c, retryable |-> FALSE,
                                              try |-> command[c].try + 1]}
    /\ UNCHANGED <<permissionVars, withdrawn, localVars>>

\* What SPMT demands of a heartbeat and of a report: authorizeWorkerJob and requireLease.
Accepted ==
    LET job == command[companion.id] IN
    /\ identity = "live" /\ Authorized(job)
    /\ Underway(job) /\ job.live /\ job.try = companion.try

Turn(stage) == companion' = [companion EXCEPT !.at = stage]

\* Anything thrown within execute is reported as a failure, retryable only when it is the
\* adapter's: a denied call, and one whose answer is lost, end the command.
Throw(retryable) == companion' = [companion EXCEPT !.at = "failing", !.retryable = retryable]

HeartbeatCommand ==
    /\ companion.at = "claimed" /\ Accepted
    /\ command' = [command EXCEPT ![companion.id].state = "running"]
    /\ Turn("dispatching") \/ Throw(FALSE)
    /\ UNCHANGED <<permissionVars, withdrawn, localVars>>

\* The heartbeat or the report is denied or lost.
CallThrows ==
    /\ companion.at \in {"claimed", "reporting"}
    /\ Throw(FALSE)
    /\ UNCHANGED <<permissionVars, command, withdrawn, localVars>>

\* relay.execute: a stored receipt is the answer.
ReplayReceipt ==
    /\ companion.at = "dispatching" /\ receipts[companion.id] # "none"
    /\ IF receipts[companion.id] = "completed" THEN Turn("reporting") ELSE Throw(FALSE)
    /\ UNCHANGED <<permissionVars, command, withdrawn, localVars>>

RejectCommand ==
    /\ companion.at = "dispatching" /\ receipts[companion.id] = "none"
    /\ command[companion.id].action \notin LocalAction
    /\ receipts' = [receipts EXCEPT ![companion.id] = "rejected"]
    /\ Throw(FALSE)
    /\ UNCHANGED <<permissionVars, command, withdrawn, saved, applied>>

\* As if receipts were not looked up.
CallAdapterAgain ==
    /\ companion.at = "dispatching"
    /\ command[companion.id].action \in LocalAction
    /\ Turn("adapting")
    /\ UNCHANGED <<permissionVars, command, withdrawn, localVars>>

CallAdapter ==
    /\ companion.at = "dispatching" /\ receipts[companion.id] = "none"
    /\ command[companion.id].action \in LocalAction
    /\ Turn("adapting")
    /\ UNCHANGED <<permissionVars, command, withdrawn, localVars>>

AdapterApplies ==
    /\ companion.at = "adapting"
    /\ applied' = [applied EXCEPT ![companion.id] = @ + 1]
    /\ Turn("applied")
    /\ UNCHANGED <<permissionVars, command, withdrawn, saved, receipts>>

\* remember
RememberReceipt ==
    /\ companion.at = "applied"
    /\ receipts' = [receipts EXCEPT ![companion.id] = "completed"]
    /\ Turn("reporting")
    /\ UNCHANGED <<permissionVars, command, withdrawn, saved, applied>>

\* As if an adapter that is unavailable were taken for one that has done its work.
AdapterIgnored ==
    /\ companion.at \in {"adapting", "applied"}
    /\ Turn("reporting")
    /\ UNCHANGED <<permissionVars, command, withdrawn, localVars>>

\* The adapter throws, before or after its effect.
AdapterFails ==
    /\ companion.at \in {"adapting", "applied"}
    /\ Throw(TRUE)
    /\ UNCHANGED <<permissionVars, command, withdrawn, localVars>>

SucceedCommand ==
    /\ companion.at = "reporting" /\ Accepted
    /\ command' = [command EXCEPT ![companion.id].state = "succeeded", ![companion.id].live = FALSE]
    /\ companion' = At("idle") \/ Throw(FALSE)
    /\ UNCHANGED <<permissionVars, withdrawn, localVars>>

FailureState(job) ==
    IF ~companion.retryable THEN "failed" ELSE IF job.try < MaxTries THEN "queued" ELSE "dead-letter"

FailCommand ==
    /\ companion.at = "failing" /\ Accepted
    /\ command' = [command EXCEPT ![companion.id].state = FailureState(command[companion.id]),
                                  ![companion.id].live = FALSE]
    /\ companion' \in {At("idle"), At("down")}
    /\ UNCHANGED <<permissionVars, withdrawn, localVars>>

DeviceNext ==
    \/ PairDevice \/ CreateDeviceBootstrap \/ BootstrapEnds \/ ExchangeDeviceBootstrap
    \/ RevokeDevice
    \/ \E a \in DeviceApp :
         \/ SetInstalled(a)
         \/ \E actions \in SUBSET DeviceAction : SetDeviceAutomation(a, actions)
         \/ \E by \in {"user", "service"}, action \in DeviceAction : CreateDeviceJob(a, by, action)
    \/ \E c \in Commands : CancelDeviceJob(c) \/ CommandLeaseExpires(c)
    \/ RestartCompanion \/ CompanionEnds \/ ClaimCommand
    \/ HeartbeatCommand \/ CallThrows
    \/ ReplayReceipt \/ RejectCommand \/ CallAdapter
    \/ AdapterApplies \/ RememberReceipt \/ AdapterFails
    \/ SucceedCommand \/ FailCommand

DeviceSpec == DeviceInit /\ [][DeviceNext]_deviceVars

-----------------------------------------------------------------------------
(* Properties. *)

\* Once the owner has withdrawn what a command rests on, by withdrawing or changing the
\* grant it was made under, or by pairing the device again or revoking it, the command
\* goes no further in SPMT, whatever is granted afterwards: it is neither claimed nor
\* started nor taken for done.
WithdrawnGoesNoFurther ==
    [][\A c \in Commands :
         withdrawn[c] /\ command'[c].state \in {"leased", "running", "succeeded"} =>
           command'[c].state = command[c].state /\ command'[c].try = command[c].try]_deviceVars

\* A command that succeeded was carried out on the device, and the device has the receipt.
SucceededWasApplied ==
    \A c \in Commands :
      command[c].state = "succeeded" => receipts[c] = "completed" /\ applied[c] > 0

\* A command with a receipt is not carried out again, however often it is claimed anew
\* after a crash or a lost answer.
NotAppliedAgain ==
    [][\A c \in Commands : receipts[c] # "none" => applied'[c] = applied[c]]_deviceVars

\* A command the device has carried out, and has the receipt of, is not reported as one
\* that failed.  It is, when the report of its success is denied or lost: only what the
\* adapter throws is taken for transient, and Throw ends the command.
CarriedOutIsNotFailed ==
    \A c \in Commands : command[c].state = "failed" => receipts[c] # "completed"

=============================================================================
