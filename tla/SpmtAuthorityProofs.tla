------------------------- MODULE SpmtAuthorityProofs -------------------------
(***************************************************************************)
(* The authorities together: every step of SPMT is one of each of its      *)
(* parts, or leaves it alone (StepOfParts), so what is proved of a part is *)
(* true of SPMT, and what the proof of a part asks of its surroundings     *)
(* (OnlyRewardsSpend) is shown here of them.                               *)
(***************************************************************************)
EXTENDS MCSpmtAuthority, StreamRewardsProofs, IdentityProofs, PlatformProofs

LEMMA InitOfParts ==
    Init => CredentialInit /\ LedgerInit /\ RewardInit /\ OutboxInit /\ SessionInit /\ DeviceInit
  BY DEF Init

LEMMA StepOfParts ==
    [Next]_vars =>
      /\ [CredentialNext]_credentialVars /\ [RewardNext]_allRewardVars
      /\ [OutboxNext]_outboxVars /\ [SessionNext]_sessionVars /\ [DeviceNext]_deviceVars
  <1> DEFINE Parts == /\ [CredentialNext]_credentialVars /\ [RewardNext]_allRewardVars
                      /\ [OutboxNext]_outboxVars /\ [SessionNext]_sessionVars
                      /\ [DeviceNext]_deviceVars
  <1>1. CASE Credentials
    BY <1>1 DEF Credentials
  <1>2. CASE Ledger
    BY <1>2 DEF Ledger, RewardNext
  <1>3. CASE Rewards
    <2>1. ASSUME NEW k \in {<<k1, "">>, <<r1, "">>}, NEW u \in XpUser, AwardXp(k, u, 30, TRUE)
          PROVE  LedgerNext
      BY <2>1, PartsAssumption DEF LedgerNext
    <2>2. RewardNext
      BY <1>3, <2>1 DEF Rewards, RewardNext
    <2> QED
      BY <1>3, <2>2 DEF Rewards
  <1>4. CASE Outbox
    BY <1>4 DEF Outbox
  <1>5. CASE Sessions
    BY <1>5 DEF Sessions, SessionNext
  <1>6. CASE Devices
    BY <1>6 DEF Devices
  <1>7. CASE UNCHANGED vars
    BY <1>7 DEF vars
  <1> QED
    BY <1>1, <1>2, <1>3, <1>4, <1>5, <1>6, <1>7 DEF Next

\* SPMT is each of its parts: whatever the others do, a part sees only steps of its
\* own, though they share a process and a store.
THEOREM PartsRun ==
    Spec => CredentialSpec /\ RewardSpec /\ OutboxSpec /\ SessionSpec /\ DeviceSpec
  BY InitOfParts, StepOfParts, PTL
     DEF Spec, CredentialSpec, RewardSpec, OutboxSpec, SessionSpec, DeviceSpec

-----------------------------------------------------------------------------
(* What the redemptions ask of the other apps. *)

LEMMA OthersAward ==
    ASSUME RInv, [Next]_vars, NEW r \in RewardRequest
    PROVE  OnlyRewardsSpend(r)
  <1> DEFINE rk == RewardKey(r)
  <1> SUFFICES ASSUME ~Posted(rk), Posted(rk)', xp'[rk].action = "spend", ~RewardStep
               PROVE  FALSE
    BY DEF OnlyRewardsSpend, Posted, RewardKey
  <1>1. Journal(xp) /\ rk \in XpKey /\ xp'[rk] # xp[rk]
    BY RewardKeys DEF RInv, LInv, Posted
  <1>2. CASE Ledger
    BY <1>1, <1>2, PartsAssumption DEF Ledger, RewardKey
  <1>3. ASSUME NEW k \in {<<k1, "">>, <<r1, "">>}, NEW u \in XpUser, AwardXp(k, u, 30, TRUE)
        PROVE  FALSE
    <2> DEFINE e == Event(u, 30, TRUE, "award")
    <2>1. xp' = Post(xp, k, e) /\ e.action = "award"
      BY <1>3 DEF AwardXp, Event
    <2>2. k \in XpKey
      BY PartsAssumption, LedgerAssumption
    <2>3. xp[rk].user = NoXpUser /\ xp'[rk].action = "spend"
      BY DEF Posted
    <2> HIDE DEF e, rk
    <2>4. k # rk => xp'[rk] = xp[rk]
      BY <1>1, <2>1 DEF Post, Journal
    <2>5. k = rk => xp'[rk] = e
      BY <1>1, <2>1, <2>2, <2>3, PostFills
    <2> QED
      BY <1>1, <2>1, <2>3, <2>4, <2>5
  <1>4. CASE UNCHANGED allRewardVars
    BY <1>1, <1>4 DEF allRewardVars, ledgerVars
  <1> QED
    BY <1>2, <1>3, <1>4
       DEF Next, vars, Credentials, Rewards, Outbox, Sessions, Devices

LEMMA OthersSpendElsewhere ==
    Spec => [][\A r \in RewardRequest : OnlyRewardsSpend(r)]_allRewardVars
  <1> DEFINE Only == \A r \in RewardRequest : OnlyRewardsSpend(r)
  <1>1. RInv /\ [Next]_vars => [Only]_allRewardVars
    BY OthersAward
  <1> HIDE DEF Only
  <1>2. Spec => [][Only]_allRewardVars
    BY <1>1, PartsRun, RewardInvariance, PTL DEF Spec
  <1> QED
    BY <1>2 DEF Only

-----------------------------------------------------------------------------
(* Theorems. *)

\* Every part's state keeps its type.
THEOREM SpmtTyped == Spec => []TypeOK
  <1>1. CredentialTypeOK /\ LedgerTypeOK /\ RewardTypeOK /\ OutboxTypeOK
        /\ SessionTypeOK /\ DeviceTypeOK => TypeOK
    BY DEF TypeOK
  <1> QED
    BY <1>1, PartsRun, CredentialTypeCorrect, RewardsTyped, OutboxTypeCorrect,
       SessionTypeCorrect, DeviceTypeCorrect, PTL

\* Nothing but a redemption's own quote is charged under its key: the hypothesis of
\* ChargesMatch is true of the apps SPMT runs beside the rewards.
THEOREM SpmtCharges == Spec => []ChargesMatchReceipts
  BY PartsRun, OthersSpendElsewhere, ChargesMatch, PTL

\* And a redemption is rejected and charged only by payments of its that overlap.
THEOREM SpmtRejections == Spec /\ []OnePaymentAtATime => []RejectedWasNotCharged
  BY PartsRun, OthersSpendElsewhere, OnlyOverlapChargesRejected, PTL

\* What is proved of the parts holds of SPMT, state by state.
THEOREM SpmtSafe ==
    Spec => [](/\ SettlementsAreBooked /\ LocalWalletBalances /\ OneFirstPerStream
               /\ DeliveredReachedAll /\ OwnerKeepsUp /\ ServiceAccessIsCurrent
               /\ SucceededWasApplied)
  <1>1. RInv => SettlementsAreBooked
    BY DEF RInv, LInv, TransferBooked, GambleBooked, SettlementsAreBooked
  <1> QED
    BY <1>1, PartsRun, RewardInvariance, WalletsBalance, FirstIsOne, DeliveredToAll,
       OwnersKeepUp, ServiceAccessCurrent, SucceededApplied, PTL

\* And step by step.
THEOREM SpmtSteps ==
    Spec => /\ WithdrawnUntilLinked /\ LateAnswersAreFenced /\ NeverOverdrawn
            /\ ImplementsPromise /\ RevokedOnlyByReplay /\ WithdrawnGoesNoFurther
            /\ NotAppliedAgain
  BY PartsRun, WithdrawnStays, LateAnswersFenced, NobodyOverdrawn, PromiseKept,
     RevokedByReplayOnly, WithdrawnStop, ReceiptsEndIt

=============================================================================
