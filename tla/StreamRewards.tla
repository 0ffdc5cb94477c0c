---------------------------- MODULE StreamRewards ----------------------------
(***************************************************************************)
(* StreamWeaver's redemption of channel rewards (apps/streamweaver/src/    *)
(* reward-runtime.ts) over the XP ledger of SPMT: a local receipt, the     *)
(* lock of a reward that only the first of a stream gets, and a local      *)
(* wallet in one database; the payment in XP in another process, over HTTP.*)
(*                                                                         *)
(* The receipt is written before the payment and settled after it, each in *)
(* a transaction of its own.  Calls of one request overlap when a client   *)
(* retries; a call that gives up, by a time-out or the end of its process, *)
(* may leave a payment under way that still arrives.                       *)
(*                                                                         *)
(* Abstractions.  One stream session.  The quote, which follows both       *)
(* currencies' supply, is any of a set; the confirmed maximum and disabled *)
(* rewards, refused before anything is written, and free rewards are left  *)
(* out, as are the wallet's other movements.                               *)
(***************************************************************************)
EXTENDS XpLedger

CONSTANTS
    RewardRequest,  \* stable redemption identifiers
    Reward,         \* rewards: their local price and award, and first per stream
    Quote,          \* bound: prices in XP
    Opening,        \* a local wallet's balance before all redemptions
    RewardCall,     \* bound: redeem calls in flight
    NoReward, NoRewardRequest

ASSUME RewardAssumption ==
    /\ RewardRequest \subseteq BaseKey
    /\ Reward \subseteq [price: Nat \ {0}, award: Nat, first: BOOLEAN]
    /\ Quote \subseteq Nat \ {0} /\ Opening \in Nat
    /\ NoRewardRequest \notin RewardRequest

VARIABLES
    receipt, \* redemption receipts by request
    claim,   \* who holds the lock of a first-per-stream reward
    local,   \* the streamer's points of each user
    redeem,  \* redeem calls: their request and how far its payment got
    late     \* requests with a payment under way that no call waits for

rewardVars == <<receipt, claim, local, redeem, late>>
allRewardVars == <<ledgerVars, rewardVars>>

Receipt == [state: {"pending", "complete", "rejected"}, user: XpUser, reward: Reward,
            currency: {"streamer", "spmt"}, cost: Nat]

ASSUME NoRewardAssumption == NoReward \notin Receipt

RewardTypeOK ==
    /\ receipt \in [RewardRequest -> Receipt \cup {NoReward}]
    /\ claim \in [Reward -> RewardRequest \cup {NoRewardRequest}]
    /\ local \in [XpUser -> Nat]
    /\ redeem \in [RewardCall -> [request: RewardRequest \cup {NoRewardRequest},
                                  step: {"idle", "asked", "charged", "refused"}]]
    /\ late \subseteq RewardRequest

NoCall == [request |-> NoRewardRequest, step |-> "idle"]

RewardInit ==
    /\ receipt = [r \in RewardRequest |-> NoReward]
    /\ claim = [w \in Reward |-> NoRewardRequest]
    /\ local = [u \in XpUser |-> Opening]
    /\ redeem = [c \in RewardCall |-> NoCall]
    /\ late = {}

Opened(r) == receipt[r] # NoReward
Waiting(r) == Opened(r) /\ receipt[r].state = "pending"
RewardKey(r) == <<r, "">>

-----------------------------------------------------------------------------
(* StreamWeaver. *)

Ask(c, r) == redeem' = [redeem EXCEPT ![c] = [request |-> r, step |-> "asked"]]

\* The lock is taken by another request.
Taken(w) == w.first /\ claim[w] # NoRewardRequest

\* As if the lock were taken with the local payment only.
ClaimStreamerOnly(r, new) ==
    IF new.reward.first /\ new.currency = "streamer"
    THEN [claim EXCEPT ![new.reward] = r] ELSE claim

Claimed(r, new) == IF new.reward.first THEN [claim EXCEPT ![new.reward] = r] ELSE claim

\* Points paid and awarded locally, together with the receipt.
PaidLocally(r, new) ==
    /\ new.currency = "streamer" /\ local[new.user] >= new.cost
    /\ receipt' = [receipt EXCEPT ![r] = [new EXCEPT !.state = "complete"]]
    /\ local' = [local EXCEPT ![new.user] = @ - new.cost + new.reward.award]
    /\ claim' = Claimed(r, new)
    /\ UNCHANGED redeem

\* The first transaction of a request: its receipt, rejected, complete or pending.
OpenReceipt(c, r, new) ==
    /\ ~Opened(r)
    /\ \/ /\ Taken(new.reward) \/ (new.currency = "streamer" /\ local[new.user] < new.cost)
          /\ receipt' = [receipt EXCEPT ![r] = [new EXCEPT !.state = "rejected"]]
          /\ UNCHANGED <<claim, local, redeem>>
       \/ ~Taken(new.reward) /\ PaidLocally(r, new)
       \/ /\ ~Taken(new.reward) /\ new.currency = "spmt"
          /\ receipt' = [receipt EXCEPT ![r] = new]
          /\ claim' = Claimed(r, new)
          /\ Ask(c, r)
          /\ UNCHANGED local

\* As if a retry took the quote of its own time.
ResumeRequoted(c, r, new) ==
    /\ Waiting(r)
    /\ receipt' = [receipt EXCEPT ![r].cost = new.cost]
    /\ Ask(c, r)
    /\ UNCHANGED <<claim, local>>

\* A retry pays what the receipt says.
Resume(c, r, new) ==
    /\ Waiting(r)
    /\ Ask(c, r)
    /\ UNCHANGED <<receipt, claim, local>>

\* redeem up to its payment.  Other terms, or a receipt that is settled, change nothing.
Begin(c, r, new) ==
    /\ redeem[c].step = "idle"
    /\ \/ OpenReceipt(c, r, new)
       \/ /\ Opened(r) /\ [receipt[r] EXCEPT !.cost = new.cost, !.state = "pending"] = new
          /\ Resume(c, r, new)
    /\ UNCHANGED <<ledgerVars, late>>

\* As if the award did not look at the receipt again.
PendingOrDone(r) == receipt[r].state # "rejected"

\* What a settlement reads again in its own transaction.
StillPending(r) == receipt[r].state = "pending"

\* The payment was made, now or by an earlier attempt: award and complete.
SettleReward(c) ==
    LET r == redeem[c].request IN
    /\ redeem[c].step = "charged"
    /\ IF StillPending(r)
       THEN /\ receipt' = [receipt EXCEPT ![r].state = "complete"]
            /\ local' = [local EXCEPT ![receipt[r].user] = @ + receipt[r].reward.award]
       ELSE UNCHANGED <<receipt, local>>
    /\ redeem' = [redeem EXCEPT ![c] = NoCall]
    /\ UNCHANGED <<ledgerVars, claim, late>>

\* "Insufficient spendable XP": reject, and let another be the first.
RefuseReward(c) ==
    LET r == redeem[c].request IN
    /\ redeem[c].step = "refused"
    /\ IF StillPending(r)
       THEN /\ receipt' = [receipt EXCEPT ![r].state = "rejected"]
            /\ claim' = IF receipt[r].reward.first
                        THEN [claim EXCEPT ![receipt[r].reward] = NoRewardRequest] ELSE claim
       ELSE UNCHANGED <<receipt, claim>>
    /\ redeem' = [redeem EXCEPT ![c] = NoCall]
    /\ UNCHANGED <<ledgerVars, local, late>>

-----------------------------------------------------------------------------
(* The payment. *)

Pay(r) == SpendXp(RewardKey(r), receipt[r].user, receipt[r].cost) /\ UNCHANGED settled

\* The payment arrives and is answered; a conflict ends the call, as any error does.
PaymentArrives(c) ==
    LET r == redeem[c].request
        outcome == SpendOutcome(RewardKey(r), receipt[r].user, receipt[r].cost) IN
    /\ redeem[c].step = "asked"
    /\ Pay(r)
    /\ redeem' = [redeem EXCEPT ![c] =
           IF outcome = "conflict" THEN NoCall
           ELSE [@ EXCEPT !.step = IF outcome = "insufficient" THEN "refused" ELSE "charged"]]
    /\ UNCHANGED <<receipt, claim, local, late>>

\* The call gives up first: the payment never arrives, or later.
GiveUp(c) ==
    /\ redeem[c].step = "asked"
    /\ late' \in {late, late \cup {redeem[c].request}}
    /\ redeem' = [redeem EXCEPT ![c] = NoCall]
    /\ UNCHANGED <<ledgerVars, receipt, claim, local>>

LatePayment(r) ==
    /\ r \in late
    /\ Pay(r)
    /\ late' = late \ {r}
    /\ UNCHANGED <<receipt, claim, local, redeem>>

\* The answer does not arrive.
AnswerLost(c) ==
    /\ redeem[c].step \in {"charged", "refused"}
    /\ redeem' = [redeem EXCEPT ![c] = NoCall]
    /\ UNCHANGED <<ledgerVars, receipt, claim, local, late>>

RewardStep ==
    \/ \E c \in RewardCall :
         \/ \E r \in RewardRequest, u \in XpUser, w \in Reward :
              \/ Begin(c, r, [state |-> "pending", user |-> u, reward |-> w,
                              currency |-> "streamer", cost |-> w.price])
              \/ \E q \in Quote :
                   Begin(c, r, [state |-> "pending", user |-> u, reward |-> w,
                                currency |-> "spmt", cost |-> q])
         \/ PaymentArrives(c) \/ GiveUp(c) \/ AnswerLost(c)
         \/ SettleReward(c) \/ RefuseReward(c)
    \/ \E r \in RewardRequest : LatePayment(r)

RewardNext == RewardStep \/ (LedgerNext /\ UNCHANGED rewardVars)

RewardSpec == LedgerInit /\ RewardInit /\ [][RewardNext]_allRewardVars

-----------------------------------------------------------------------------
(* Properties. *)

ChargedFor(r) ==
    /\ xp[RewardKey(r)].user = receipt[r].user
    /\ xp[RewardKey(r)].delta = -receipt[r].cost

\* A redemption paid in XP is complete only when its exact quote was charged, however
\* often it was retried and with whatever quote; and nothing but the quote on a
\* receipt is ever charged under its key.
ChargesMatchReceipts ==
    \A r \in RewardRequest :
      /\ Opened(r) /\ receipt[r].state = "complete" /\ receipt[r].currency = "spmt"
           => ChargedFor(r)
      /\ Posted(RewardKey(r)) /\ xp[RewardKey(r)].action = "spend"
           => Opened(r) /\ receipt[r].currency = "spmt" /\ ChargedFor(r)

CompletedBy(u) ==
    {r \in RewardRequest : Opened(r) /\ receipt[r].user = u /\ receipt[r].state = "complete"}

Gain(r) == receipt[r].reward.award
           - (IF receipt[r].currency = "streamer" THEN receipt[r].cost ELSE 0)

\* A wallet is what its user's completed redemptions make of it: each award is paid
\* once, by whichever of the overlapping calls settles it, each local price once.
LocalWalletBalances ==
    \A u \in XpUser : local[u] =
      Opening + SumFunctionOnSet([r \in CompletedBy(u) |-> Gain(r)], CompletedBy(u))

\* Of the redemptions of a first-per-stream reward at most one is complete or can
\* still be, whichever currency each is paid in.
OneFirstPerStream ==
    \A r, s \in RewardRequest :
      /\ Opened(r) /\ Opened(s) /\ receipt[r].reward = receipt[s].reward
      /\ receipt[r].reward.first
      /\ receipt[r].state # "rejected" /\ receipt[s].state # "rejected"
      => r = s

\* "A definitive insufficient-funds rejection is terminal" (reward-runtime.ts:59):
\* what is rejected was not charged, and never is.
RejectedWasNotCharged ==
    \A r \in RewardRequest :
      Opened(r) /\ receipt[r].state = "rejected" =>
        ~(Posted(RewardKey(r)) /\ xp[RewardKey(r)].action = "spend")

=============================================================================
