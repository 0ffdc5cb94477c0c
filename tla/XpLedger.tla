------------------------------ MODULE XpLedger ------------------------------
(***************************************************************************)
(* The XP ledger of one tenant in SPMT: an append-only journal of signed   *)
(* amounts under idempotency keys, from which every wallet is computed     *)
(* (packages/authority-core/src/index.ts).  Each operation is one SQLite   *)
(* transaction; those it calls join it (packages/authority-sqlite/src/     *)
(* index.ts:33).                                                           *)
(*                                                                         *)
(* A transfer and a gamble post several events under keys they derive from *)
(* their own, "k:debit" for k; nothing keeps a caller from using such a    *)
(* key itself, so a key is a pair of a base and a suffix.                  *)
(*                                                                         *)
(* Abstractions.  The source app is one of the terms spendXp compares; all *)
(* callers here have the same.  Metadata but lifetimeEligible and          *)
(* walletAction, ranks, levels, listings and the upper bounds of amounts   *)
(* (a million, a hundred million) are left out.                            *)
(***************************************************************************)
EXTENDS Integers, FiniteSets, FiniteSetsExt

CONSTANTS
    XpUser,
    BaseKey,   \* idempotency keys that apps choose
    RawKey,    \* the keys, suffixes included, that they award and spend under
    Award,     \* bound: amounts awarded
    Wager,     \* bound: amounts spent, transferred and wagered
    Payout,    \* bound: amounts a gamble pays
    NoXpUser

Suffix == {"", "debit", "credit", "wager", "refill", "growth"}
XpKey == BaseKey \X Suffix

ASSUME LedgerAssumption ==
    /\ RawKey \subseteq XpKey
    /\ Award \subseteq Int \ {0}
    /\ Wager \subseteq Nat /\ Payout \subseteq Nat
    /\ NoXpUser \notin XpUser

VARIABLES
    xp,       \* xp_events by idempotency key
    settled   \* the receipts of transfers and gambles, two namespaces of keys

ledgerVars == <<xp, settled>>

\* walletAction is absent from a plain award.
XpEvent == [user: XpUser \cup {NoXpUser}, delta: Int, lifetime: BOOLEAN,
            action: {"award", "spend", "transfer", "gamble"}]
NoXpEvent == [user |-> NoXpUser, delta |-> 0, lifetime |-> FALSE, action |-> "award"]

Settlement == [user: XpUser \cup {NoXpUser}, to: XpUser \cup {NoXpUser},
               amount: Nat, refill: Nat, growth: Nat]
NoSettlement == [user |-> NoXpUser, to |-> NoXpUser, amount |-> 0, refill |-> 0, growth |-> 0]

LedgerTypeOK ==
    /\ xp \in [XpKey -> XpEvent]
    /\ settled \in [{"transfer", "gamble"} \X BaseKey -> Settlement]

LedgerInit ==
    /\ xp = [k \in XpKey |-> NoXpEvent]
    /\ settled = [r \in {"transfer", "gamble"} \X BaseKey |-> NoSettlement]

-----------------------------------------------------------------------------
(* Wallets. *)

Posted(k) == xp[k].user # NoXpUser
EventsOf(u) == {k \in XpKey : xp[k].user = u}
Deltas == [k \in XpKey |-> xp[k].delta]
XpBalance(u) == SumFunctionOnSet(Deltas, EventsOf(u))

\* As if a negative amount were not cut off.
Uncut(n) == n

AtLeastZero(n) == IF n < 0 THEN 0 ELSE n

Smaller(m, n) == IF m < n THEN m ELSE n

Spendable(u) == AtLeastZero(XpBalance(u))
Lifetime(u) ==
    SumFunctionOnSet(Deltas, {k \in EventsOf(u) : xp[k].delta > 0 /\ xp[k].lifetime})

-----------------------------------------------------------------------------
(* Operations. *)

\* awardXp inside a transaction: a key already posted answers with its event,
\* whatever the terms of the request.
Post(ledger, k, event) ==
    IF ledger[k].user # NoXpUser THEN ledger ELSE [ledger EXCEPT ![k] = event]

Event(u, delta, lifetime, action) ==
    [user |-> u, delta |-> delta, lifetime |-> lifetime, action |-> action]

AwardXp(k, u, delta, lifetime) ==
    /\ xp' = Post(xp, k, Event(u, delta, lifetime, "award"))
    /\ UNCHANGED settled

\* spendXp's answer, in the order its conditions are read.
SpendOutcome(k, u, amount) ==
    IF Posted(k) THEN IF xp[k].user = u /\ xp[k].delta = -amount
                      THEN "duplicate" ELSE "conflict"
    ELSE IF Spendable(u) < amount THEN "insufficient" ELSE "spent"

\* As if a spend did not look at the balance.
SpendBlindly(k, u, amount) ==
    xp' = IF Posted(k) THEN xp ELSE Post(xp, k, Event(u, -amount, FALSE, "spend"))

SpendXp(k, u, amount) ==
    xp' = IF SpendOutcome(k, u, amount) = "spent"
          THEN Post(xp, k, Event(u, -amount, FALSE, "spend")) ELSE xp

\* As if a derived key in use were no obstacle.
FreeAlways(k, suffixes) == TRUE

\* None of the keys an operation derives from k is in use.
Free(k, suffixes) == \A s \in suffixes : ~Posted(<<k, s>>)

\* A replay, or one with other terms, changes nothing.
TransferXp(k, from, to, amount) ==
    /\ settled[<<"transfer", k>>] = NoSettlement
    /\ Free(k, {"debit", "credit"})
    /\ from # to /\ amount > 0 /\ Spendable(from) >= amount
    /\ xp' = Post(Post(xp, <<k, "debit">>, Event(from, -amount, FALSE, "transfer")),
                  <<k, "credit">>, Event(to, amount, FALSE, "transfer"))
    /\ settled' = [settled EXCEPT ![<<"transfer", k>>] =
                       [user |-> from, to |-> to, amount |-> amount, refill |-> 0, growth |-> 0]]

\* What a payout restores of a balance below the lifetime total.
Refilled(u, wager, payout) ==
    Smaller(payout, AtLeastZero(Lifetime(u) - (Spendable(u) - wager)))

\* A tenth of the rest grows both totals by half of it each, rounded down.
Growth(u, wager, payout) == ((payout - Refilled(u, wager, payout)) \div 10) \div 2

PostUnlessZero(ledger, k, event) == IF event.delta = 0 THEN ledger ELSE Post(ledger, k, event)

GambleXp(k, u, wager, payout) ==
    LET refill == Refilled(u, wager, payout)  growth == Growth(u, wager, payout) IN
    /\ settled[<<"gamble", k>>] = NoSettlement
    /\ Spendable(u) >= wager
    /\ Free(k, {"wager", "refill", "growth"})
    /\ xp' = PostUnlessZero(PostUnlessZero(PostUnlessZero(xp,
                 <<k, "wager">>, Event(u, -wager, FALSE, "gamble")),
                 <<k, "refill">>, Event(u, refill, FALSE, "gamble")),
                 <<k, "growth">>, Event(u, growth, TRUE, "gamble"))
    /\ settled' = [settled EXCEPT ![<<"gamble", k>>] = [user |-> u, to |-> NoXpUser,
                       amount |-> wager, refill |-> refill, growth |-> growth]]

\* Apps of the tenant at work.
LedgerNext ==
    \/ \E k \in RawKey, u \in XpUser, delta \in Award, lifetime \in BOOLEAN :
         AwardXp(k, u, delta, lifetime)
    \/ \E k \in RawKey, u \in XpUser, amount \in Wager \ {0} :
         SpendXp(k, u, amount) /\ UNCHANGED settled
    \/ \E k \in BaseKey, from, to \in XpUser, amount \in Wager : TransferXp(k, from, to, amount)
    \/ \E k \in BaseKey, u \in XpUser, wager \in Wager, payout \in Payout :
         GambleXp(k, u, wager, payout)

LedgerSpec == LedgerInit /\ [][LedgerNext]_ledgerVars

-----------------------------------------------------------------------------
(* Properties. *)

Booked(k, u, delta) == delta = 0 \/ (xp[k].user = u /\ xp[k].delta = delta)

\* Every settlement answered "transferred" or "settled" has all its events in the
\* journal with its own amounts, and none half: keys that other callers used before
\* never stand in for them.
SettlementsAreBooked ==
    \A k \in BaseKey :
      /\ LET t == settled[<<"transfer", k>>] IN
           t # NoSettlement => /\ Booked(<<k, "debit">>, t.user, -t.amount)
                               /\ Booked(<<k, "credit">>, t.to, t.amount)
      /\ LET g == settled[<<"gamble", k>>] IN
           g # NoSettlement => /\ Booked(<<k, "wager">>, g.user, -g.amount)
                               /\ Booked(<<k, "refill">>, g.user, g.refill)
                               /\ Booked(<<k, "growth">>, g.user, g.growth)

\* Nobody is overdrawn but by an award of a negative amount: no spend, transfer or
\* wager takes a balance below zero, or further below.
NeverOverdrawn ==
    [][xp' # xp => \A u \in XpUser :
         XpBalance(u)' < Smaller(0, XpBalance(u)) =>
           \E k \in XpKey : /\ ~Posted(k) /\ xp'[k].user = u
                            /\ xp'[k].action = "award" /\ xp'[k].delta < 0]_ledgerVars

=============================================================================
