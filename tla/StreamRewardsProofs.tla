------------------------- MODULE StreamRewardsProofs -------------------------
(***************************************************************************)
(* Proofs about the XP ledger and the rewards paid from it.                *)
(*                                                                         *)
(* The argument.  The journal only grows (Grows), so what is booked stays  *)
(* booked (LInv), and a charge a call has seen is still there when it acts *)
(* on it (RInv).  Every balance is a sum over a journal, or over receipts, *)
(* of which finitely many entries are in use; a post adds one summand      *)
(* (PostBalance), a completed receipt another (BalanceGrows), so Books and *)
(* Wallets are inductive.                                                  *)
(***************************************************************************)
EXTENDS StreamRewards, SumTheorems

-----------------------------------------------------------------------------
(* The journal. *)

\* A journal has an entry of every key, and so have the receipts.
Journal(ledger) == ledger = [k \in XpKey |-> ledger[k]]
Receipts(s) == s = [r \in {"transfer", "gamble"} \X BaseKey |-> s[r]]

\* What is posted stays as it is.
Grows(old, new) == \A k \in XpKey : old[k].user # NoXpUser => new[k] = old[k]

\* The settlements of a key: their users are users, their events posted.
TransferBooked(k) ==
    LET t == settled[<<"transfer", k>>] IN
    t # NoSettlement => /\ t.user \in XpUser /\ t.to \in XpUser
                        /\ Booked(<<k, "debit">>, t.user, -t.amount)
                        /\ Booked(<<k, "credit">>, t.to, t.amount)
GambleBooked(k) ==
    LET g == settled[<<"gamble", k>>] IN
    g # NoSettlement => /\ g.user \in XpUser
                        /\ Booked(<<k, "wager">>, g.user, -g.amount)
                        /\ Booked(<<k, "refill">>, g.user, g.refill)
                        /\ Booked(<<k, "growth">>, g.user, g.growth)

LInv ==
    /\ Journal(xp) /\ Receipts(settled)
    /\ \A k \in BaseKey : TransferBooked(k) /\ GambleBooked(k)

LEMMA Keys == \A k \in BaseKey, s \in Suffix : <<k, s>> \in XpKey
  BY DEF XpKey

LEMMA Users == \A u \in XpUser : u # NoXpUser
  BY LedgerAssumption

\* A post fills its own key if that is free, and no other.
LEMMA PostFills ==
    ASSUME NEW ledger, Journal(ledger), NEW k \in XpKey, NEW event
    PROVE  /\ Journal(Post(ledger, k, event))
           /\ Grows(ledger, Post(ledger, k, event))
           /\ \A j \in XpKey : j # k => Post(ledger, k, event)[j] = ledger[j]
           /\ ledger[k].user = NoXpUser => Post(ledger, k, event)[k] = event
  <1>1. CASE ledger[k].user # NoXpUser
    BY <1>1 DEF Post, Journal, Grows
  <1>2. CASE ledger[k].user = NoXpUser
    BY <1>2 DEF Post, Journal, Grows
  <1> QED
    BY <1>1, <1>2

LEMMA PostUnlessZeroFills ==
    ASSUME NEW ledger, Journal(ledger), NEW k \in XpKey, NEW event
    PROVE  /\ Journal(PostUnlessZero(ledger, k, event))
           /\ Grows(ledger, PostUnlessZero(ledger, k, event))
           /\ ledger[k].user = NoXpUser /\ event.delta # 0 =>
                PostUnlessZero(ledger, k, event)[k] = event
  BY PostFills DEF PostUnlessZero, Grows

LEMMA OthersStay ==
    ASSUME NEW ledger, Journal(ledger), NEW k \in XpKey, NEW event, NEW j \in XpKey, j # k
    PROVE  PostUnlessZero(ledger, k, event)[j] = ledger[j]
  BY PostFills DEF PostUnlessZero

LEMMA GrowsOn ==
    ASSUME NEW a, NEW b, NEW c, Grows(a, b), Grows(b, c)
    PROVE  Grows(a, c)
  BY DEF Grows

\* Settlements stay booked while the journal grows.
LEMMA BookedStays ==
    ASSUME LInv, Journal(xp'), Grows(xp, xp'), UNCHANGED settled
    PROVE  LInv'
  <1>1. ASSUME NEW k \in XpKey, NEW u \in XpUser, NEW delta, Booked(k, u, delta)
        PROVE  Booked(k, u, delta)'
    BY <1>1, Users DEF Booked, Grows
  <1>2. ASSUME NEW k \in BaseKey PROVE TransferBooked(k)' /\ GambleBooked(k)'
    <2>1. TransferBooked(k)'
      BY <1>1, <1>2, Keys DEF LInv, TransferBooked, Suffix
    <2>2. GambleBooked(k)'
      BY <1>1, <1>2, Keys DEF LInv, GambleBooked, Suffix
    <2> QED
      BY <2>1, <2>2
  <1> QED
    BY <1>2 DEF LInv, Receipts

-----------------------------------------------------------------------------
(* Ledger operations. *)

LEMMA AwardGrows ==
    ASSUME LInv, NEW k \in XpKey, NEW u, NEW delta, NEW lifetime, AwardXp(k, u, delta, lifetime)
    PROVE  Journal(xp') /\ Grows(xp, xp') /\ UNCHANGED settled
  BY PostFills DEF LInv, AwardXp

LEMMA SpendGrows ==
    ASSUME LInv, NEW k \in XpKey, NEW u, NEW amount, SpendXp(k, u, amount)
    PROVE  /\ Journal(xp') /\ Grows(xp, xp')
           /\ \A j \in XpKey : j # k => xp'[j] = xp[j]
           /\ ~Posted(k) /\ SpendOutcome(k, u, amount) = "spent" =>
                xp'[k] = Event(u, -amount, FALSE, "spend")
           /\ SpendOutcome(k, u, amount) # "spent" => xp' = xp
  <1> DEFINE event == Event(u, -amount, FALSE, "spend")
  <1>1. xp' = IF SpendOutcome(k, u, amount) = "spent" THEN Post(xp, k, event) ELSE xp
    BY DEF SpendXp
  <1>2. Journal(xp)
    BY DEF LInv
  <1>3. Grows(xp, xp)
    BY DEF Grows
  <1>4. /\ Journal(xp') /\ Grows(xp, xp')
        /\ \A j \in XpKey : j # k => xp'[j] = xp[j]
        /\ ~Posted(k) /\ SpendOutcome(k, u, amount) = "spent" => xp'[k] = event
        /\ SpendOutcome(k, u, amount) # "spent" => xp' = xp
    <2> HIDE DEF event
    <2> QED
      BY <1>1, <1>2, <1>3, PostFills DEF Posted
  <1> QED
    BY <1>4

LEMMA TransferKeeps ==
    ASSUME LInv, NEW k \in BaseKey, NEW from \in XpUser, NEW to \in XpUser, NEW amount,
           TransferXp(k, from, to, amount)
    PROVE  LInv' /\ Grows(xp, xp')
  <1> DEFINE d == <<k, "debit">>
             c == <<k, "credit">>
             debit == Event(from, -amount, FALSE, "transfer")
             credit == Event(to, amount, FALSE, "transfer")
             mid == Post(xp, d, debit)
             t == [user |-> from, to |-> to, amount |-> amount, refill |-> 0, growth |-> 0]
  <1>1. d \in XpKey /\ c \in XpKey /\ d # c
    BY Keys DEF Suffix
  <1>2. xp[d].user = NoXpUser /\ xp[c].user = NoXpUser
    BY DEF TransferXp, Free, Posted
  <1>3. Journal(mid) /\ Grows(xp, mid) /\ mid[d] = debit /\ mid[c] = xp[c]
    <2> HIDE DEF d, c, debit
    <2> QED
      BY <1>1, <1>2, PostFills DEF LInv
  <1>4. xp' = Post(mid, c, credit)
    BY DEF TransferXp
  <1>5. /\ Journal(xp') /\ Grows(mid, xp') /\ xp'[d] = debit /\ xp'[c] = credit
    <2> HIDE DEF mid, d, c, debit, credit
    <2> QED
      BY <1>1, <1>2, <1>3, <1>4, PostFills
  <1>6. Grows(xp, xp')
    <2> HIDE DEF mid
    <2> QED
      BY <1>3, <1>5, GrowsOn
  <1>7. /\ Receipts(settled') /\ settled'[<<"transfer", k>>] = t
        /\ \A j \in BaseKey : /\ settled'[<<"gamble", j>>] = settled[<<"gamble", j>>]
                              /\ j # k => settled'[<<"transfer", j>>] = settled[<<"transfer", j>>]
    BY DEF TransferXp, LInv, Receipts
  <1>8. ASSUME NEW j \in XpKey, NEW u \in XpUser, NEW delta, Booked(j, u, delta)
        PROVE  Booked(j, u, delta)'
    BY <1>6, <1>8, Users DEF Booked, Grows
  <1>9. TransferBooked(k)'
    <2>1. xp'[d].user = from /\ xp'[d].delta = -amount /\ xp'[c].user = to /\ xp'[c].delta = amount
      <3>1. debit.user = from /\ debit.delta = -amount
        BY DEF Event
      <3>2. credit.user = to /\ credit.delta = amount
        BY DEF Event
      <3> HIDE DEF debit, credit, d, c
      <3> QED
        BY <1>5, <3>1, <3>2
    <2>2. /\ settled'[<<"transfer", k>>].user = from /\ settled'[<<"transfer", k>>].to = to
          /\ settled'[<<"transfer", k>>].amount = amount
      BY <1>7
    <2> QED
      BY <2>1, <2>2 DEF TransferBooked, Booked
  <1>10. ASSUME NEW j \in BaseKey, j # k PROVE TransferBooked(j)'
    BY <1>7, <1>8, <1>10, Keys DEF LInv, TransferBooked, Suffix
  <1>11. ASSUME NEW j \in BaseKey PROVE GambleBooked(j)'
    BY <1>7, <1>8, <1>11, Keys DEF LInv, GambleBooked, Suffix
  <1> QED
    BY <1>5, <1>6, <1>7, <1>9, <1>10, <1>11 DEF LInv

LEMMA GambleKeeps ==
    ASSUME LInv, NEW k \in BaseKey, NEW u \in XpUser, NEW wager, NEW payout,
           GambleXp(k, u, wager, payout)
    PROVE  LInv' /\ Grows(xp, xp')
  <1> DEFINE w == <<k, "wager">>
             r == <<k, "refill">>
             g == <<k, "growth">>
             refill == Refilled(u, wager, payout)
             growth == Growth(u, wager, payout)
             wagered == Event(u, -wager, FALSE, "gamble")
             refilled == Event(u, refill, FALSE, "gamble")
             grown == Event(u, growth, TRUE, "gamble")
             first == PostUnlessZero(xp, w, wagered)
             second == PostUnlessZero(first, r, refilled)
             receipt0 == [user |-> u, to |-> NoXpUser, amount |-> wager, refill |-> refill,
                          growth |-> growth]
  <1>1. w \in XpKey /\ r \in XpKey /\ g \in XpKey /\ w # r /\ w # g /\ r # g
    BY Keys DEF Suffix
  <1>2. xp[w].user = NoXpUser /\ xp[r].user = NoXpUser /\ xp[g].user = NoXpUser
    BY DEF GambleXp, Free, Posted
  <1>3. /\ xp' = PostUnlessZero(second, g, grown)
        /\ settled' = [settled EXCEPT ![<<"gamble", k>>] = receipt0]
    BY DEF GambleXp
  <1>4. /\ wagered.user = u /\ wagered.delta = -wager
        /\ refilled.user = u /\ refilled.delta = refill
        /\ grown.user = u /\ grown.delta = growth
    <2>1. wagered.user = u /\ wagered.delta = -wager
      BY DEF Event
    <2>2. refilled.user = u /\ refilled.delta = refill
      BY DEF Event
    <2>3. grown.user = u /\ grown.delta = growth
      BY DEF Event
    <2> QED
      BY <2>1, <2>2, <2>3
  <1>5. /\ receipt0.user = u /\ receipt0.amount = wager /\ receipt0.refill = refill
        /\ receipt0.growth = growth
    OBVIOUS
  <1> HIDE DEF w, r, g, refill, growth, wagered, refilled, grown
  <1>6. /\ Journal(first) /\ Grows(xp, first) /\ first[r] = xp[r] /\ first[g] = xp[g]
        /\ wagered.delta # 0 => first[w] = wagered
    <2>1. Journal(xp)
      BY DEF LInv
    <2>2. first = PostUnlessZero(xp, w, wagered)
      OBVIOUS
    <2> HIDE DEF first
    <2>3. Journal(first) /\ Grows(xp, first)
      BY <1>1, <2>1, <2>2, PostUnlessZeroFills
    <2>4. \A j \in XpKey : j # w => first[j] = xp[j]
      BY <1>1, <2>1, <2>2, OthersStay
    <2>5. xp[w].user = NoXpUser /\ wagered.delta # 0 => first[w] = wagered
      BY <1>1, <2>1, <2>2, PostUnlessZeroFills
    <2> QED
      BY <1>1, <1>2, <2>3, <2>4, <2>5
  <1> HIDE DEF first
  <1>7. /\ Journal(second) /\ Grows(first, second) /\ second[w] = first[w] /\ second[g] = first[g]
        /\ refilled.delta # 0 => second[r] = refilled
    <2>1. second = PostUnlessZero(first, r, refilled)
      OBVIOUS
    <2> HIDE DEF second
    <2>2. Journal(second) /\ Grows(first, second)
      BY <1>1, <1>6, <2>1, PostUnlessZeroFills
    <2>3. \A j \in XpKey : j # r => second[j] = first[j]
      BY <1>1, <1>6, <2>1, OthersStay
    <2>4. first[r].user = NoXpUser /\ refilled.delta # 0 => second[r] = refilled
      BY <1>1, <1>6, <2>1, PostUnlessZeroFills
    <2> QED
      BY <1>1, <1>2, <1>6, <2>2, <2>3, <2>4
  <1> HIDE DEF second
  <1>8. /\ Journal(xp') /\ Grows(second, xp') /\ xp'[w] = second[w] /\ xp'[r] = second[r]
        /\ grown.delta # 0 => xp'[g] = grown
    <2>1. Journal(xp') /\ Grows(second, xp')
      BY <1>1, <1>3, <1>7, PostUnlessZeroFills
    <2>2. \A j \in XpKey : j # g => xp'[j] = second[j]
      BY <1>1, <1>3, <1>7, OthersStay
    <2>3. second[g].user = NoXpUser /\ grown.delta # 0 => xp'[g] = grown
      BY <1>1, <1>3, <1>7, PostUnlessZeroFills
    <2> QED
      BY <1>1, <1>2, <1>6, <1>7, <2>1, <2>2, <2>3
  <1>9. Grows(xp, xp')
    BY <1>6, <1>7, <1>8, GrowsOn
  <1>10. ASSUME NEW j \in XpKey, NEW v \in XpUser, NEW delta, Booked(j, v, delta)
         PROVE  Booked(j, v, delta)'
    BY <1>9, <1>10, Users DEF Booked, Grows
  <1>11. /\ Receipts(settled') /\ settled'[<<"gamble", k>>] = receipt0
         /\ \A j \in BaseKey : /\ settled'[<<"transfer", j>>] = settled[<<"transfer", j>>]
                               /\ j # k => settled'[<<"gamble", j>>] = settled[<<"gamble", j>>]
    BY <1>3 DEF LInv, Receipts
  <1>12. GambleBooked(k)'
    <2>1. /\ -wager = 0 \/ (xp'[w].user = u /\ xp'[w].delta = -wager)
          /\ refill = 0 \/ (xp'[r].user = u /\ xp'[r].delta = refill)
          /\ growth = 0 \/ (xp'[g].user = u /\ xp'[g].delta = growth)
      BY <1>4, <1>6, <1>7, <1>8
    <2> HIDE DEF receipt0
    <2> QED
      BY <1>5, <1>11, <2>1 DEF GambleBooked, Booked, w, r, g
  <1>13. ASSUME NEW j \in BaseKey, j # k PROVE GambleBooked(j)'
    BY <1>10, <1>11, <1>13, Keys DEF LInv, GambleBooked, Suffix
  <1>14. ASSUME NEW j \in BaseKey PROVE TransferBooked(j)'
    BY <1>10, <1>11, <1>14, Keys DEF LInv, TransferBooked, Suffix
  <1> QED
    BY <1>8, <1>9, <1>11, <1>12, <1>13, <1>14 DEF LInv

LEMMA LedgerKeeps ==
    ASSUME LInv, LedgerNext
    PROVE  LInv' /\ Grows(xp, xp')
  <1>1. ASSUME NEW k \in RawKey, NEW u \in XpUser, NEW delta \in Award, NEW lifetime \in BOOLEAN,
               AwardXp(k, u, delta, lifetime)
        PROVE  LInv' /\ Grows(xp, xp')
    BY <1>1, AwardGrows, BookedStays, LedgerAssumption
  <1>2. ASSUME NEW k \in RawKey, NEW u \in XpUser, NEW amount \in Wager \ {0},
               SpendXp(k, u, amount) /\ UNCHANGED settled
        PROVE  LInv' /\ Grows(xp, xp')
    BY <1>2, SpendGrows, BookedStays, LedgerAssumption
  <1> QED
    BY <1>1, <1>2, TransferKeeps, GambleKeeps DEF LedgerNext

-----------------------------------------------------------------------------
(* Wallets: sums over a journal that stays finite. *)

Entries(ledger) == {k \in XpKey : ledger[k].user # NoXpUser}

\* A journal of typed entries, finitely many of them posted.
Book(ledger) == ledger \in [XpKey -> XpEvent] /\ IsFiniteSet(Entries(ledger))

\* What XpBalance computes, of any journal.
Balance(ledger, u) ==
    SumFunctionOnSet([k \in XpKey |-> ledger[k].delta], {k \in XpKey : ledger[k].user = u})

LEMMA BalanceOf == \A u : XpBalance(u) = Balance(xp, u) /\ XpBalance(u)' = Balance(xp', u)
  BY DEF XpBalance, Balance, Deltas, EventsOf

LEMMA BalanceInt ==
    ASSUME NEW ledger, Book(ledger), NEW u \in XpUser
    PROVE  Balance(ledger, u) \in Int
  <1>1. IsFiniteSet({k \in XpKey : ledger[k].user = u})
    <2>1. {k \in XpKey : ledger[k].user = u} \subseteq Entries(ledger)
      BY Users DEF Entries
    <2> QED
      BY <2>1, FS_Subset DEF Book
  <1>2. \A k \in XpKey : ledger[k].delta \in Int
    BY DEF Book, XpEvent
  <1> QED
    BY <1>1, <1>2, SumType DEF Balance

LEMMA TypedJournal == \A ledger : Book(ledger) => Journal(ledger)
  BY DEF Book, Journal

\* A post adds its amount to its user's balance if its key is free, and nothing else.
LEMMA PostBalance ==
    ASSUME NEW ledger, Book(ledger), NEW k \in XpKey, NEW event \in XpEvent, NEW u \in XpUser
    PROVE  /\ Book(Post(ledger, k, event))
           /\ Balance(Post(ledger, k, event), u) =
                IF ledger[k].user = NoXpUser /\ event.user = u
                THEN Balance(ledger, u) + event.delta ELSE Balance(ledger, u)
  <1>1. CASE ledger[k].user # NoXpUser
    BY <1>1 DEF Post
  <1>2. CASE ledger[k].user = NoXpUser
    <2> DEFINE new == [ledger EXCEPT ![k] = event]
               f == [j \in XpKey |-> ledger[j].delta]
               g == [j \in XpKey |-> new[j].delta]
               S == {j \in XpKey : ledger[j].user = u}
    <2>1. Post(ledger, k, event) = new
      BY <1>2 DEF Post
    <2>2. /\ new \in [XpKey -> XpEvent] /\ new[k] = event
          /\ \A j \in XpKey : j # k => new[j] = ledger[j]
      BY DEF Book
    <2>3. Book(new)
      <3>1. Entries(new) \subseteq Entries(ledger) \cup {k}
        BY <2>2 DEF Entries
      <3>2. IsFiniteSet(Entries(ledger) \cup {k})
        BY FS_AddElement DEF Book
      <3> QED
        BY <2>2, <3>1, <3>2, FS_Subset DEF Book
    <2>4. IsFiniteSet(S) /\ k \notin S
      <3>1. S \subseteq Entries(ledger)
        BY Users DEF Entries
      <3> QED
        BY <1>2, <3>1, Users, FS_Subset DEF Book
    <2>5. {j \in XpKey : new[j].user = u} = IF event.user = u THEN S \cup {k} ELSE S
      BY <1>2, <2>2, <2>4
    <2>6. /\ \A j \in S : f[j] = g[j] /\ f[j] \in Int
          /\ g[k] = event.delta /\ event.delta \in Int
      <3>1. \A j \in XpKey : ledger[j].delta \in Int
        BY DEF Book, XpEvent
      <3>2. event.delta \in Int
        BY DEF XpEvent
      <3> HIDE DEF new
      <3> QED
        BY <2>2, <2>4, <3>1, <3>2
    <2>7. /\ Balance(ledger, u) = SumFunctionOnSet(f, S)
          /\ Balance(new, u) = SumFunctionOnSet(g, {j \in XpKey : new[j].user = u})
      BY DEF Balance
    <2> HIDE DEF f, g, S, new
    <2>8. SumFunctionOnSet(f, S) = SumFunctionOnSet(g, S)
      BY <2>4, <2>6, SumSame
    <2>9. SumFunctionOnSet(g, S \cup {k}) = SumFunctionOnSet(g, S) + g[k]
      <3>1. \A j \in S \cup {k} : g[j] \in Int
        BY <2>6
      <3> QED
        BY <2>4, <3>1, SumAdd
    <2> QED
      BY <1>2, <2>1, <2>3, <2>5, <2>6, <2>7, <2>8, <2>9
  <1> QED
    BY <1>1, <1>2

LEMMA PostUnlessZeroBalance ==
    ASSUME NEW ledger, Book(ledger), NEW k \in XpKey, ledger[k].user = NoXpUser,
           NEW event \in XpEvent, NEW u \in XpUser
    PROVE  /\ Book(PostUnlessZero(ledger, k, event))
           /\ Balance(PostUnlessZero(ledger, k, event), u) =
                IF event.user = u THEN Balance(ledger, u) + event.delta ELSE Balance(ledger, u)
  <1>1. Balance(ledger, u) \in Int
    BY BalanceInt
  <1>2. CASE event.delta = 0
    BY <1>1, <1>2 DEF PostUnlessZero
  <1>3. CASE event.delta # 0
    BY <1>3, PostBalance DEF PostUnlessZero
  <1> QED
    BY <1>2, <1>3

\* What NeverOverdrawn says of a step.
Covered ==
    \A u \in XpUser : XpBalance(u)' < Smaller(0, XpBalance(u)) =>
      \E k \in XpKey : /\ ~Posted(k) /\ xp'[k].user = u
                       /\ xp'[k].action = "award" /\ xp'[k].delta < 0

\* The ledger's part of the types.
Books == Book(xp) /\ settled \in [{"transfer", "gamble"} \X BaseKey -> Settlement]

LEMMA BooksTyped == Books => LedgerTypeOK
  BY DEF Books, Book, LedgerTypeOK

LEMMA BooksSpendable ==
    ASSUME Books, NEW u \in XpUser
    PROVE  /\ XpBalance(u) \in Int /\ Spendable(u) \in Nat
           /\ Spendable(u) = IF XpBalance(u) < 0 THEN 0 ELSE XpBalance(u)
  BY BalanceOf, BalanceInt DEF Books, Spendable, AtLeastZero

LEMMA EventType ==
    ASSUME NEW u \in XpUser, NEW delta \in Int, NEW lifetime \in BOOLEAN,
           NEW action \in {"award", "spend", "transfer", "gamble"}
    PROVE  LET e == Event(u, delta, lifetime, action) IN
           e \in XpEvent /\ e.user = u /\ e.delta = delta /\ e.action = action
  BY DEF Event, XpEvent

\* Who is not worse off is covered.
LEMMA GainIsCovered ==
    ASSUME Books, \A u \in XpUser : XpBalance(u)' \in Int /\ XpBalance(u)' >= Smaller(0, XpBalance(u))
    PROVE  Covered
  <1> SUFFICES ASSUME NEW u \in XpUser, XpBalance(u)' < Smaller(0, XpBalance(u)) PROVE FALSE
    BY DEF Covered
  <1>1. XpBalance(u) \in Int
    BY BooksSpendable
  <1>2. Smaller(0, XpBalance(u)) \in Int
    BY <1>1 DEF Smaller
  <1> QED
    BY <1>2

LEMMA AwardBooks ==
    ASSUME Books, NEW k \in XpKey, NEW u \in XpUser, NEW delta \in Int, NEW lifetime \in BOOLEAN,
           AwardXp(k, u, delta, lifetime)
    PROVE  Books' /\ Covered
  <1>1. PICK e \in XpEvent : /\ e = Event(u, delta, lifetime, "award")
                             /\ e.user = u /\ e.delta = delta /\ e.action = "award"
    BY EventType
  <1>2. xp' = Post(xp, k, e) /\ UNCHANGED settled
    BY <1>1 DEF AwardXp
  <1>3. Books'
    <2>1. Book(xp')
      BY <1>2, PostBalance DEF Books
    <2> QED
      BY <1>2, <2>1 DEF Books
  <1>4. ASSUME NEW v \in XpUser, XpBalance(v)' < Smaller(0, XpBalance(v))
        PROVE  \E j \in XpKey : /\ ~Posted(j) /\ xp'[j].user = v
                                /\ xp'[j].action = "award" /\ xp'[j].delta < 0
    <2>1. XpBalance(v)' = IF xp[k].user = NoXpUser /\ u = v THEN XpBalance(v) + delta
                          ELSE XpBalance(v)
      BY <1>1, <1>2, BalanceOf, PostBalance DEF Books
    <2>2. XpBalance(v) \in Int
      BY BooksSpendable
    <2>3. xp[k].user = NoXpUser /\ u = v /\ delta < 0
      BY <1>4, <2>1, <2>2 DEF Smaller
    <2>4. xp'[k] = e
      BY <1>2, <2>3 DEF Post, Books, Book
    <2> QED
      BY <1>1, <2>3, <2>4 DEF Posted
  <1> QED
    BY <1>3, <1>4 DEF Covered

\* spendXp, by apps and redemptions alike.
LEMMA SpendBooks ==
    ASSUME Books, NEW k \in XpKey, NEW u \in XpUser, NEW amount \in Nat,
           SpendXp(k, u, amount), UNCHANGED settled
    PROVE  Books' /\ Covered
  <1>0. PICK d \in Int : d = -amount
    OBVIOUS
  <1> DEFINE e == Event(u, d, FALSE, "spend")
  <1>1. e \in XpEvent /\ e.user = u /\ e.delta = d
    BY DEF Event, XpEvent
  <1>2. SpendOutcome(k, u, amount) = "spent" => xp' = Post(xp, k, e)
    BY <1>0 DEF SpendXp
  <1> HIDE DEF e
  <1>3. CASE SpendOutcome(k, u, amount) # "spent"
    <2>1. xp' = xp
      BY <1>3 DEF SpendXp
    <2>2. \A v \in XpUser : XpBalance(v)' = XpBalance(v) /\ XpBalance(v) \in Int
      BY <2>1, BalanceOf, BooksSpendable
    <2>3. Covered
      BY <2>2, GainIsCovered DEF Smaller
    <2> QED
      BY <2>1, <2>3 DEF Books
  <1>4. CASE SpendOutcome(k, u, amount) = "spent"
    <2>1. xp' = Post(xp, k, e)
      BY <1>2, <1>4
    <2>2. Spendable(u) >= amount
      BY <1>4, BooksSpendable DEF SpendOutcome
    <2>3. Books'
      BY <1>1, <2>1, PostBalance DEF Books
    <2>4. ASSUME NEW v \in XpUser
          PROVE  XpBalance(v)' \in Int /\ XpBalance(v)' >= Smaller(0, XpBalance(v))
      <3>1. XpBalance(v)' = IF xp[k].user = NoXpUser /\ u = v THEN XpBalance(v) + d
                            ELSE XpBalance(v)
        BY <1>1, <2>1, BalanceOf, PostBalance DEF Books
      <3>2. XpBalance(v) \in Int
        BY BooksSpendable
      <3>3. u = v => amount = 0 \/ XpBalance(v) >= amount
        BY <2>2, <3>2, BooksSpendable
      <3> QED
        BY <1>0, <3>1, <3>2, <3>3 DEF Smaller
    <2> QED
      BY <2>3, <2>4, GainIsCovered
  <1> QED
    BY <1>3, <1>4

LEMMA TransferBooks ==
    ASSUME Books, NEW k \in BaseKey, NEW from \in XpUser, NEW to \in XpUser, NEW amount \in Nat,
           TransferXp(k, from, to, amount)
    PROVE  Books' /\ Covered
  <1> DEFINE debit == Event(from, -amount, FALSE, "transfer")
             credit == Event(to, amount, FALSE, "transfer")
             j == <<k, "debit">>
             c == <<k, "credit">>
             mid == Post(xp, j, debit)
             t == [user |-> from, to |-> to, amount |-> amount, refill |-> 0, growth |-> 0]
  <1>1. /\ debit \in XpEvent /\ debit.user = from /\ debit.delta = -amount
        /\ credit \in XpEvent /\ credit.user = to /\ credit.delta = amount
    BY DEF Event, XpEvent
  <1>2. j \in XpKey /\ c \in XpKey
    BY Keys DEF Suffix
  <1>3. /\ xp' = Post(mid, c, credit)
        /\ settled' = [settled EXCEPT ![<<"transfer", k>>] = t]
        /\ from # to /\ amount > 0 /\ Spendable(from) >= amount
    BY DEF TransferXp
  <1>4. xp[j].user = NoXpUser
    BY DEF TransferXp, Free, Posted
  <1>5. settled' \in [{"transfer", "gamble"} \X BaseKey -> Settlement]
    <2>1. t \in Settlement
      BY DEF Settlement
    <2> HIDE DEF t
    <2> QED
      BY <1>3, <2>1 DEF Books
  <1> HIDE DEF debit, credit, j, c, t
  <1>6. Book(mid)
    BY <1>1, <1>2, PostBalance DEF Books
  <1>7. Books'
    <2>1. Book(xp')
      <3> HIDE DEF mid
      <3> QED
        BY <1>1, <1>2, <1>3, <1>6, PostBalance
    <2> QED
      BY <1>5, <2>1 DEF Books
  <1>8. ASSUME NEW v \in XpUser
        PROVE  XpBalance(v)' \in Int /\ XpBalance(v)' >= Smaller(0, XpBalance(v))
    <2>1. Balance(mid, v) = IF from = v THEN XpBalance(v) + (-amount) ELSE XpBalance(v)
      BY <1>1, <1>2, <1>4, BalanceOf, PostBalance DEF Books
    <2> HIDE DEF mid
    <2>2. XpBalance(v)' = IF mid[c].user = NoXpUser /\ to = v
                          THEN Balance(mid, v) + amount ELSE Balance(mid, v)
      BY <1>1, <1>2, <1>3, <1>6, BalanceOf, PostBalance
    <2>3. XpBalance(v) \in Int
      BY BooksSpendable
    <2>4. from = v => XpBalance(v) >= amount
      BY <1>3, <2>3, BooksSpendable
    <2> QED
      BY <1>3, <2>1, <2>2, <2>3, <2>4 DEF Smaller
  <1> QED
    BY <1>7, <1>8, GainIsCovered

\* What a gamble restores and grows is never negative.
LEMMA PayoutParts ==
    ASSUME Books, NEW u \in XpUser, NEW wager \in Nat, NEW payout \in Nat
    PROVE  Refilled(u, wager, payout) \in Nat /\ Growth(u, wager, payout) \in Nat
  <1>1. Lifetime(u) \in Int
    <2> DEFINE S == {k \in EventsOf(u) : xp[k].delta > 0 /\ xp[k].lifetime}
    <2>1. IsFiniteSet(S)
      <3>1. S \subseteq Entries(xp)
        BY Users DEF Entries, EventsOf
      <3> QED
        BY <3>1, FS_Subset DEF Books, Book
    <2>2. \A k \in S : Deltas[k] \in Int
      BY DEF Books, Book, XpEvent, Deltas, EventsOf
    <2>3. Lifetime(u) = SumFunctionOnSet(Deltas, S)
      BY DEF Lifetime
    <2> HIDE DEF S
    <2> QED
      BY <2>1, <2>2, <2>3, SumType
  <1>2. Spendable(u) \in Nat
    BY BooksSpendable
  <1> DEFINE missing == Lifetime(u) - (Spendable(u) - wager)
  <1>3. missing \in Int
    BY <1>1, <1>2
  <1>4. Refilled(u, wager, payout) = Smaller(payout, AtLeastZero(missing))
    BY DEF Refilled
  <1> HIDE DEF missing
  <1>5. Refilled(u, wager, payout) \in Nat /\ Refilled(u, wager, payout) <= payout
    BY <1>3, <1>4 DEF AtLeastZero, Smaller
  <1> DEFINE rest == payout - Refilled(u, wager, payout)
             tenth == rest \div 10
  <1>6. rest \in Nat
    BY <1>5
  <1>7. Growth(u, wager, payout) = tenth \div 2
    BY DEF Growth
  <1>8. tenth \in Nat
    <2> HIDE DEF rest
    <2> QED
      BY <1>6
  <1>9. tenth \div 2 \in Nat
    <2> HIDE DEF tenth
    <2> QED
      BY <1>8
  <1> QED
    BY <1>5, <1>7, <1>9

LEMMA GambleBooks ==
    ASSUME Books, NEW k \in BaseKey, NEW u \in XpUser, NEW wager \in Nat, NEW payout \in Nat,
           GambleXp(k, u, wager, payout)
    PROVE  Books' /\ Covered
  <1> DEFINE w == <<k, "wager">>
             r == <<k, "refill">>
             g == <<k, "growth">>
             refill == Refilled(u, wager, payout)
             growth == Growth(u, wager, payout)
             wagered == Event(u, -wager, FALSE, "gamble")
             refilled == Event(u, refill, FALSE, "gamble")
             grown == Event(u, growth, TRUE, "gamble")
             first == PostUnlessZero(xp, w, wagered)
             second == PostUnlessZero(first, r, refilled)
             receipt0 == [user |-> u, to |-> NoXpUser, amount |-> wager, refill |-> refill,
                          growth |-> growth]
  <1>1. w \in XpKey /\ r \in XpKey /\ g \in XpKey /\ w # r /\ w # g /\ r # g
    BY Keys DEF Suffix
  <1>2. xp[w].user = NoXpUser /\ xp[r].user = NoXpUser /\ xp[g].user = NoXpUser
    BY DEF GambleXp, Free, Posted
  <1>3. /\ xp' = PostUnlessZero(second, g, grown)
        /\ settled' = [settled EXCEPT ![<<"gamble", k>>] = receipt0]
        /\ Spendable(u) >= wager
    BY DEF GambleXp
  <1>4. refill \in Nat /\ growth \in Nat
    BY PayoutParts
  <1> HIDE DEF refill, growth
  <1>5. /\ wagered \in XpEvent /\ wagered.user = u /\ wagered.delta = -wager
        /\ refilled \in XpEvent /\ refilled.user = u /\ refilled.delta = refill
        /\ grown \in XpEvent /\ grown.user = u /\ grown.delta = growth
    BY <1>4 DEF Event, XpEvent
  <1>6. settled' \in [{"transfer", "gamble"} \X BaseKey -> Settlement]
    <2>1. receipt0 \in Settlement
      BY <1>4 DEF Settlement
    <2> HIDE DEF receipt0
    <2> QED
      BY <1>3, <2>1 DEF Books
  <1> HIDE DEF w, r, g, wagered, refilled, grown, receipt0
  <1>7. first[r].user = NoXpUser /\ first[g].user = NoXpUser
    BY <1>1, <1>2, TypedJournal, OthersStay DEF Books
  <1>8. Book(first)
    BY <1>1, <1>2, <1>5, PostUnlessZeroBalance DEF Books
  <1>9. second[g].user = NoXpUser
    <2> HIDE DEF first
    <2> QED
      BY <1>1, <1>7, <1>8, TypedJournal, OthersStay
  <1>10. Book(second)
    <2> HIDE DEF first
    <2> QED
      BY <1>1, <1>5, <1>7, <1>8, PostUnlessZeroBalance
  <1>11. Books'
    <2>1. Book(xp')
      <3> HIDE DEF second
      <3> QED
        BY <1>1, <1>3, <1>5, <1>9, <1>10, PostUnlessZeroBalance
    <2> QED
      BY <1>6, <2>1 DEF Books
  <1>12. ASSUME NEW v \in XpUser
         PROVE  XpBalance(v)' \in Int /\ XpBalance(v)' >= Smaller(0, XpBalance(v))
    <2>1. Balance(first, v) = IF u = v THEN XpBalance(v) + (-wager) ELSE XpBalance(v)
      BY <1>1, <1>2, <1>5, BalanceOf, PostUnlessZeroBalance DEF Books
    <2> HIDE DEF first
    <2>2. Balance(second, v) = IF u = v THEN Balance(first, v) + refill ELSE Balance(first, v)
      BY <1>1, <1>5, <1>7, <1>8, PostUnlessZeroBalance
    <2> HIDE DEF second
    <2>3. XpBalance(v)' = IF u = v THEN Balance(second, v) + growth ELSE Balance(second, v)
      BY <1>1, <1>3, <1>5, <1>9, <1>10, BalanceOf, PostUnlessZeroBalance
    <2>4. XpBalance(v) \in Int
      BY BooksSpendable
    <2>5. u = v => wager = 0 \/ XpBalance(v) >= wager
      BY <1>3, <2>4, BooksSpendable
    <2> QED
      BY <1>4, <2>1, <2>2, <2>3, <2>4, <2>5 DEF Smaller
  <1> QED
    BY <1>11, <1>12, GainIsCovered

LEMMA LedgerBooks ==
    ASSUME Books, LedgerNext
    PROVE  Books' /\ Covered
  <1>1. ASSUME NEW k \in RawKey, NEW u \in XpUser, NEW delta \in Award, NEW lifetime \in BOOLEAN,
               AwardXp(k, u, delta, lifetime)
        PROVE  Books' /\ Covered
    BY <1>1, AwardBooks, LedgerAssumption
  <1>2. ASSUME NEW k \in RawKey, NEW u \in XpUser, NEW amount \in Wager \ {0},
               SpendXp(k, u, amount) /\ UNCHANGED settled
        PROVE  Books' /\ Covered
    BY <1>2, SpendBooks, LedgerAssumption
  <1>3. ASSUME NEW k \in BaseKey, NEW from \in XpUser, NEW to \in XpUser, NEW amount \in Wager,
               TransferXp(k, from, to, amount)
        PROVE  Books' /\ Covered
    BY <1>3, TransferBooks, LedgerAssumption
  <1>4. ASSUME NEW k \in BaseKey, NEW u \in XpUser, NEW wager \in Wager, NEW payout \in Payout,
               GambleXp(k, u, wager, payout)
        PROVE  Books' /\ Covered
    BY <1>4, GambleBooks, LedgerAssumption
  <1> QED
    BY <1>1, <1>2, <1>3, <1>4 DEF LedgerNext

LEMMA BooksInit == LedgerInit => Books
  <1> SUFFICES ASSUME LedgerInit PROVE Books
    OBVIOUS
  <1>1. xp \in [XpKey -> XpEvent] /\ settled \in [{"transfer", "gamble"} \X BaseKey -> Settlement]
    BY DEF LedgerInit, NoXpEvent, XpEvent, NoSettlement, Settlement
  <1>2. Entries(xp) = {}
    BY DEF LedgerInit, NoXpEvent, Entries
  <1> QED
    BY <1>1, <1>2, FS_EmptySet DEF Books, Book

-----------------------------------------------------------------------------
(* Redemptions. *)

CallType == [request: RewardRequest \cup {NoRewardRequest},
             step: {"idle", "asked", "charged", "refused"}]

PaysXp(r) == Opened(r) /\ receipt[r].currency = "spmt"

\* What a call in flight is entitled to think of its request.
CallOK(x) == x.step # "idle" => /\ x.request \in RewardRequest /\ PaysXp(x.request)
                                /\ x.step = "charged" => ChargedFor(x.request)

\* Who can still be, or is, the first has the lock.
HoldsLock(r) ==
    Opened(r) /\ receipt[r].reward.first /\ receipt[r].state # "rejected"
      => claim[receipt[r].reward] = r

\* A pending receipt waits for its payment in XP; one complete had it.
ReceiptOK(r) ==
    /\ Waiting(r) => PaysXp(r)
    /\ PaysXp(r) /\ receipt[r].state = "complete" => ChargedFor(r)
    /\ HoldsLock(r)

RInv ==
    /\ LInv
    /\ receipt \in [RewardRequest -> Receipt \cup {NoReward}]
    /\ claim = [w \in Reward |-> claim[w]]
    /\ redeem \in [RewardCall -> CallType]
    /\ late \subseteq RewardRequest
    /\ \A r \in RewardRequest : ReceiptOK(r)
    /\ \A c \in RewardCall : CallOK(redeem[c])
    /\ \A r \in late : PaysXp(r)

\* A receipt, once written, keeps its terms.
TermsKept(r) ==
    Opened(r) => /\ Opened(r)'
                 /\ receipt'[r].user = receipt[r].user /\ receipt'[r].reward = receipt[r].reward
                 /\ receipt'[r].currency = receipt[r].currency /\ receipt'[r].cost = receipt[r].cost

LEMMA RewardKeys ==
    /\ \A r \in RewardRequest : RewardKey(r) \in XpKey
    /\ \A r, s \in RewardRequest : RewardKey(r) = RewardKey(s) => r = s
  BY RewardAssumption DEF RewardKey, XpKey, Suffix

LEMMA ReceiptStates ==
    ASSUME NEW p \in Receipt, NEW state \in {"pending", "complete", "rejected"}
    PROVE  LET q == [p EXCEPT !.state = state] IN
           /\ q \in Receipt /\ q.state = state
           /\ q.user = p.user /\ q.reward = p.reward /\ q.currency = p.currency /\ q.cost = p.cost
  BY DEF Receipt

LEMMA OpenedType ==
    ASSUME RInv, NEW r \in RewardRequest, Opened(r)
    PROVE  receipt[r] \in Receipt
  BY DEF RInv, Opened

\* A charge stays while the journal grows and the receipt keeps its terms.
LEMMA ChargeStays ==
    ASSUME RInv, Grows(xp, xp'), NEW r \in RewardRequest, TermsKept(r), Opened(r), ChargedFor(r)
    PROVE  ChargedFor(r)'
  <1>1. receipt[r].user # NoXpUser
    BY OpenedType, Users DEF Receipt
  <1>2. xp'[RewardKey(r)] = xp[RewardKey(r)]
    BY <1>1, RewardKeys DEF Grows, ChargedFor
  <1> QED
    BY <1>2 DEF ChargedFor, TermsKept, RewardKey

LEMMA CallsStay ==
    ASSUME RInv, Grows(xp, xp'), \A r \in RewardRequest : TermsKept(r),
           NEW c \in RewardCall, redeem'[c] = redeem[c]
    PROVE  CallOK(redeem[c])'
  BY ChargeStays DEF RInv, CallOK, PaysXp, TermsKept

LEMMA IdleOK ==
    ASSUME NEW c \in RewardCall, redeem'[c] = NoCall
    PROVE  CallOK(redeem[c])'
  BY DEF CallOK, NoCall

\* While receipts and locks stay, only the calls' own progress matters.
LEMMA QuietKeeps ==
    ASSUME RInv, LInv', Grows(xp, xp'), UNCHANGED <<receipt, claim>>,
           redeem' \in [RewardCall -> CallType],
           \A c \in RewardCall : CallOK(redeem[c])',
           late' \subseteq RewardRequest, \A r \in late' : PaysXp(r)
    PROVE  RInv'
  <1>1. \A r \in RewardRequest : TermsKept(r)
    BY DEF TermsKept, Opened
  <1>2. ASSUME NEW r \in RewardRequest PROVE ReceiptOK(r)'
    <2>1. ReceiptOK(r)
      BY DEF RInv
    <2>2. PaysXp(r)' <=> PaysXp(r)
      BY DEF PaysXp, Opened
    <2>3. PaysXp(r) /\ receipt[r].state = "complete" => ChargedFor(r)'
      BY <1>1, <2>1, ChargeStays DEF ReceiptOK, PaysXp
    <2>4. (Waiting(r)' <=> Waiting(r)) /\ (HoldsLock(r)' <=> HoldsLock(r))
      BY DEF Waiting, Opened, HoldsLock
    <2> QED
      BY <2>1, <2>2, <2>3, <2>4 DEF ReceiptOK
  <1>3. \A r \in late' : PaysXp(r)'
    BY DEF PaysXp, Opened
  <1> QED
    BY <1>2, <1>3 DEF RInv

\* A spend's key and terms are those of its receipt, or nothing is posted.
LEMMA PayPosts ==
    ASSUME RInv, NEW r \in RewardRequest, Pay(r)
    PROVE  /\ LInv' /\ Grows(xp, xp')
           /\ \A j \in XpKey : j # RewardKey(r) => xp'[j] = xp[j]
           /\ \/ xp' = xp
              \/ xp'[RewardKey(r)] = Event(receipt[r].user, -receipt[r].cost, FALSE, "spend")
           /\ SpendOutcome(RewardKey(r), receipt[r].user, receipt[r].cost) \in {"spent", "duplicate"} =>
                /\ xp'[RewardKey(r)].user = receipt[r].user
                /\ xp'[RewardKey(r)].delta = -receipt[r].cost
  <1> DEFINE k == RewardKey(r)
             u == receipt[r].user
             cost == receipt[r].cost
             event == Event(u, -cost, FALSE, "spend")
  <1>1. LInv /\ k \in XpKey /\ SpendXp(k, u, cost) /\ UNCHANGED settled
    BY RewardKeys DEF RInv, Pay
  <1>2. /\ Journal(xp') /\ Grows(xp, xp')
        /\ \A j \in XpKey : j # k => xp'[j] = xp[j]
        /\ ~Posted(k) /\ SpendOutcome(k, u, cost) = "spent" => xp'[k] = event
        /\ SpendOutcome(k, u, cost) # "spent" => xp' = xp
    <2> HIDE DEF k, u, cost
    <2> QED
      BY <1>1, SpendGrows
  <1>3. SpendOutcome(k, u, cost) = "spent" => ~Posted(k)
    BY DEF SpendOutcome
  <1>4. SpendOutcome(k, u, cost) = "duplicate" => xp[k].user = u /\ xp[k].delta = -cost
    BY DEF SpendOutcome
  <1>5. event.user = u /\ event.delta = -cost
    BY DEF Event
  <1>6. LInv'
    BY <1>1, <1>2, BookedStays
  <1> HIDE DEF k, u, cost, event
  <1>7. /\ xp' = xp \/ xp'[k] = event
        /\ SpendOutcome(k, u, cost) \in {"spent", "duplicate"} => xp'[k].user = u /\ xp'[k].delta = -cost
    BY <1>2, <1>3, <1>4, <1>5
  <1> QED
    BY <1>2, <1>6, <1>7 DEF k, u, cost, event

LEMMA NoCallType == NoCall \in CallType
  BY DEF NoCall, CallType

LEMMA PaymentKeeps ==
    ASSUME RInv, NEW c \in RewardCall, PaymentArrives(c)
    PROVE  RInv' /\ Grows(xp, xp')
  <1>0. PICK r \in RewardRequest : r = redeem[c].request
    BY DEF PaymentArrives, RInv, CallOK
  <1> DEFINE outcome == SpendOutcome(RewardKey(r), receipt[r].user, receipt[r].cost)
             after == IF outcome = "conflict" THEN NoCall
                      ELSE [redeem[c] EXCEPT !.step =
                              IF outcome = "insufficient" THEN "refused" ELSE "charged"]
  <1>1. redeem[c] \in CallType /\ redeem[c].step = "asked" /\ CallOK(redeem[c])
    BY DEF PaymentArrives, RInv
  <1>2. r \in RewardRequest /\ PaysXp(r)
    BY <1>0, <1>1 DEF CallOK
  <1>3. Pay(r) /\ UNCHANGED <<receipt, claim, late>> /\ redeem' = [redeem EXCEPT ![c] = after]
    BY <1>0 DEF PaymentArrives
  <1>4. /\ LInv' /\ Grows(xp, xp')
        /\ outcome \in {"spent", "duplicate"} => /\ xp'[RewardKey(r)].user = receipt[r].user
                                               /\ xp'[RewardKey(r)].delta = -receipt[r].cost
    BY <1>2, <1>3, PayPosts
  <1>5. outcome \in {"conflict", "insufficient", "spent", "duplicate"}
    BY DEF SpendOutcome
  <1>6. /\ after \in CallType
        /\ after = NoCall \/ after.request = r
        /\ after.step = "charged" => outcome \in {"spent", "duplicate"}
    <2> HIDE DEF outcome
    <2>1. CASE outcome = "conflict"
      BY <2>1, NoCallType DEF NoCall
    <2>2. CASE outcome = "insufficient"
      BY <1>0, <1>1, <2>2 DEF CallType
    <2>3. CASE outcome \in {"spent", "duplicate"}
      BY <1>0, <1>1, <2>3 DEF CallType
    <2> QED
      BY <1>5, <2>1, <2>2, <2>3
  <1>7. \A s \in RewardRequest : TermsKept(s)
    BY <1>3 DEF TermsKept, Opened
  <1>8. PaysXp(r)' /\ (outcome \in {"spent", "duplicate"} => ChargedFor(r)')
    <2> HIDE DEF outcome, after
    <2>1. PaysXp(r)'
      BY <1>2, <1>3 DEF PaysXp, Opened
    <2> QED
      BY <1>3, <1>4, <2>1 DEF ChargedFor, RewardKey
  <1> HIDE DEF after, outcome
  <1>9. ASSUME NEW d \in RewardCall PROVE CallOK(redeem[d])'
    <2>1. CASE d # c
      BY <1>3, <1>4, <1>7, <2>1, CallsStay DEF RInv
    <2>2. CASE d = c
      <3>1. redeem'[c] = after
        BY <1>3 DEF RInv
      <3> QED
        BY <1>2, <1>6, <1>8, <2>2, <3>1, IdleOK DEF CallOK
    <2> QED
      BY <2>1, <2>2
  <1>10. redeem' \in [RewardCall -> CallType]
    BY <1>3, <1>6 DEF RInv
  <1>11. late' \subseteq RewardRequest /\ \A s \in late' : PaysXp(s)
    BY <1>3 DEF RInv
  <1> QED
    BY <1>3, <1>4, <1>9, <1>10, <1>11, QuietKeeps

\* A call that ends, leaving its payment under way or not.
LEMMA CallEnds ==
    ASSUME RInv, NEW c \in RewardCall, GiveUp(c) \/ AnswerLost(c)
    PROVE  RInv' /\ Grows(xp, xp')
  <1>1. /\ UNCHANGED <<xp, settled, receipt, claim>>
        /\ redeem' = [redeem EXCEPT ![c] = NoCall]
    BY DEF GiveUp, AnswerLost, ledgerVars
  <1>2. late' = late \/ (late' = late \cup {redeem[c].request} /\ redeem[c].step = "asked")
    BY DEF GiveUp, AnswerLost
  <1>3. LInv' /\ Grows(xp, xp')
    BY <1>1 DEF RInv, LInv, Journal, Receipts, Grows, TransferBooked, GambleBooked, Booked
  <1>4. \A s \in RewardRequest : TermsKept(s)
    BY <1>1 DEF TermsKept, Opened
  <1>5. ASSUME NEW d \in RewardCall PROVE CallOK(redeem[d])'
    <2>1. CASE d # c
      BY <1>1, <1>3, <1>4, <2>1, CallsStay DEF RInv
    <2>2. CASE d = c
      BY <1>1, <2>2, IdleOK DEF RInv
    <2> QED
      BY <2>1, <2>2
  <1>6. redeem' \in [RewardCall -> CallType]
    BY <1>1, NoCallType DEF RInv
  <1>7. late' \subseteq RewardRequest /\ \A s \in late' : PaysXp(s)
    BY <1>2 DEF RInv, CallOK
  <1> QED
    BY <1>1, <1>3, <1>5, <1>6, <1>7, QuietKeeps

LEMMA LateKeeps ==
    ASSUME RInv, NEW r \in RewardRequest, LatePayment(r)
    PROVE  RInv' /\ Grows(xp, xp')
  <1>1. Pay(r) /\ UNCHANGED <<receipt, claim, redeem>> /\ late' = late \ {r}
    BY DEF LatePayment
  <1>2. LInv' /\ Grows(xp, xp')
    BY <1>1, PayPosts
  <1>3. \A s \in RewardRequest : TermsKept(s)
    BY <1>1 DEF TermsKept, Opened
  <1>4. \A d \in RewardCall : CallOK(redeem[d])'
    BY <1>1, <1>2, <1>3, CallsStay
  <1> QED
    BY <1>1, <1>2, <1>4, QuietKeeps DEF RInv

\* Other apps at work in the ledger.
LEMMA AppsKeep ==
    ASSUME RInv, LedgerNext, UNCHANGED rewardVars
    PROVE  RInv' /\ Grows(xp, xp')
  <1>1. UNCHANGED <<receipt, claim, redeem, late>>
    BY DEF rewardVars
  <1>2. LInv' /\ Grows(xp, xp')
    BY LedgerKeeps DEF RInv
  <1>3. \A s \in RewardRequest : TermsKept(s)
    BY <1>1 DEF TermsKept, Opened
  <1>4. \A d \in RewardCall : CallOK(redeem[d])'
    BY <1>1, <1>2, <1>3, CallsStay
  <1> QED
    BY <1>1, <1>2, <1>4, QuietKeeps DEF RInv

-----------------------------------------------------------------------------
(* StreamWeaver's writes. *)

\* A write of one receipt leaves the others good if it leaves them their locks.
LEMMA WriteKeeps ==
    ASSUME RInv, UNCHANGED <<xp, settled, late>>,
           NEW r \in RewardRequest, NEW p \in Receipt,
           receipt' = [receipt EXCEPT ![r] = p], TermsKept(r), ReceiptOK(r)',
           claim' = [w \in Reward |-> claim'[w]],
           \A s \in RewardRequest \ {r} : HoldsLock(s)',
           redeem' \in [RewardCall -> CallType],
           \A c \in RewardCall : redeem'[c] = redeem[c] \/ CallOK(redeem[c])'
    PROVE  RInv' /\ Grows(xp, xp')
  <1>1. LInv' /\ Grows(xp, xp')
    BY DEF RInv, LInv, Journal, Receipts, Grows, TransferBooked, GambleBooked, Booked
  <1>2. receipt' \in [RewardRequest -> Receipt \cup {NoReward}]
    BY DEF RInv
  <1>3. ASSUME NEW s \in RewardRequest, s # r
        PROVE  receipt'[s] = receipt[s]
    BY <1>3 DEF RInv
  <1>4. \A s \in RewardRequest : TermsKept(s)
    BY <1>3 DEF TermsKept, Opened
  <1>5. ASSUME NEW s \in RewardRequest, s # r PROVE ReceiptOK(s)'
    <2>1. ReceiptOK(s) /\ HoldsLock(s)'
      BY <1>5 DEF RInv
    <2>2. (Waiting(s)' <=> Waiting(s)) /\ (PaysXp(s)' <=> PaysXp(s))
      BY <1>3, <1>5 DEF Waiting, PaysXp, Opened
    <2>3. ChargedFor(s)' <=> ChargedFor(s)
      BY <1>3, <1>5 DEF ChargedFor, RewardKey
    <2>4. receipt'[s].state = receipt[s].state
      BY <1>3, <1>5
    <2> QED
      BY <2>1, <2>2, <2>3, <2>4 DEF ReceiptOK
  <1>6. \A c \in RewardCall : CallOK(redeem[c])'
    BY <1>1, <1>4, CallsStay
  <1>7. \A s \in late' : PaysXp(s)'
    BY <1>4 DEF RInv, PaysXp, TermsKept
  <1> QED
    BY <1>1, <1>2, <1>5, <1>6, <1>7 DEF RInv

\* A first request of a reward finds the lock free, or does not want it.
LEMMA LocksApart ==
    ASSUME RInv, NEW r \in RewardRequest, NEW new \in Receipt, ~Opened(r), ~Taken(new.reward),
           claim' = Claimed(r, new), NEW p \in Receipt, p.reward = new.reward,
           receipt' = [receipt EXCEPT ![r] = p]
    PROVE  /\ claim' = [w \in Reward |-> claim'[w]]
           /\ \A s \in RewardRequest : HoldsLock(s)'
  <1>1. new.reward \in Reward
    BY DEF Receipt
  <1>2. claim' = [w \in Reward |-> claim'[w]]
    BY <1>1 DEF RInv, Claimed
  <1>3. HoldsLock(r)'
    BY <1>1 DEF RInv, Claimed, HoldsLock
  <1>4. ASSUME NEW s \in RewardRequest, s # r PROVE HoldsLock(s)'
    <2>1. HoldsLock(s) /\ receipt'[s] = receipt[s]
      BY <1>4 DEF RInv, ReceiptOK
    <2>2. CASE Opened(s) /\ receipt[s].reward.first /\ receipt[s].state # "rejected"
      <3>1. claim[receipt[s].reward] = s /\ s # NoRewardRequest
        BY <2>1, <2>2, RewardAssumption DEF HoldsLock
      <3>2. new.reward.first => receipt[s].reward # new.reward
        BY <3>1 DEF Taken
      <3>3. claim'[receipt[s].reward] = claim[receipt[s].reward]
        BY <1>1, <3>2 DEF Claimed, RInv
      <3> QED
        BY <2>1, <3>1, <3>3 DEF HoldsLock, Opened
    <2>3. CASE ~(Opened(s) /\ receipt[s].reward.first /\ receipt[s].state # "rejected")
      BY <2>1, <2>3 DEF HoldsLock, Opened
    <2> QED
      BY <2>2, <2>3
  <1> QED
    BY <1>2, <1>3, <1>4

LEMMA OpenKeeps ==
    ASSUME RInv, NEW c \in RewardCall, NEW r \in RewardRequest, NEW new \in Receipt,
           new.state = "pending", OpenReceipt(c, r, new), UNCHANGED <<ledgerVars, late>>
    PROVE  RInv' /\ Grows(xp, xp')
  <1>1. UNCHANGED <<xp, settled, late>> /\ ~Opened(r) /\ TermsKept(r)
    BY DEF OpenReceipt, ledgerVars, TermsKept
  <1>2. ASSUME receipt' = [receipt EXCEPT ![r] = [new EXCEPT !.state = "rejected"]],
               UNCHANGED <<claim, redeem>>
        PROVE  RInv' /\ Grows(xp, xp')
    <2>1. PICK p \in Receipt : p = [new EXCEPT !.state = "rejected"] /\ p.state = "rejected"
      BY ReceiptStates
    <2>2. receipt' = [receipt EXCEPT ![r] = p] /\ receipt'[r] = p
      BY <1>2, <2>1 DEF RInv
    <2>3. ReceiptOK(r)'
      BY <2>1, <2>2 DEF ReceiptOK, Waiting, HoldsLock
    <2>4. ASSUME NEW s \in RewardRequest, s # r PROVE HoldsLock(s)'
      BY <1>2, <2>2, <2>4 DEF RInv, ReceiptOK, HoldsLock, Opened
    <2> QED
      BY <1>1, <1>2, <2>2, <2>3, <2>4, WriteKeeps DEF RInv
  <1>3. ASSUME ~Taken(new.reward), PaidLocally(r, new)
        PROVE  RInv' /\ Grows(xp, xp')
    <2>1. PICK p \in Receipt : /\ p = [new EXCEPT !.state = "complete"] /\ p.state = "complete"
                               /\ p.reward = new.reward /\ p.currency = "streamer"
      <3>1. new.currency = "streamer"
        BY <1>3 DEF PaidLocally
      <3>2. LET q == [new EXCEPT !.state = "complete"] IN
            /\ q \in Receipt /\ q.state = "complete"
            /\ q.reward = new.reward /\ q.currency = new.currency
        BY ReceiptStates
      <3> QED
        BY <3>1, <3>2
    <2>2. receipt' = [receipt EXCEPT ![r] = p] /\ receipt'[r] = p /\ claim' = Claimed(r, new)
          /\ redeem' = redeem
      BY <1>3, <2>1 DEF RInv, PaidLocally
    <2>3. claim' = [w \in Reward |-> claim'[w]] /\ \A s \in RewardRequest : HoldsLock(s)'
      BY <1>1, <1>3, <2>1, <2>2, LocksApart
    <2>4. ReceiptOK(r)'
      BY <2>1, <2>2, <2>3 DEF ReceiptOK, Waiting, PaysXp
    <2> QED
      BY <1>1, <2>2, <2>3, <2>4, WriteKeeps DEF RInv
  <1>4. ASSUME ~Taken(new.reward), new.currency = "spmt", receipt' = [receipt EXCEPT ![r] = new],
               claim' = Claimed(r, new), Ask(c, r)
        PROVE  RInv' /\ Grows(xp, xp')
    <2>1. receipt'[r] = new
      BY <1>4 DEF RInv
    <2>2. claim' = [w \in Reward |-> claim'[w]] /\ \A s \in RewardRequest : HoldsLock(s)'
      BY <1>1, <1>4, LocksApart
    <2>3. PaysXp(r)'
      BY <1>4, <2>1, NoRewardAssumption DEF PaysXp, Opened
    <2>4. ReceiptOK(r)'
      BY <2>1, <2>2, <2>3 DEF ReceiptOK, Waiting
    <2>5. /\ redeem' \in [RewardCall -> CallType]
          /\ \A d \in RewardCall : redeem'[d] = redeem[d] \/ CallOK(redeem[d])'
      BY <1>4, <2>3 DEF Ask, RInv, CallType, CallOK
    <2> QED
      BY <1>1, <1>4, <2>2, <2>4, <2>5, WriteKeeps
  <1> QED
    BY <1>2, <1>3, <1>4 DEF OpenReceipt

LEMMA ResumeKeeps ==
    ASSUME RInv, NEW c \in RewardCall, NEW r \in RewardRequest, NEW new,
           Resume(c, r, new), UNCHANGED <<ledgerVars, late>>
    PROVE  RInv' /\ Grows(xp, xp')
  <1>1. UNCHANGED <<xp, settled, receipt, claim, late>> /\ PaysXp(r)
    BY DEF Resume, ledgerVars, RInv, ReceiptOK
  <1>2. LInv' /\ Grows(xp, xp')
    BY <1>1 DEF RInv, LInv, Journal, Receipts, Grows, TransferBooked, GambleBooked, Booked
  <1>3. \A s \in RewardRequest : TermsKept(s)
    BY <1>1 DEF TermsKept, Opened
  <1>4. PaysXp(r)'
    BY <1>1 DEF PaysXp, Opened
  <1>5. /\ redeem' \in [RewardCall -> CallType]
        /\ \A d \in RewardCall : redeem'[d] = redeem[d] \/ CallOK(redeem[d])'
    BY <1>4 DEF Resume, Ask, RInv, CallType, CallOK
  <1>6. \A d \in RewardCall : CallOK(redeem[d])'
    BY <1>2, <1>3, <1>5, CallsStay
  <1> QED
    BY <1>1, <1>2, <1>5, <1>6, QuietKeeps DEF RInv

\* A call that found its receipt settled ends and writes nothing.
LEMMA EndKeeps ==
    ASSUME RInv, NEW c \in RewardCall, UNCHANGED <<ledgerVars, receipt, claim, late>>,
           redeem' = [redeem EXCEPT ![c] = NoCall]
    PROVE  RInv' /\ Grows(xp, xp')
  <1>1. LInv' /\ Grows(xp, xp')
    BY DEF ledgerVars, RInv, LInv, Journal, Receipts, Grows, TransferBooked, GambleBooked, Booked
  <1>2. \A s \in RewardRequest : TermsKept(s)
    BY DEF TermsKept, Opened
  <1>3. ASSUME NEW d \in RewardCall PROVE CallOK(redeem[d])'
    <2>1. CASE d # c
      BY <1>1, <1>2, <2>1, CallsStay DEF RInv
    <2>2. CASE d = c
      BY <2>2, IdleOK DEF RInv
    <2> QED
      BY <2>1, <2>2
  <1>4. redeem' \in [RewardCall -> CallType]
    BY NoCallType DEF RInv
  <1> QED
    BY <1>1, <1>3, <1>4, QuietKeeps DEF RInv

LEMMA SettleKeeps ==
    ASSUME RInv, NEW c \in RewardCall, SettleReward(c)
    PROVE  RInv' /\ Grows(xp, xp')
  <1>1. PICK r \in RewardRequest :
          /\ r = redeem[c].request /\ PaysXp(r) /\ ChargedFor(r)
    BY DEF SettleReward, RInv, CallOK
  <1>2. /\ UNCHANGED <<xp, settled, claim, late>> /\ UNCHANGED ledgerVars
        /\ redeem' = [redeem EXCEPT ![c] = NoCall]
        /\ \/ /\ receipt[r].state = "pending"
              /\ receipt' = [receipt EXCEPT ![r].state = "complete"]
           \/ UNCHANGED receipt
    BY <1>1 DEF SettleReward, StillPending, ledgerVars
  <1>3. CASE UNCHANGED receipt
    BY <1>2, <1>3, EndKeeps
  <1>4. ASSUME receipt[r].state = "pending", receipt' = [receipt EXCEPT ![r].state = "complete"]
        PROVE  RInv' /\ Grows(xp, xp')
    <2>1. receipt[r] \in Receipt
      BY <1>1, OpenedType DEF PaysXp
    <2>2. PICK p \in Receipt :
            /\ p = [receipt[r] EXCEPT !.state = "complete"] /\ p.state = "complete"
            /\ p.user = receipt[r].user /\ p.reward = receipt[r].reward
            /\ p.currency = receipt[r].currency /\ p.cost = receipt[r].cost
      BY <2>1, ReceiptStates
    <2>3. receipt' = [receipt EXCEPT ![r] = p] /\ receipt'[r] = p
      BY <1>4, <2>2 DEF RInv
    <2>4. TermsKept(r) /\ Opened(r)'
      BY <2>2, <2>3, NoRewardAssumption DEF TermsKept, Opened
    <2>5. ChargedFor(r)'
      BY <1>1, <1>2, <2>2, <2>3 DEF ChargedFor, RewardKey
    <2>6. HoldsLock(r)'
      BY <1>1, <1>2, <1>4, <2>2, <2>3 DEF RInv, ReceiptOK, HoldsLock, PaysXp
    <2>7. ReceiptOK(r)'
      BY <2>2, <2>3, <2>5, <2>6 DEF ReceiptOK, Waiting
    <2>8. ASSUME NEW s \in RewardRequest, s # r PROVE HoldsLock(s)'
      BY <1>2, <2>3, <2>8 DEF RInv, ReceiptOK, HoldsLock, Opened
    <2>9. /\ redeem' \in [RewardCall -> CallType]
          /\ \A d \in RewardCall : redeem'[d] = redeem[d] \/ CallOK(redeem[d])'
      BY <1>2, IdleOK, NoCallType DEF RInv
    <2>10. claim' = [w \in Reward |-> claim'[w]]
      BY <1>2 DEF RInv
    <2> QED
      BY <1>2, <2>3, <2>4, <2>7, <2>8, <2>9, <2>10, WriteKeeps
  <1> QED
    BY <1>2, <1>3, <1>4

LEMMA RefuseKeeps ==
    ASSUME RInv, NEW c \in RewardCall, RefuseReward(c)
    PROVE  RInv' /\ Grows(xp, xp')
  <1>1. PICK r \in RewardRequest : r = redeem[c].request /\ PaysXp(r)
    BY DEF RefuseReward, RInv, CallOK
  <1>2. /\ UNCHANGED <<xp, settled, late>> /\ UNCHANGED ledgerVars
        /\ redeem' = [redeem EXCEPT ![c] = NoCall]
        /\ \/ /\ receipt[r].state = "pending"
              /\ receipt' = [receipt EXCEPT ![r].state = "rejected"]
              /\ claim' = IF receipt[r].reward.first
                          THEN [claim EXCEPT ![receipt[r].reward] = NoRewardRequest] ELSE claim
           \/ UNCHANGED <<receipt, claim>>
    BY <1>1 DEF RefuseReward, StillPending, ledgerVars
  <1>3. CASE UNCHANGED <<receipt, claim>>
    BY <1>2, <1>3, EndKeeps
  <1>4. ASSUME receipt[r].state = "pending", receipt' = [receipt EXCEPT ![r].state = "rejected"],
               claim' = IF receipt[r].reward.first
                        THEN [claim EXCEPT ![receipt[r].reward] = NoRewardRequest] ELSE claim
        PROVE  RInv' /\ Grows(xp, xp')
    <2>1. receipt[r] \in Receipt /\ receipt[r].reward \in Reward
      BY <1>1, OpenedType DEF PaysXp, Receipt
    <2>2. PICK p \in Receipt :
            /\ p = [receipt[r] EXCEPT !.state = "rejected"] /\ p.state = "rejected"
            /\ p.user = receipt[r].user /\ p.reward = receipt[r].reward
            /\ p.currency = receipt[r].currency /\ p.cost = receipt[r].cost
      BY <2>1, ReceiptStates
    <2>3. receipt' = [receipt EXCEPT ![r] = p] /\ receipt'[r] = p
      BY <1>4, <2>2 DEF RInv
    <2>4. TermsKept(r) /\ ReceiptOK(r)'
      BY <2>2, <2>3, NoRewardAssumption DEF TermsKept, Opened, ReceiptOK, Waiting, HoldsLock
    <2>5. ASSUME NEW s \in RewardRequest, s # r PROVE HoldsLock(s)'
      <3>1. HoldsLock(s) /\ HoldsLock(r) /\ receipt'[s] = receipt[s]
        BY <2>3, <2>5 DEF RInv, ReceiptOK
      <3>2. CASE Opened(s) /\ receipt[s].reward.first /\ receipt[s].state # "rejected"
        <4>1. claim[receipt[s].reward] = s
          BY <3>1, <3>2 DEF HoldsLock
        <4>2. receipt[r].reward.first => claim[receipt[r].reward] = r
          BY <1>1, <1>4, <3>1 DEF HoldsLock, PaysXp
        <4>3. claim'[receipt[s].reward] = claim[receipt[s].reward]
          BY <1>4, <2>1, <2>5, <4>1, <4>2 DEF RInv
        <4> QED
          BY <3>1, <4>1, <4>3 DEF HoldsLock, Opened
      <3>3. CASE ~(Opened(s) /\ receipt[s].reward.first /\ receipt[s].state # "rejected")
        BY <3>1, <3>3 DEF HoldsLock, Opened
      <3> QED
        BY <3>2, <3>3
    <2>6. /\ redeem' \in [RewardCall -> CallType]
          /\ \A d \in RewardCall : redeem'[d] = redeem[d] \/ CallOK(redeem[d])'
      BY <1>2, IdleOK, NoCallType DEF RInv
    <2>7. claim' = [w \in Reward |-> claim'[w]]
      BY <1>4, <2>1 DEF RInv
    <2> QED
      BY <1>2, <2>3, <2>4, <2>5, <2>6, <2>7, WriteKeeps
  <1> QED
    BY <1>2, <1>3, <1>4

-----------------------------------------------------------------------------
(* The invariant. *)

LEMMA BeginKeeps ==
    ASSUME RInv, NEW c \in RewardCall, NEW r \in RewardRequest, NEW new \in Receipt,
           new.state = "pending", Begin(c, r, new)
    PROVE  RInv' /\ Grows(xp, xp')
  BY OpenKeeps, ResumeKeeps DEF Begin

LEMMA RewardStepKeeps ==
    ASSUME RInv, RewardStep
    PROVE  RInv' /\ Grows(xp, xp')
  <1>1. ASSUME NEW c \in RewardCall, NEW r \in RewardRequest, NEW u \in XpUser, NEW w \in Reward,
               Begin(c, r, [state |-> "pending", user |-> u, reward |-> w,
                            currency |-> "streamer", cost |-> w.price])
        PROVE  RInv' /\ Grows(xp, xp')
    <2>1. PICK new : new = [state |-> "pending", user |-> u, reward |-> w,
                            currency |-> "streamer", cost |-> w.price]
      OBVIOUS
    <2>2. new \in Receipt /\ new.state = "pending"
      BY <2>1, RewardAssumption DEF Receipt
    <2> QED
      BY <1>1, <2>1, <2>2, BeginKeeps
  <1>2. ASSUME NEW c \in RewardCall, NEW r \in RewardRequest, NEW u \in XpUser, NEW w \in Reward,
               NEW q \in Quote,
               Begin(c, r, [state |-> "pending", user |-> u, reward |-> w,
                            currency |-> "spmt", cost |-> q])
        PROVE  RInv' /\ Grows(xp, xp')
    <2>1. PICK new : new = [state |-> "pending", user |-> u, reward |-> w,
                            currency |-> "spmt", cost |-> q]
      OBVIOUS
    <2>2. new \in Receipt /\ new.state = "pending"
      BY <2>1, RewardAssumption DEF Receipt
    <2> QED
      BY <1>2, <2>1, <2>2, BeginKeeps
  <1>3. ASSUME NEW c \in RewardCall,
               \/ PaymentArrives(c) \/ GiveUp(c) \/ AnswerLost(c) \/ SettleReward(c) \/ RefuseReward(c)
        PROVE  RInv' /\ Grows(xp, xp')
    BY <1>3, PaymentKeeps, CallEnds, SettleKeeps, RefuseKeeps
  <1> QED
    BY <1>1, <1>2, <1>3, LateKeeps DEF RewardStep

LEMMA StutterKeeps ==
    ASSUME RInv, UNCHANGED allRewardVars
    PROVE  RInv' /\ Grows(xp, xp')
  <1>1. UNCHANGED <<xp, settled, receipt, claim, redeem, late>>
    BY DEF allRewardVars, ledgerVars, rewardVars
  <1>2. LInv' /\ Grows(xp, xp')
    BY <1>1 DEF RInv, LInv, Journal, Receipts, Grows, TransferBooked, GambleBooked, Booked
  <1>3. \A s \in RewardRequest : TermsKept(s)
    BY <1>1 DEF TermsKept, Opened
  <1>4. \A d \in RewardCall : CallOK(redeem[d])'
    BY <1>1, <1>2, <1>3, CallsStay
  <1> QED
    BY <1>1, <1>2, <1>4, QuietKeeps DEF RInv

LEMMA RInvInit == LedgerInit /\ RewardInit => RInv
  <1> SUFFICES ASSUME LedgerInit, RewardInit PROVE RInv
    OBVIOUS
  <1>1. LInv
    BY DEF LedgerInit, LInv, Journal, Receipts, TransferBooked, GambleBooked
  <1>2. /\ \A r \in RewardRequest : ReceiptOK(r)
        /\ \A c \in RewardCall : CallOK(redeem[c])
    BY DEF RewardInit, ReceiptOK, CallOK, Waiting, PaysXp, HoldsLock, Opened, NoCall
  <1> QED
    BY <1>1, <1>2, NoCallType DEF RewardInit, RInv

LEMMA RInvStep == RInv /\ [RewardNext]_allRewardVars => RInv' /\ Grows(xp, xp')
  BY RewardStepKeeps, AppsKeep, StutterKeeps DEF RewardNext

-----------------------------------------------------------------------------
(* Local wallets: sums over the completed receipts. *)

\* The types of ledger and rewards, finitely many receipts, and what they sum up to.
Wallets ==
    /\ Books /\ RewardTypeOK
    /\ IsFiniteSet({r \in RewardRequest : Opened(r)})
    /\ LocalWalletBalances

Complete(r) == Opened(r) /\ receipt[r].state = "complete"

\* What a receipt's completion brings its user.
GainOf(p) == p.reward.award - (IF p.currency = "streamer" THEN p.cost ELSE 0)

LEMMA GainType == \A p \in Receipt : GainOf(p) \in Int
  <1> SUFFICES ASSUME NEW p \in Receipt PROVE GainOf(p) \in Int
    OBVIOUS
  <1>1. p.reward.award \in Nat /\ p.cost \in Nat
    BY RewardAssumption DEF Receipt
  <1> QED
    BY <1>1 DEF GainOf

LEMMA CompletedFinite ==
    ASSUME Wallets, NEW u
    PROVE  IsFiniteSet(CompletedBy(u)) /\ \A r \in CompletedBy(u) : Gain(r) \in Int
  <1>1. CompletedBy(u) \subseteq {r \in RewardRequest : Opened(r)}
    BY DEF CompletedBy
  <1>2. ASSUME NEW r \in CompletedBy(u) PROVE Gain(r) \in Int
    <2>1. receipt[r] \in Receipt
      BY DEF CompletedBy, Opened, Wallets, RewardTypeOK
    <2>2. Gain(r) = GainOf(receipt[r])
      BY DEF Gain, GainOf
    <2> QED
      BY <2>1, <2>2, GainType
  <1> QED
    BY <1>1, <1>2, FS_Subset DEF Wallets

\* A step that completes nothing leaves the balances what they are.
LEMMA BalancesStay ==
    ASSUME LocalWalletBalances, UNCHANGED local,
           \A r \in RewardRequest : Complete(r) \/ Complete(r)' => receipt'[r] = receipt[r]
    PROVE  LocalWalletBalances'
  <1> SUFFICES ASSUME NEW u \in XpUser
               PROVE  (local[u] = Opening +
                        SumFunctionOnSet([r \in CompletedBy(u) |-> Gain(r)], CompletedBy(u)))'
    BY DEF LocalWalletBalances
  <1>1. CompletedBy(u)' = CompletedBy(u)
    BY DEF CompletedBy, Complete, Opened
  <1>2. \A r \in CompletedBy(u) : Gain(r)' = Gain(r)
    BY DEF CompletedBy, Complete, Gain
  <1>3. [r \in CompletedBy(u) |-> Gain(r)]' = [r \in CompletedBy(u) |-> Gain(r)]
    BY <1>1, <1>2
  <1> QED
    BY <1>1, <1>3 DEF LocalWalletBalances

\* A completed receipt makes its user's balance greater by its gain.
LEMMA BalanceGrows ==
    ASSUME Wallets, NEW r \in RewardRequest, ~Complete(r), NEW p \in Receipt, p.state = "complete",
           receipt' = [receipt EXCEPT ![r] = p],
           local' = [local EXCEPT ![p.user] = @ + GainOf(p)]
    PROVE  LocalWalletBalances'
  <1> SUFFICES ASSUME NEW u \in XpUser
               PROVE  (local[u] = Opening +
                        SumFunctionOnSet([s \in CompletedBy(u) |-> Gain(s)], CompletedBy(u)))'
    BY DEF LocalWalletBalances
  <1> DEFINE S == CompletedBy(u)
             f == [s \in S |-> Gain(s)]
             g == [s \in CompletedBy(u)' |-> Gain(s)']
  <1>1. /\ receipt'[r] = p /\ p.user \in XpUser /\ GainOf(p) \in Int
        /\ \A s \in RewardRequest : s # r => receipt'[s] = receipt[s]
    BY GainType DEF Wallets, RewardTypeOK, Receipt
  <1>2. r \notin S /\ IsFiniteSet(S) /\ \A s \in S : f[s] = Gain(s) /\ f[s] \in Int
    BY CompletedFinite DEF CompletedBy, Complete
  <1>3. CompletedBy(u)' = IF p.user = u THEN S \cup {r} ELSE S
    <2>1. r \in CompletedBy(u)' <=> p.user = u
      BY <1>1, NoRewardAssumption DEF CompletedBy, Opened
    <2>2. \A s \in RewardRequest : s # r => (s \in CompletedBy(u)' <=> s \in S)
      BY <1>1 DEF CompletedBy, Opened
    <2>3. S \subseteq RewardRequest /\ CompletedBy(u)' \subseteq RewardRequest
      BY DEF CompletedBy
    <2>4. \A s : s \in CompletedBy(u)' <=> s \in (IF p.user = u THEN S \cup {r} ELSE S)
      <3> HIDE DEF S
      <3> QED
        BY <1>2, <2>1, <2>2, <2>3
    <2> QED
      BY <2>4
  <1>4. /\ \A s \in S : g[s] = f[s]
        /\ p.user = u => g[r] = GainOf(p)
    <2>1. \A s \in S : Gain(s)' = Gain(s)
      BY <1>1, <1>2 DEF Gain, CompletedBy
    <2>2. Gain(r)' = GainOf(p)
      BY <1>1 DEF Gain, GainOf
    <2>3. S \subseteq CompletedBy(u)' /\ (p.user = u => r \in CompletedBy(u)')
      BY <1>3
    <2> QED
      BY <1>2, <2>1, <2>2, <2>3
  <1>5. /\ local[u] = Opening + SumFunctionOnSet(f, S)
        /\ local'[u] = IF p.user = u THEN local[u] + GainOf(p) ELSE local[u]
        /\ local[u] \in Nat
    BY DEF Wallets, LocalWalletBalances, RewardTypeOK
  <1> SUFFICES local'[u] = Opening + SumFunctionOnSet(g, CompletedBy(u)')
    OBVIOUS
  <1>6. SumFunctionOnSet(f, S) \in Int /\ SumFunctionOnSet(g, S) = SumFunctionOnSet(f, S)
    <2> HIDE DEF f, g, S
    <2> QED
      BY <1>2, <1>4, SumType, SumSame
  <1>7. CASE p.user # u
    <2> HIDE DEF f, g, S
    <2> QED
      BY <1>3, <1>5, <1>6, <1>7
  <1>8. CASE p.user = u
    <2>1. \A s \in S \cup {r} : g[s] \in Int
      BY <1>1, <1>2, <1>4, <1>8
    <2> HIDE DEF f, g, S
    <2>2. SumFunctionOnSet(g, S \cup {r}) = SumFunctionOnSet(g, S) + g[r]
      BY <1>2, <2>1, SumAdd
    <2>3. SumFunctionOnSet(g, S \cup {r}) = SumFunctionOnSet(f, S) + GainOf(p)
      BY <1>4, <1>6, <1>8, <2>2
    <2>4. Opening \in Nat
      BY RewardAssumption
    <2> QED
      BY <1>1, <1>3, <1>5, <1>6, <1>8, <2>3, <2>4
  <1> QED
    BY <1>7, <1>8

LEMMA BooksStay ==
    ASSUME Books, UNCHANGED ledgerVars
    PROVE  Books' /\ Covered
  <1>1. UNCHANGED <<xp, settled>>
    BY DEF ledgerVars
  <1>2. \A u \in XpUser : XpBalance(u)' = XpBalance(u) /\ XpBalance(u) \in Int
    BY <1>1, BalanceOf, BooksSpendable
  <1>3. Covered
    BY <1>2, GainIsCovered DEF Smaller
  <1> QED
    BY <1>1, <1>3 DEF Books

LEMMA QuietWallets ==
    ASSUME Wallets, RInv', Books', UNCHANGED <<receipt, claim, local>>
    PROVE  Wallets'
  <1>1. RewardTypeOK'
    BY DEF Wallets, RewardTypeOK, RInv, CallType
  <1>2. LocalWalletBalances'
    BY BalancesStay DEF Wallets
  <1>3. {r \in RewardRequest : Opened(r)}' = {r \in RewardRequest : Opened(r)}
    BY DEF Opened
  <1> QED
    BY <1>1, <1>2, <1>3 DEF Wallets

LEMMA WriteWallets ==
    ASSUME Wallets, RInv', UNCHANGED ledgerVars, NEW r \in RewardRequest, NEW p,
           receipt' = [receipt EXCEPT ![r] = p],
           claim' \in [Reward -> RewardRequest \cup {NoRewardRequest}],
           local' \in [XpUser -> Nat], LocalWalletBalances'
    PROVE  Wallets'
  <1>1. RewardTypeOK'
    BY DEF Wallets, RewardTypeOK, RInv, CallType
  <1>2. IsFiniteSet({s \in RewardRequest : Opened(s)}')
    <2>1. {s \in RewardRequest : Opened(s)}' \subseteq {s \in RewardRequest : Opened(s)} \cup {r}
      BY DEF Opened, Wallets, RewardTypeOK
    <2>2. IsFiniteSet({s \in RewardRequest : Opened(s)} \cup {r})
      BY FS_AddElement DEF Wallets
    <2> QED
      BY <2>1, <2>2, FS_Subset
  <1> QED
    BY <1>1, <1>2, BooksStay DEF Wallets

\* redeem's payment, in time or late.
LEMMA PayBooks ==
    ASSUME RInv, Wallets, NEW r \in RewardRequest, PaysXp(r), Pay(r)
    PROVE  Books' /\ Covered
  <1>1. receipt[r].user \in XpUser /\ receipt[r].cost \in Nat
    BY OpenedType DEF PaysXp, Receipt
  <1>2. RewardKey(r) \in XpKey /\ SpendXp(RewardKey(r), receipt[r].user, receipt[r].cost)
        /\ UNCHANGED settled
    BY RewardKeys DEF Pay
  <1> QED
    BY <1>1, <1>2, SpendBooks DEF Wallets

LEMMA OpenWallets ==
    ASSUME RInv', Wallets, NEW c \in RewardCall, NEW r \in RewardRequest, NEW new \in Receipt,
           new.state = "pending", OpenReceipt(c, r, new), UNCHANGED ledgerVars
    PROVE  Wallets'
  <1>1. ~Complete(r)
    BY DEF OpenReceipt, Complete
  <1>2. /\ claim \in [Reward -> RewardRequest \cup {NoRewardRequest}] /\ local \in [XpUser -> Nat]
        /\ Claimed(r, new) \in [Reward -> RewardRequest \cup {NoRewardRequest}]
    BY DEF Wallets, RewardTypeOK, Claimed
  <1>3. ASSUME NEW p, receipt' = [receipt EXCEPT ![r] = p], p.state # "complete", UNCHANGED local
        PROVE  LocalWalletBalances'
    <2>1. /\ receipt'[r] = p
          /\ \A s \in RewardRequest : s # r => receipt'[s] = receipt[s]
      BY <1>3 DEF Wallets, RewardTypeOK
    <2>2. ~Complete(r)'
      BY <1>3, <2>1 DEF Complete
    <2>3. \A s \in RewardRequest : Complete(s) \/ Complete(s)' => receipt'[s] = receipt[s]
      BY <1>1, <2>1, <2>2
    <2> QED
      BY <1>3, <2>3, BalancesStay DEF Wallets
  <1>4. ASSUME receipt' = [receipt EXCEPT ![r] = [new EXCEPT !.state = "rejected"]],
               UNCHANGED <<claim, local>>
        PROVE  Wallets'
    <2>1. PICK p \in Receipt : p = [new EXCEPT !.state = "rejected"] /\ p.state = "rejected"
      BY ReceiptStates
    <2>2. receipt' = [receipt EXCEPT ![r] = p]
      BY <1>4, <2>1
    <2> QED
      BY <1>2, <1>3, <1>4, <2>1, <2>2, WriteWallets
  <1>5. ASSUME PaidLocally(r, new) PROVE Wallets'
    <2>1. PICK p \in Receipt :
            /\ p = [new EXCEPT !.state = "complete"] /\ p.state = "complete" /\ p.user = new.user
            /\ p.reward = new.reward /\ p.currency = new.currency /\ p.cost = new.cost
      BY ReceiptStates
    <2>2. /\ receipt' = [receipt EXCEPT ![r] = p] /\ claim' = Claimed(r, new)
          /\ new.currency = "streamer" /\ local[new.user] >= new.cost
          /\ local' = [local EXCEPT ![new.user] = @ - new.cost + new.reward.award]
      BY <1>5, <2>1 DEF PaidLocally
    <2>3. new.user \in XpUser /\ new.cost \in Nat /\ new.reward.award \in Nat
      BY RewardAssumption DEF Receipt
    <2>4. local[new.user] \in Nat
      BY <1>2, <2>3
    <2>5. /\ local[new.user] - new.cost + new.reward.award \in Nat
          /\ local[new.user] - new.cost + new.reward.award =
               local[new.user] + (new.reward.award - new.cost)
      BY <2>2, <2>3, <2>4
    <2>6. GainOf(p) = new.reward.award - new.cost
      BY <2>1, <2>2 DEF GainOf
    <2>7. local' = [local EXCEPT ![p.user] = @ + GainOf(p)]
      BY <2>1, <2>2, <2>5, <2>6
    <2>8. LocalWalletBalances'
      BY <1>1, <2>1, <2>2, <2>7, BalanceGrows
    <2>9. local' \in [XpUser -> Nat]
      BY <1>2, <2>2, <2>5
    <2> QED
      BY <1>2, <2>2, <2>8, <2>9, WriteWallets
  <1>6. ASSUME receipt' = [receipt EXCEPT ![r] = new], claim' = Claimed(r, new), UNCHANGED local
        PROVE  Wallets'
    BY <1>2, <1>3, <1>6, WriteWallets
  <1> QED
    BY <1>4, <1>5, <1>6 DEF OpenReceipt

LEMMA BeginWallets ==
    ASSUME RInv', Wallets, NEW c \in RewardCall, NEW r \in RewardRequest, NEW new \in Receipt,
           new.state = "pending", Begin(c, r, new)
    PROVE  Wallets' /\ Covered
  <1>1. UNCHANGED ledgerVars
    BY DEF Begin
  <1>2. Books' /\ Covered
    BY <1>1, BooksStay DEF Wallets
  <1>3. CASE Resume(c, r, new)
    BY <1>2, <1>3, QuietWallets DEF Resume
  <1>4. CASE OpenReceipt(c, r, new)
    BY <1>1, <1>2, <1>4, OpenWallets
  <1> QED
    BY <1>2, <1>3, <1>4 DEF Begin

LEMMA SettleWallets ==
    ASSUME RInv, RInv', Wallets, NEW c \in RewardCall, SettleReward(c)
    PROVE  Wallets' /\ Covered
  <1>1. PICK r \in RewardRequest : r = redeem[c].request /\ PaysXp(r)
    BY DEF SettleReward, RInv, CallOK
  <1>2. /\ UNCHANGED ledgerVars /\ UNCHANGED claim
        /\ \/ /\ receipt[r].state = "pending"
              /\ receipt' = [receipt EXCEPT ![r].state = "complete"]
              /\ local' = [local EXCEPT ![receipt[r].user] = @ + receipt[r].reward.award]
           \/ UNCHANGED <<receipt, local>>
    BY <1>1 DEF SettleReward, StillPending
  <1>3. Books' /\ Covered
    BY <1>2, BooksStay DEF Wallets
  <1>4. CASE UNCHANGED <<receipt, local>>
    BY <1>2, <1>3, <1>4, QuietWallets
  <1>5. ASSUME receipt[r].state = "pending", receipt' = [receipt EXCEPT ![r].state = "complete"],
               local' = [local EXCEPT ![receipt[r].user] = @ + receipt[r].reward.award]
        PROVE  Wallets'
    <2>1. receipt[r] \in Receipt /\ receipt[r].currency = "spmt"
      BY <1>1, OpenedType DEF PaysXp
    <2>2. PICK p \in Receipt :
            /\ p = [receipt[r] EXCEPT !.state = "complete"] /\ p.state = "complete"
            /\ p.user = receipt[r].user /\ p.reward = receipt[r].reward
            /\ p.currency = receipt[r].currency /\ p.cost = receipt[r].cost
      BY <2>1, ReceiptStates
    <2>3. p.user \in XpUser /\ p.reward.award \in Nat
      BY RewardAssumption DEF Receipt
    <2>4. receipt' = [receipt EXCEPT ![r] = p]
      BY <1>5, <2>2
    <2>5. GainOf(p) = p.reward.award
      BY <2>1, <2>2, <2>3 DEF GainOf
    <2>6. local' = [local EXCEPT ![p.user] = @ + GainOf(p)]
      BY <1>5, <2>2, <2>5
    <2>7. ~Complete(r)
      BY <1>5 DEF Complete
    <2>8. LocalWalletBalances'
      BY <2>2, <2>4, <2>6, <2>7, BalanceGrows
    <2>9. local' \in [XpUser -> Nat] /\ claim' \in [Reward -> RewardRequest \cup {NoRewardRequest}]
      BY <1>2, <2>3, <2>5, <2>6 DEF Wallets, RewardTypeOK
    <2> QED
      BY <1>2, <2>4, <2>8, <2>9, WriteWallets
  <1> QED
    BY <1>2, <1>3, <1>4, <1>5

LEMMA RefuseWallets ==
    ASSUME RInv, RInv', Wallets, NEW c \in RewardCall, RefuseReward(c)
    PROVE  Wallets' /\ Covered
  <1>1. PICK r \in RewardRequest : r = redeem[c].request /\ PaysXp(r)
    BY DEF RefuseReward, RInv, CallOK
  <1>2. /\ UNCHANGED ledgerVars /\ UNCHANGED local
        /\ \/ /\ receipt[r].state = "pending"
              /\ receipt' = [receipt EXCEPT ![r].state = "rejected"]
              /\ claim' = IF receipt[r].reward.first
                          THEN [claim EXCEPT ![receipt[r].reward] = NoRewardRequest] ELSE claim
           \/ UNCHANGED <<receipt, claim>>
    BY <1>1 DEF RefuseReward, StillPending
  <1>3. Books' /\ Covered
    BY <1>2, BooksStay DEF Wallets
  <1>4. CASE UNCHANGED <<receipt, claim>>
    BY <1>2, <1>3, <1>4, QuietWallets
  <1>5. ASSUME receipt[r].state = "pending", receipt' = [receipt EXCEPT ![r].state = "rejected"],
               claim' = IF receipt[r].reward.first
                        THEN [claim EXCEPT ![receipt[r].reward] = NoRewardRequest] ELSE claim
        PROVE  Wallets'
    <2>1. receipt[r] \in Receipt
      BY <1>1, OpenedType DEF PaysXp
    <2>2. PICK p \in Receipt : p = [receipt[r] EXCEPT !.state = "rejected"] /\ p.state = "rejected"
      BY <2>1, ReceiptStates
    <2>3. /\ receipt' = [receipt EXCEPT ![r] = p] /\ receipt'[r] = p
          /\ \A s \in RewardRequest : s # r => receipt'[s] = receipt[s]
      BY <1>5, <2>2 DEF Wallets, RewardTypeOK
    <2>4. \A s \in RewardRequest : Complete(s) \/ Complete(s)' => receipt'[s] = receipt[s]
      BY <1>5, <2>2, <2>3 DEF Complete
    <2>5. LocalWalletBalances'
      BY <1>2, <2>4, BalancesStay DEF Wallets
    <2>6. local' \in [XpUser -> Nat] /\ claim' \in [Reward -> RewardRequest \cup {NoRewardRequest}]
      BY <1>2, <1>5 DEF Wallets, RewardTypeOK
    <2> QED
      BY <1>2, <2>3, <2>5, <2>6, WriteWallets
  <1> QED
    BY <1>2, <1>3, <1>4, <1>5

LEMMA RewardStepWallets ==
    ASSUME RInv, RInv', Wallets, RewardStep
    PROVE  Wallets' /\ Covered
  <1>1. ASSUME NEW c \in RewardCall, NEW r \in RewardRequest, NEW u \in XpUser, NEW w \in Reward,
               Begin(c, r, [state |-> "pending", user |-> u, reward |-> w,
                            currency |-> "streamer", cost |-> w.price])
        PROVE  Wallets' /\ Covered
    <2>1. PICK new : new = [state |-> "pending", user |-> u, reward |-> w,
                            currency |-> "streamer", cost |-> w.price]
      OBVIOUS
    <2>2. new \in Receipt /\ new.state = "pending"
      BY <2>1, RewardAssumption DEF Receipt
    <2> QED
      BY <1>1, <2>1, <2>2, BeginWallets
  <1>2. ASSUME NEW c \in RewardCall, NEW r \in RewardRequest, NEW u \in XpUser, NEW w \in Reward,
               NEW q \in Quote,
               Begin(c, r, [state |-> "pending", user |-> u, reward |-> w,
                            currency |-> "spmt", cost |-> q])
        PROVE  Wallets' /\ Covered
    <2>1. PICK new : new = [state |-> "pending", user |-> u, reward |-> w,
                            currency |-> "spmt", cost |-> q]
      OBVIOUS
    <2>2. new \in Receipt /\ new.state = "pending"
      BY <2>1, RewardAssumption DEF Receipt
    <2> QED
      BY <1>2, <2>1, <2>2, BeginWallets
  <1>3. ASSUME NEW c \in RewardCall, PaymentArrives(c) PROVE Wallets' /\ Covered
    <2>1. PICK r \in RewardRequest : r = redeem[c].request /\ PaysXp(r)
      BY <1>3 DEF PaymentArrives, RInv, CallOK
    <2>2. Pay(r) /\ UNCHANGED <<receipt, claim, local>>
      BY <1>3, <2>1 DEF PaymentArrives
    <2> QED
      BY <2>1, <2>2, PayBooks, QuietWallets
  <1>4. ASSUME NEW c \in RewardCall, GiveUp(c) \/ AnswerLost(c) PROVE Wallets' /\ Covered
    <2>1. UNCHANGED ledgerVars /\ UNCHANGED <<receipt, claim, local>>
      BY <1>4 DEF GiveUp, AnswerLost
    <2>2. Books' /\ Covered
      BY <2>1, BooksStay DEF Wallets
    <2> QED
      BY <2>1, <2>2, QuietWallets
  <1>5. ASSUME NEW r \in RewardRequest, LatePayment(r) PROVE Wallets' /\ Covered
    <2>1. PaysXp(r) /\ Pay(r) /\ UNCHANGED <<receipt, claim, local>>
      BY <1>5 DEF LatePayment, RInv
    <2> QED
      BY <2>1, PayBooks, QuietWallets
  <1> QED
    BY <1>1, <1>2, <1>3, <1>4, <1>5, SettleWallets, RefuseWallets DEF RewardStep

LEMMA WalletsStep ==
    ASSUME RInv, RInv', Wallets, [RewardNext]_allRewardVars
    PROVE  Wallets' /\ Covered
  <1>1. ASSUME LedgerNext, UNCHANGED rewardVars PROVE Wallets' /\ Covered
    <2>1. Books' /\ Covered
      BY <1>1, LedgerBooks DEF Wallets
    <2>2. UNCHANGED <<receipt, claim, local>>
      BY <1>1 DEF rewardVars
    <2> QED
      BY <2>1, <2>2, QuietWallets
  <1>2. ASSUME UNCHANGED allRewardVars PROVE Wallets' /\ Covered
    <2>1. UNCHANGED ledgerVars /\ UNCHANGED <<receipt, claim, local>>
      BY <1>2 DEF allRewardVars, rewardVars
    <2>2. Books' /\ Covered
      BY <2>1, BooksStay DEF Wallets
    <2> QED
      BY <2>1, <2>2, QuietWallets
  <1> QED
    BY <1>1, <1>2, RewardStepWallets DEF RewardNext

LEMMA WalletsInit == LedgerInit /\ RewardInit => Wallets
  <1> SUFFICES ASSUME LedgerInit, RewardInit PROVE Wallets
    OBVIOUS
  <1>1. RewardTypeOK
    BY RewardAssumption DEF RewardInit, RewardTypeOK, NoCall
  <1>2. /\ {r \in RewardRequest : Opened(r)} = {}
        /\ \A u \in XpUser : CompletedBy(u) = {}
    BY DEF RewardInit, Opened, CompletedBy
  <1>3. ASSUME NEW u \in XpUser
        PROVE  local[u] = Opening + SumFunctionOnSet([r \in CompletedBy(u) |-> Gain(r)], CompletedBy(u))
    <2> DEFINE f == [r \in CompletedBy(u) |-> Gain(r)]
    <2>1. SumFunctionOnSet(f, CompletedBy(u)) = 0
      <3> HIDE DEF f
      <3> QED
        BY <1>2, SumType, FS_EmptySet
    <2>2. local[u] = Opening /\ Opening \in Nat
      BY RewardAssumption DEF RewardInit
    <2> QED
      BY <2>1, <2>2
  <1> QED
    BY <1>1, <1>2, <1>3, BooksInit, FS_EmptySet DEF Wallets, LocalWalletBalances

-----------------------------------------------------------------------------
(* The ledger by itself. *)

LEMMA SettledLedger == LedgerInit /\ [][LedgerNext]_ledgerVars => []LInv
  <1>1. LedgerInit => LInv
    BY DEF LedgerInit, LInv, Journal, Receipts, TransferBooked, GambleBooked
  <1>2. LInv /\ [LedgerNext]_ledgerVars => LInv'
    <2>1. ASSUME LInv, UNCHANGED ledgerVars PROVE LInv'
      BY <2>1 DEF ledgerVars, LInv, Journal, Receipts, TransferBooked, GambleBooked, Booked
    <2> QED
      BY <2>1, LedgerKeeps
  <1> QED
    BY <1>1, <1>2, PTL

-----------------------------------------------------------------------------
(* Theorems. *)

\* Every transfer and gamble that is answered is in the journal with all its events,
\* whatever keys other callers used (transferXp, gambleXp).
THEOREM SettlementsBooked == LedgerSpec => []SettlementsAreBooked
  <1>1. LInv => SettlementsAreBooked
    BY DEF LInv, TransferBooked, GambleBooked, SettlementsAreBooked
  <1> QED
    BY <1>1, SettledLedger, PTL DEF LedgerSpec

\* The invariant of the rewards: locks are held by who can be the first, and calls
\* act on what the ledger and the receipts still say.
THEOREM RewardInvariance == RewardSpec => []RInv
  BY RInvInit, RInvStep, PTL DEF RewardSpec

\* The first of a stream is one, whichever currencies the redemptions are paid in
\* (the claim of redeem's first transaction, released by a refused payment only).
THEOREM FirstIsOne == RewardSpec => []OneFirstPerStream
  <1>1. RInv => OneFirstPerStream
    BY DEF RInv, ReceiptOK, HoldsLock, OneFirstPerStream
  <1> QED
    BY <1>1, RewardInvariance, PTL

\* The XP ledger keeps its types: balances, refills and growths are integers, whatever
\* amounts are posted under whatever keys.
THEOREM LedgerTyped == LedgerSpec => []LedgerTypeOK
  <1>1. Books /\ [LedgerNext]_ledgerVars => Books'
    BY LedgerBooks, BooksStay
  <1> QED
    BY <1>1, BooksInit, BooksTyped, PTL DEF LedgerSpec

\* No spend, transfer, wager or redemption overdraws a wallet (spendXp, transferXp and
\* gambleXp read the balance in the transaction that posts): only an award does.
THEOREM NobodyOverdrawn == RewardSpec => NeverOverdrawn
  <1> DEFINE Step == xp' # xp => Covered
  <1>1. RInv /\ RInv' /\ Wallets /\ [RewardNext]_allRewardVars => [Step]_ledgerVars
    BY WalletsStep
  <1>2. RewardSpec => []Wallets
    BY WalletsInit, WalletsStep, RewardInvariance, PTL DEF RewardSpec
  <1>3. RewardSpec => [][Step]_ledgerVars
    <2> HIDE DEF Step
    <2> QED
      BY <1>1, <1>2, RewardInvariance, PTL DEF RewardSpec
  <1> QED
    BY <1>3 DEF NeverOverdrawn, Covered

\* The rewards keep their types too; no local wallet goes below zero.
THEOREM RewardsTyped == RewardSpec => [](LedgerTypeOK /\ RewardTypeOK)
  <1>1. Wallets => LedgerTypeOK /\ RewardTypeOK
    BY BooksTyped DEF Wallets
  <1> QED
    BY <1>1, WalletsInit, WalletsStep, RewardInvariance, PTL DEF RewardSpec

\* A local wallet is what its completed redemptions sum up to, for any number of them:
\* overlapping calls award each once (the second look of redeem's last transaction).
THEOREM WalletsBalance == RewardSpec => []LocalWalletBalances
  <1>1. Wallets => LocalWalletBalances
    BY DEF Wallets
  <1> QED
    BY <1>1, WalletsInit, WalletsStep, RewardInvariance, PTL DEF RewardSpec

\* The terms of a receipt outlast every retry and its payment.
LEMMA TermsStep ==
    ASSUME RInv, [RewardNext]_allRewardVars, NEW s \in RewardRequest
    PROVE  TermsKept(s)
  <1>1. CASE UNCHANGED receipt
    BY <1>1 DEF TermsKept, Opened
  <1>2. ASSUME NEW r \in RewardRequest, NEW x, ~Opened(r), receipt' = [receipt EXCEPT ![r] = x]
        PROVE  TermsKept(s)
    BY <1>2 DEF TermsKept, Opened, RInv
  <1>3. ASSUME NEW r \in RewardRequest, Opened(r), NEW state \in {"complete", "rejected"},
               receipt' = [receipt EXCEPT ![r].state = state]
        PROVE  TermsKept(s)
    <2>1. PICK p \in Receipt :
            /\ p = [receipt[r] EXCEPT !.state = state]
            /\ p.user = receipt[r].user /\ p.reward = receipt[r].reward
            /\ p.currency = receipt[r].currency /\ p.cost = receipt[r].cost
      BY <1>3, OpenedType, ReceiptStates
    <2>2. receipt' = [receipt EXCEPT ![r] = p]
      BY <1>3, <2>1
    <2> QED
      BY <2>1, <2>2, NoRewardAssumption DEF TermsKept, Opened, RInv
  <1>4. ASSUME NEW c \in RewardCall, NEW r \in RewardRequest, NEW new, Begin(c, r, new)
        PROVE  TermsKept(s)
    BY <1>1, <1>2, <1>4 DEF Begin, OpenReceipt, PaidLocally, Resume
  <1>5. ASSUME NEW c \in RewardCall, SettleReward(c) \/ RefuseReward(c)
        PROVE  TermsKept(s)
    <2>1. PICK r \in RewardRequest : r = redeem[c].request /\ Opened(r)
      BY <1>5 DEF SettleReward, RefuseReward, RInv, CallOK, PaysXp
    <2>2. \/ receipt' = [receipt EXCEPT ![r].state = "complete"]
          \/ receipt' = [receipt EXCEPT ![r].state = "rejected"]
          \/ UNCHANGED receipt
      BY <1>5, <2>1 DEF SettleReward, RefuseReward
    <2> QED
      BY <1>1, <1>3, <2>1, <2>2
  <1>6. ASSUME NEW c \in RewardCall, PaymentArrives(c) \/ GiveUp(c) \/ AnswerLost(c)
        PROVE  UNCHANGED receipt
    BY <1>6 DEF PaymentArrives, GiveUp, AnswerLost
  <1>7. (\E r \in RewardRequest : LatePayment(r)) \/ UNCHANGED rewardVars \/ UNCHANGED allRewardVars
          => UNCHANGED receipt
    BY DEF LatePayment, rewardVars, allRewardVars
  <1> QED
    BY <1>1, <1>4, <1>5, <1>6, <1>7 DEF RewardNext, RewardStep

\* What is spent under a reward's key is spent by a redemption: other apps may post
\* an award there, and do not spend.
OnlyRewardsSpend(r) ==
    ~Posted(RewardKey(r)) /\ Posted(RewardKey(r))' /\ xp'[RewardKey(r)].action = "spend"
      => RewardStep

SpentByReward(r) ==
    Posted(RewardKey(r)) /\ xp[RewardKey(r)].action = "spend" => PaysXp(r) /\ ChargedFor(r)

\* A redemption's payment posts a spend of its own request, with its receipt's terms.
LEMMA PaymentsAreOwn ==
    ASSUME RInv, RewardStep, NEW s \in RewardRequest, xp'[RewardKey(s)] # xp[RewardKey(s)]
    PROVE  PaysXp(s) /\ Pay(s)
  <1>1. ASSUME NEW r \in RewardRequest, Pay(r) PROVE r = s
    <2>1. \A j \in XpKey : j # RewardKey(r) => xp'[j] = xp[j]
      BY <1>1, PayPosts
    <2> QED
      BY <2>1, RewardKeys
  <1>2. ASSUME NEW c \in RewardCall, PaymentArrives(c) PROVE PaysXp(s) /\ Pay(s)
    <2>1. PICK r \in RewardRequest : r = redeem[c].request /\ PaysXp(r)
      BY <1>2 DEF PaymentArrives, RInv, CallOK
    <2>2. Pay(r)
      BY <1>2, <2>1 DEF PaymentArrives
    <2> QED
      BY <1>1, <2>1, <2>2
  <1>3. ASSUME NEW r \in RewardRequest, LatePayment(r) PROVE PaysXp(s) /\ Pay(s)
    BY <1>1, <1>3 DEF LatePayment, RInv
  <1>4. ASSUME UNCHANGED ledgerVars PROVE FALSE
    BY <1>4 DEF ledgerVars
  <1>5. \A c, r, new : ~Begin(c, r, new)
    BY <1>4 DEF Begin
  <1>6. \A c : ~(GiveUp(c) \/ AnswerLost(c) \/ SettleReward(c) \/ RefuseReward(c))
    BY <1>4 DEF GiveUp, AnswerLost, SettleReward, RefuseReward
  <1> QED
    BY <1>2, <1>3, <1>5, <1>6 DEF RewardStep

LEMMA SpendsStep ==
    ASSUME RInv, RInv', [RewardNext]_allRewardVars, Grows(xp, xp'),
           NEW r \in RewardRequest, OnlyRewardsSpend(r), SpentByReward(r)
    PROVE  SpentByReward(r)'
  <1> SUFFICES ASSUME Posted(RewardKey(r))', xp'[RewardKey(r)].action = "spend"
               PROVE  PaysXp(r)' /\ ChargedFor(r)'
    BY DEF SpentByReward, RewardKey
  <1>1. TermsKept(r) /\ RewardKey(r) \in XpKey
    BY TermsStep, RewardKeys
  <1>2. CASE Posted(RewardKey(r))
    <2>1. xp'[RewardKey(r)] = xp[RewardKey(r)]
      BY <1>1, <1>2 DEF Grows, Posted
    <2>2. PaysXp(r) /\ ChargedFor(r)
      BY <1>2, <2>1 DEF SpentByReward
    <2> QED
      BY <1>1, <2>2, ChargeStays DEF PaysXp, TermsKept
  <1>3. CASE ~Posted(RewardKey(r))
    <2>1. RewardStep /\ xp'[RewardKey(r)] # xp[RewardKey(r)]
      BY <1>3 DEF OnlyRewardsSpend, Posted, RewardKey
    <2>2. PaysXp(r) /\ Pay(r)
      BY <2>1, PaymentsAreOwn
    <2>3. xp'[RewardKey(r)] = Event(receipt[r].user, -receipt[r].cost, FALSE, "spend")
      BY <2>1, <2>2, PayPosts
    <2>4. xp'[RewardKey(r)].user = receipt[r].user /\ xp'[RewardKey(r)].delta = -receipt[r].cost
      BY <2>3 DEF Event
    <2> QED
      BY <1>1, <2>2, <2>4 DEF PaysXp, TermsKept, ChargedFor, RewardKey
  <1> QED
    BY <1>2, <1>3

\* Nothing but a redemption's payment is spent under its key, with its receipt's terms.
LEMMA SpendsInvariance ==
    RewardSpec /\ [][\A r \in RewardRequest : OnlyRewardsSpend(r)]_allRewardVars
      => [](\A r \in RewardRequest : SpentByReward(r))
  <1> DEFINE Spends == \A r \in RewardRequest : SpentByReward(r)
  <1>1. LedgerInit /\ RewardInit => Spends
    BY RewardKeys DEF LedgerInit, SpentByReward, Posted, NoXpEvent
  <1>2. ASSUME RInv, RInv', Spends, [RewardNext]_allRewardVars,
               [\A r \in RewardRequest : OnlyRewardsSpend(r)]_allRewardVars
        PROVE  Spends'
    <2>1. Grows(xp, xp')
      BY <1>2, RInvStep
    <2>2. \A r \in RewardRequest : OnlyRewardsSpend(r)
      BY <1>2 DEF OnlyRewardsSpend, allRewardVars, ledgerVars, Posted, RewardKey
    <2> QED
      BY <1>2, <2>1, <2>2, SpendsStep
  <1> HIDE DEF Spends
  <1>3. RewardSpec /\ [][\A r \in RewardRequest : OnlyRewardsSpend(r)]_allRewardVars => []Spends
    BY <1>1, <1>2, RewardInvariance, PTL DEF RewardSpec
  <1> QED
    BY <1>3 DEF Spends

\* A redemption in XP is complete only when its exact quote was charged, and its key
\* is charged with nothing else (redeem, spendXp), while other apps do not spend there.
THEOREM ChargesMatch ==
    RewardSpec /\ [][\A r \in RewardRequest : OnlyRewardsSpend(r)]_allRewardVars
      => []ChargesMatchReceipts
  <1> DEFINE Spends == \A r \in RewardRequest : SpentByReward(r)
  <1>1. RInv /\ Spends => ChargesMatchReceipts
    BY DEF RInv, ReceiptOK, PaysXp, SpentByReward, ChargesMatchReceipts
  <1> QED
    BY <1>1, RewardInvariance, SpendsInvariance, PTL

-----------------------------------------------------------------------------
(* Rejections: what makes the violation of RejectedWasNotCharged possible. *)

PaidBy(c, r) == redeem[c].step # "idle" /\ redeem[c].request = r
PaymentUnderway(r) == r \in late \/ \E c \in RewardCall : PaidBy(c, r)

\* A request is not paid again before its last payment arrived, was answered or failed.
OnePaymentAtATime ==
    \A c \in RewardCall, r \in RewardRequest : PaidBy(c, r) =>
        r \notin late /\ \A d \in RewardCall : PaidBy(d, r) => d = c

Charged(r) == Posted(RewardKey(r)) /\ xp[RewardKey(r)].action = "spend"
RejectedReceipt(r) == Opened(r) /\ receipt[r].state = "rejected"

\* Who was refused was not charged, and a rejected redemption waits for no payment.
Spared ==
    /\ \A r \in RewardRequest : RejectedReceipt(r) => ~Charged(r) /\ ~PaymentUnderway(r)
    /\ \A c \in RewardCall : redeem[c].step = "refused" => ~Charged(redeem[c].request)

\* A new charge is a payment that was under way.
LEMMA ChargeStep ==
    ASSUME RInv, [RewardNext]_allRewardVars, NEW s \in RewardRequest, OnlyRewardsSpend(s),
           ~Charged(s), Charged(s)'
    PROVE  \/ \E c \in RewardCall : PaymentArrives(c) /\ PaidBy(c, s)
           \/ LatePayment(s)
  <1>1. RewardKey(s) \in XpKey /\ Grows(xp, xp')
    BY RewardKeys, RInvStep
  <1>2. ~Posted(RewardKey(s)) /\ Posted(RewardKey(s))' /\ xp'[RewardKey(s)].action = "spend"
        /\ xp'[RewardKey(s)] # xp[RewardKey(s)]
    BY <1>1 DEF Charged, Posted, Grows, RewardKey
  <1>3. RewardStep
    BY <1>2 DEF OnlyRewardsSpend
  <1>4. ASSUME NEW r \in RewardRequest, Pay(r) PROVE r = s
    <2>1. \A j \in XpKey : j # RewardKey(r) => xp'[j] = xp[j]
      BY <1>4, PayPosts
    <2> QED
      BY <1>2, <2>1, RewardKeys
  <1>5. ASSUME NEW c \in RewardCall, PaymentArrives(c) PROVE PaidBy(c, s)
    <2>1. PICK r \in RewardRequest : r = redeem[c].request /\ PaysXp(r)
      BY <1>5 DEF PaymentArrives, RInv, CallOK
    <2>2. Pay(r) /\ redeem[c].step = "asked"
      BY <1>5, <2>1 DEF PaymentArrives
    <2> QED
      BY <1>4, <2>1, <2>2 DEF PaidBy
  <1>6. ASSUME NEW r \in RewardRequest, LatePayment(r) PROVE LatePayment(s)
    BY <1>4, <1>6 DEF LatePayment
  <1>7. ~UNCHANGED ledgerVars
    BY <1>2 DEF ledgerVars
  <1>8. \A c, r, new : ~Begin(c, r, new)
    BY <1>7 DEF Begin
  <1>9. \A c : ~(GiveUp(c) \/ AnswerLost(c) \/ SettleReward(c) \/ RefuseReward(c))
    BY <1>7 DEF GiveUp, AnswerLost, SettleReward, RefuseReward
  <1> QED
    BY <1>3, <1>5, <1>6, <1>8, <1>9 DEF RewardStep

\* The parts of a redemption's steps that matter to rejections.
LEMMA BeginSpares ==
    ASSUME RInv, NEW c \in RewardCall, NEW r \in RewardRequest, NEW new \in Receipt,
           new.state = "pending", Begin(c, r, new)
    PROVE  /\ \A s \in RewardRequest : PaymentUnderway(s)' => PaymentUnderway(s) \/ Waiting(s)'
           /\ \A s \in RewardRequest : RejectedReceipt(s)' /\ Opened(s) => RejectedReceipt(s)
           /\ \A d \in RewardCall : redeem'[d].step = "refused" => redeem'[d] = redeem[d]
  <1>1. UNCHANGED late
    BY DEF Begin
  <1>2. CASE UNCHANGED redeem /\ ~Opened(r) /\ \E p : receipt' = [receipt EXCEPT ![r] = p]
    BY <1>1, <1>2 DEF RInv, PaymentUnderway, PaidBy, RejectedReceipt, Opened
  <1>3. CASE Ask(c, r) /\ Waiting(r)' /\ (UNCHANGED receipt \/
               (~Opened(r) /\ receipt' = [receipt EXCEPT ![r] = new]))
    <2>1. /\ redeem'[c].step = "asked" /\ redeem'[c].request = r
          /\ \A d \in RewardCall : d # c => redeem'[d] = redeem[d]
      BY <1>3 DEF Ask, RInv
    <2>2. \A s \in RewardRequest : PaymentUnderway(s)' => PaymentUnderway(s) \/ Waiting(s)'
      BY <1>1, <1>3, <2>1 DEF PaymentUnderway, PaidBy
    <2>3. \A s \in RewardRequest : RejectedReceipt(s)' /\ Opened(s) => RejectedReceipt(s)
      BY <1>3 DEF RInv, RejectedReceipt, Opened
    <2> QED
      BY <2>1, <2>2, <2>3
  <1>4. OpenReceipt(c, r, new) \/ Resume(c, r, new)
    BY DEF Begin
  <1>5. CASE Resume(c, r, new)
    BY <1>3, <1>5 DEF Resume, Waiting, Opened
  <1>6. CASE OpenReceipt(c, r, new)
    <2>1. CASE receipt' = [receipt EXCEPT ![r] = new] /\ Ask(c, r) /\ ~Opened(r)
      <3>1. Waiting(r)'
        BY <2>1, NoRewardAssumption DEF Waiting, Opened, RInv
      <3> QED
        BY <1>3, <2>1, <3>1
    <2>2. CASE /\ UNCHANGED redeem /\ ~Opened(r)
               /\ \/ receipt' = [receipt EXCEPT ![r] = [new EXCEPT !.state = "rejected"]]
                  \/ receipt' = [receipt EXCEPT ![r] = [new EXCEPT !.state = "complete"]]
      BY <1>2, <2>2
    <2> QED
      BY <1>6, <2>1, <2>2 DEF OpenReceipt, PaidLocally
  <1> QED
    BY <1>4, <1>5, <1>6

\* A step starts the payment of a waiting request only, rejects a request when it is
\* opened or by its refusal, and refuses for want of XP only.
LEMMA StepSpares ==
    ASSUME RInv, [RewardNext]_allRewardVars
    PROVE  /\ \A s \in RewardRequest : PaymentUnderway(s)' => PaymentUnderway(s) \/ Waiting(s)'
           /\ \A s \in RewardRequest : RejectedReceipt(s)' /\ Opened(s) =>
                RejectedReceipt(s) \/ \E c \in RewardCall : RefuseReward(c) /\ redeem[c].request = s
           /\ \A d \in RewardCall : redeem'[d].step = "refused" =>
                \/ redeem'[d] = redeem[d]
                \/ /\ redeem'[d].request = redeem[d].request /\ redeem[d].request \in RewardRequest
                   /\ xp' = xp /\ ~Posted(RewardKey(redeem[d].request))
  <1> DEFINE Goal ==
           /\ \A s \in RewardRequest : PaymentUnderway(s)' => PaymentUnderway(s) \/ Waiting(s)'
           /\ \A s \in RewardRequest : RejectedReceipt(s)' /\ Opened(s) =>
                RejectedReceipt(s) \/ \E c \in RewardCall : RefuseReward(c) /\ redeem[c].request = s
           /\ \A d \in RewardCall : redeem'[d].step = "refused" =>
                \/ redeem'[d] = redeem[d]
                \/ /\ redeem'[d].request = redeem[d].request /\ redeem[d].request \in RewardRequest
                   /\ xp' = xp /\ ~Posted(RewardKey(redeem[d].request))
  <1>1. ASSUME NEW c \in RewardCall, NEW r \in RewardRequest, NEW u \in XpUser, NEW w \in Reward,
               Begin(c, r, [state |-> "pending", user |-> u, reward |-> w,
                            currency |-> "streamer", cost |-> w.price])
        PROVE  Goal
    <2>1. PICK new : new = [state |-> "pending", user |-> u, reward |-> w,
                            currency |-> "streamer", cost |-> w.price]
      OBVIOUS
    <2>2. new \in Receipt /\ new.state = "pending"
      BY <2>1, RewardAssumption DEF Receipt
    <2> QED
      BY <1>1, <2>1, <2>2, BeginSpares
  <1>2. ASSUME NEW c \in RewardCall, NEW r \in RewardRequest, NEW u \in XpUser, NEW w \in Reward,
               NEW q \in Quote,
               Begin(c, r, [state |-> "pending", user |-> u, reward |-> w,
                            currency |-> "spmt", cost |-> q])
        PROVE  Goal
    <2>1. PICK new : new = [state |-> "pending", user |-> u, reward |-> w,
                            currency |-> "spmt", cost |-> q]
      OBVIOUS
    <2>2. new \in Receipt /\ new.state = "pending"
      BY <2>1, RewardAssumption DEF Receipt
    <2> QED
      BY <1>2, <2>1, <2>2, BeginSpares
  <1>3. ASSUME NEW c \in RewardCall, redeem' = [redeem EXCEPT ![c] = NoCall],
               late' \subseteq late \cup {redeem[c].request}, redeem[c].step # "idle"
        PROVE  /\ \A s \in RewardRequest : PaymentUnderway(s)' => PaymentUnderway(s)
               /\ \A d \in RewardCall : redeem'[d].step = "refused" => redeem'[d] = redeem[d]
    BY <1>3 DEF RInv, PaymentUnderway, PaidBy, NoCall
  <1>4. ASSUME NEW c \in RewardCall, GiveUp(c) \/ AnswerLost(c) PROVE Goal
    <2>1. UNCHANGED receipt /\ redeem' = [redeem EXCEPT ![c] = NoCall]
          /\ late' \subseteq late \cup {redeem[c].request} /\ redeem[c].step # "idle"
      BY <1>4 DEF GiveUp, AnswerLost
    <2> QED
      BY <1>3, <2>1 DEF RejectedReceipt, Opened
  <1>5. ASSUME NEW c \in RewardCall, SettleReward(c) \/ RefuseReward(c) PROVE Goal
    <2>1. redeem' = [redeem EXCEPT ![c] = NoCall] /\ late' = late /\ redeem[c].step # "idle"
      BY <1>5 DEF SettleReward, RefuseReward
    <2>2. PICK r \in RewardRequest : r = redeem[c].request /\ Opened(r)
      BY <1>5 DEF SettleReward, RefuseReward, RInv, CallOK, PaysXp
    <2>3. \/ receipt' = [receipt EXCEPT ![r].state = "complete"]
          \/ RefuseReward(c) /\ receipt' = [receipt EXCEPT ![r].state = "rejected"]
          \/ UNCHANGED receipt
      BY <1>5, <2>2 DEF SettleReward, RefuseReward
    <2>4. receipt[r] \in Receipt
      BY <2>2, OpenedType
    <2>5. receipt' = [receipt EXCEPT ![r].state = "complete"] => receipt'[r].state = "complete"
      BY <2>4 DEF RInv, Receipt
    <2>6. \A s \in RewardRequest : s # r => receipt'[s] = receipt[s]
      BY <2>3 DEF RInv
    <2>7. ASSUME NEW s \in RewardRequest, RejectedReceipt(s)', Opened(s), ~RejectedReceipt(s)
          PROVE  RefuseReward(c) /\ redeem[c].request = s
      BY <2>2, <2>3, <2>5, <2>6, <2>7 DEF RejectedReceipt, Opened
    <2> QED
      BY <1>3, <2>1, <2>7
  <1>6. ASSUME NEW c \in RewardCall, PaymentArrives(c) PROVE Goal
    <2>1. PICK r \in RewardRequest : r = redeem[c].request
      BY <1>6 DEF PaymentArrives, RInv, CallOK
    <2> DEFINE outcome == SpendOutcome(RewardKey(r), receipt[r].user, receipt[r].cost)
    <2>2. /\ redeem[c].step = "asked" /\ Pay(r) /\ UNCHANGED <<receipt, late>>
          /\ redeem' = [redeem EXCEPT ![c] =
               IF outcome = "conflict" THEN NoCall
               ELSE [@ EXCEPT !.step = IF outcome = "insufficient" THEN "refused" ELSE "charged"]]
      BY <1>6, <2>1 DEF PaymentArrives
    <2>3. outcome = "insufficient" => xp' = xp /\ ~Posted(RewardKey(r))
      BY <2>2 DEF Pay, SpendXp, SpendOutcome
    <2>4. redeem[c] \in CallType
      BY DEF RInv
    <2> HIDE DEF outcome
    <2>5. redeem'[c] = NoCall \/ redeem'[c].request = r
      BY <2>1, <2>2, <2>4 DEF RInv, CallType
    <2>6. redeem'[c].step = "refused" => outcome = "insufficient" /\ redeem'[c].request = r
      BY <2>1, <2>2, <2>4 DEF RInv, CallType, NoCall
    <2>7. \A d \in RewardCall : d # c => redeem'[d] = redeem[d]
      BY <2>2 DEF RInv
    <2>8. \A s \in RewardRequest : PaymentUnderway(s)' => PaymentUnderway(s)
      BY <2>1, <2>2, <2>5, <2>7 DEF PaymentUnderway, PaidBy, NoCall
    <2> QED
      BY <2>1, <2>2, <2>3, <2>6, <2>7, <2>8 DEF RejectedReceipt, Opened
  <1>7. ASSUME UNCHANGED <<receipt, redeem>>, late' \subseteq late PROVE Goal
    BY <1>7 DEF PaymentUnderway, PaidBy, RejectedReceipt, Opened
  <1>8. (\E r \in RewardRequest : LatePayment(r)) \/ UNCHANGED rewardVars \/ UNCHANGED allRewardVars
          => UNCHANGED <<receipt, redeem>> /\ late' \subseteq late
    BY DEF LatePayment, rewardVars, allRewardVars
  <1> HIDE DEF Goal
  <1>9. Goal
    BY <1>1, <1>2, <1>4, <1>5, <1>6, <1>7, <1>8 DEF RewardNext, RewardStep
  <1> QED
    BY <1>9 DEF Goal

LEMMA SparedStep ==
    ASSUME RInv, \A r \in RewardRequest : SpentByReward(r), OnePaymentAtATime, Spared,
           [RewardNext]_allRewardVars, \A r \in RewardRequest : OnlyRewardsSpend(r)
    PROVE  Spared'
  <1>1. ASSUME NEW s \in RewardRequest, ~Charged(s), ~PaymentUnderway(s) PROVE ~Charged(s)'
    BY <1>1, ChargeStep DEF PaymentUnderway, LatePayment
  <1>2. ASSUME NEW s \in RewardRequest, RejectedReceipt(s)' PROVE ~Charged(s)' /\ ~PaymentUnderway(s)'
    <2>1. ~Waiting(s)'
      BY <1>2 DEF Waiting, RejectedReceipt
    <2>2. CASE RejectedReceipt(s)
      BY <1>1, <2>1, <2>2, StepSpares DEF Spared
    <2>3. CASE ~Opened(s)
      <3>1. ~Charged(s)
        BY <2>3 DEF SpentByReward, Charged, PaysXp
      <3>2. ~PaymentUnderway(s)
        BY <2>3 DEF PaymentUnderway, PaidBy, RInv, CallOK, PaysXp
      <3> QED
        BY <1>1, <2>1, <3>1, <3>2, StepSpares
    <2>4. ASSUME NEW c \in RewardCall, RefuseReward(c), redeem[c].request = s
          PROVE  ~Charged(s)' /\ ~PaymentUnderway(s)'
      <3>1. /\ redeem[c].step = "refused" /\ UNCHANGED <<ledgerVars, late>>
            /\ redeem' = [redeem EXCEPT ![c] = NoCall]
        BY <2>4 DEF RefuseReward
      <3>2. ~Charged(s)'
        BY <2>4, <3>1 DEF Spared, Charged, Posted, RewardKey, ledgerVars
      <3>3. PaidBy(c, s) /\ s \notin late /\ \A d \in RewardCall : PaidBy(d, s) => d = c
        BY <2>4, <3>1 DEF PaidBy, OnePaymentAtATime
      <3>4. ~PaymentUnderway(s)'
        BY <3>1, <3>3 DEF PaymentUnderway, PaidBy, NoCall, RInv
      <3> QED
        BY <3>2, <3>4
    <2> QED
      BY <1>2, <2>2, <2>3, <2>4, StepSpares
  <1>3. ASSUME NEW d \in RewardCall, redeem'[d].step = "refused", NEW q, q = redeem'[d].request
        PROVE  ~Charged(q)'
    <2>1. CASE redeem'[d] = redeem[d]
      <3>1. PICK s \in RewardRequest : s = redeem[d].request
        BY <1>3, <2>1 DEF RInv, CallOK
      <3>2. PaidBy(d, s) /\ ~Charged(s)
        BY <1>3, <2>1, <3>1 DEF PaidBy, Spared
      <3>3. s \notin late /\ \A c \in RewardCall : PaidBy(c, s) => c = d
        BY <3>2 DEF OnePaymentAtATime
      <3>4. ~PaymentArrives(d)
        BY <1>3, <2>1 DEF PaymentArrives
      <3>5. ~Charged(s)'
        BY <3>2, <3>3, <3>4, ChargeStep DEF LatePayment
      <3> QED
        BY <1>3, <2>1, <3>1, <3>5
    <2>2. CASE /\ redeem'[d].request = redeem[d].request /\ redeem[d].request \in RewardRequest
               /\ xp' = xp /\ ~Posted(RewardKey(redeem[d].request))
      BY <1>3, <2>2 DEF Charged, Posted, RewardKey
    <2> QED
      BY <1>3, <2>1, <2>2, StepSpares
  <1>4. ASSUME NEW d \in RewardCall, redeem'[d].step = "refused"
        PROVE  ~Charged(redeem[d].request)'
    BY <1>3, <1>4 DEF Charged, Posted, RewardKey
  <1> QED
    BY <1>2, <1>4 DEF Spared

\* While no request is paid twice at once, a rejected redemption is never charged:
\* overlapping payments are the only way to the violation of RejectedWasNotCharged.
THEOREM OnlyOverlapChargesRejected ==
    RewardSpec /\ [][\A r \in RewardRequest : OnlyRewardsSpend(r)]_allRewardVars
      /\ []OnePaymentAtATime
      => []RejectedWasNotCharged
  <1> DEFINE Spends == \A r \in RewardRequest : SpentByReward(r)
  <1>1. LedgerInit /\ RewardInit => Spared
    BY DEF RewardInit, NoCall, Spared, RejectedReceipt, Opened
  <1>2. RInv /\ Spends /\ OnePaymentAtATime /\ Spared /\ [RewardNext]_allRewardVars
          /\ [\A r \in RewardRequest : OnlyRewardsSpend(r)]_allRewardVars => Spared'
    <2>1. UNCHANGED allRewardVars => \A r \in RewardRequest : OnlyRewardsSpend(r)
      BY DEF OnlyRewardsSpend, allRewardVars, ledgerVars, Posted, RewardKey
    <2> QED
      BY <2>1, SparedStep
  <1>3. Spared => RejectedWasNotCharged
    BY DEF Spared, RejectedReceipt, Charged, RejectedWasNotCharged
  <1> QED
    BY <1>1, <1>2, <1>3, SpendsInvariance, RewardInvariance, PTL DEF RewardSpec

=============================================================================
