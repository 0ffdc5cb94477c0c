--------------------------- MODULE IdentityProofs ----------------------------
(***************************************************************************)
(* Proofs about who may act: sign-in tokens and services (HumanSessions),  *)
(* and credentials at providers (ProviderCredentials).                     *)
(***************************************************************************)
EXTENDS HumanSessions, ProviderCredentials, TLAPS

-----------------------------------------------------------------------------
(***************************************************************************)
(* Proofs about HumanSessions, for any number of tokens, keys, credentials *)
(* and policies.  A family is a chain (Chain): every token but the last    *)
(* was used and points at the next one.  Its owner holds the last or the   *)
(* one before it (KeepsUp), and no call carries a token the owner has not  *)
(* held (Presented); so a first use, which is always of the last token, is *)
(* one of the token held, and the owner falls at most one behind.          *)
(***************************************************************************)

Chain ==
    \A i \in 1..Len(family) :
      /\ family[i].used <=> i < Len(family)
      /\ family[i].used => family[i].next = i + 1

KeepsUp == family # <<>> => held \in {Len(family) - 1, Len(family)} \ {0}

Presented == wire \subseteq 1..held

\* What was granted at the version of the day is what the service has.
GrantedIsOfVersion ==
    \A s \in granted :
      /\ s.version <= service.version
      /\ s.version = service.version =>
           s.credential = service.credential /\ s.policy = service.policy

FamilyInv == Chain /\ KeepsUp /\ Presented
SessionInv == SessionTypeOK /\ FamilyInv /\ GrantedIsOfVersion

-----------------------------------------------------------------------------
(* Sequences. *)

\* A token is replaced in its place.
LEMMA Replaced ==
    ASSUME NEW s \in Seq(RefreshToken), NEW i \in 1..Len(s), NEW x \in RefreshToken
    PROVE  /\ [s EXCEPT ![i] = x] \in Seq(RefreshToken)
           /\ Len([s EXCEPT ![i] = x]) = Len(s)
           /\ \A j \in 1..Len(s) : [s EXCEPT ![i] = x][j] = IF j = i THEN x ELSE s[j]
  OBVIOUS

\* A token is appended.
LEMMA Appended ==
    ASSUME NEW s \in Seq(RefreshToken), NEW x \in RefreshToken
    PROVE  /\ Append(s, x) \in Seq(RefreshToken)
           /\ Len(Append(s, x)) = Len(s) + 1
           /\ Append(s, x) # <<>>
           /\ \A j \in 1..Len(s) : Append(s, x)[j] = s[j]
           /\ Append(s, x)[Len(s) + 1] = x
  OBVIOUS

\* A token is used; a token's overlap ends.
Marked(t, k, key) == [t EXCEPT !.used = TRUE, !.next = k, !.by = key]

LEMMA UsedToken ==
    ASSUME NEW t \in RefreshToken, NEW k \in Nat, NEW key \in RotationKey
    PROVE  /\ Marked(t, k, key) \in RefreshToken
           /\ Marked(t, k, key).used
           /\ Marked(t, k, key).next = k
  BY DEF RefreshToken, Marked

LEMMA PastToken ==
    ASSUME NEW t \in RefreshToken
    PROVE  /\ [t EXCEPT !.past = TRUE] \in RefreshToken
           /\ [t EXCEPT !.past = TRUE].used = t.used
           /\ [t EXCEPT !.past = TRUE].next = t.next
  BY DEF RefreshToken

LEMMA ExpiredToken ==
    ASSUME NEW t \in RefreshToken
    PROVE  /\ [t EXCEPT !.expired = TRUE] \in RefreshToken
           /\ [t EXCEPT !.expired = TRUE].used = t.used
           /\ [t EXCEPT !.expired = TRUE].next = t.next
  BY DEF RefreshToken

LEMMA NewTokenType == rotationKey \in RotationKey => NewToken \in RefreshToken
  BY DEF NewToken, RefreshToken

\* A step that changes no token's use, its successor or the owner's place keeps the
\* family as it is.
LEMMA SameUses ==
    ASSUME SessionTypeOK, FamilyInv, Len(family') = Len(family),
           family' \in Seq(RefreshToken), held' = held, wire' \subseteq wire,
           \A j \in 1..Len(family) : /\ family'[j].used = family[j].used
                                     /\ family'[j].next = family[j].next
    PROVE  FamilyInv'
  <1>1. Chain'
    BY DEF Chain, FamilyInv
  <1>2. KeepsUp' /\ Presented'
    <2>1. Len(family) \in Nat /\ (family' # <<>> => family # <<>>)
      BY DEF SessionTypeOK
    <2> QED
      BY <2>1 DEF KeepsUp, Presented, FamilyInv
  <1> QED
    BY <1>1, <1>2 DEF FamilyInv

-----------------------------------------------------------------------------
(* Initial states and steps. *)

LEMMA SessionInvInit == SessionInit => SessionInv
  <1> SUFFICES ASSUME SessionInit PROVE SessionInv
    OBVIOUS
  <1>1. family = <<>> /\ Len(family) = 0 /\ family \in Seq(RefreshToken)
    BY DEF SessionInit
  <1>2. SessionTypeOK
    <2>1. held \in 0..Len(family) /\ wire \subseteq 1..Len(family)
      BY <1>1 DEF SessionInit
    <2>2. service \in Identity /\ granted = {} /\ revoked \in BOOLEAN /\ rotationKey \in RotationKey
      BY DEF SessionInit
    <2> QED
      BY <1>1, <2>1, <2>2 DEF SessionTypeOK
  <1>3. FamilyInv
    BY <1>1 DEF SessionInit, FamilyInv, Chain, KeepsUp, Presented
  <1>4. GrantedIsOfVersion
    BY DEF SessionInit, GrantedIsOfVersion
  <1> QED
    BY <1>2, <1>3, <1>4 DEF SessionInv

\* What every step of the family leaves alone.
LEMMA ServiceUntouched ==
    ASSUME SessionInv, UNCHANGED serviceVars, revoked' \in BOOLEAN, rotationKey' \in RotationKey,
           family' \in Seq(RefreshToken), held' \in 0..Len(family'),
           wire' \subseteq 1..Len(family'), FamilyInv'
    PROVE  SessionInv'
  BY DEF SessionInv, serviceVars, SessionTypeOK, GrantedIsOfVersion

\* An answer that carries a token of the family leaves its owner with one at least
\* as new as before.
LEMMA AnswerHeld ==
    ASSUME NEW j \in Nat, held \in Nat, Answered(j)
    PROVE  held' \in {held, j} /\ held' >= held
  BY DEF Answered

\* A first use rotates the token held, the last of the family.
LEMMA RotateKeeps ==
    ASSUME SessionInv, NEW i \in wire, RotateRefresh(i)
    PROVE  SessionInv'
  <1> DEFINE n == Len(family)
             old == Marked(family[i], n + 1, rotationKey)
             marked == [family EXCEPT ![i] = old]
  <1>1. /\ family \in Seq(RefreshToken) /\ n \in Nat /\ held \in 0..n /\ i \in 1..held
        /\ rotationKey \in RotationKey
    BY DEF SessionInv, SessionTypeOK, FamilyInv, Presented
  <1>2. i = n /\ held = n /\ ~family[i].used /\ family # <<>>
    BY <1>1 DEF SessionInv, FamilyInv, Chain, RotateRefresh
  <1>3. family[i] \in RefreshToken
    BY <1>1, <1>2
  <1>4. old \in RefreshToken /\ old.used /\ old.next = n + 1
    <2>1. n + 1 \in Nat
      BY <1>1
    <2> QED
      BY <1>1, <1>3, <2>1, UsedToken
  <1>5. family' = Append(marked, NewToken)
    BY DEF RotateRefresh, Marked
  <1>6. /\ marked \in Seq(RefreshToken) /\ Len(marked) = n
        /\ \A j \in 1..n : marked[j] = IF j = i THEN old ELSE family[j]
    BY <1>1, <1>2, <1>4, Replaced
  <1>7. NewToken \in RefreshToken /\ ~NewToken.used
    BY <1>1, NewTokenType DEF NewToken
  <1>8. /\ family' \in Seq(RefreshToken) /\ Len(family') = n + 1 /\ family' # <<>>
        /\ \A j \in 1..n : family'[j] = IF j = i THEN old ELSE family[j]
        /\ family'[n + 1] = NewToken
    <2> HIDE DEF marked
    <2> QED
      BY <1>5, <1>6, <1>7, Appended
  <1>9. held' \in {n, n + 1} /\ held' >= held
    BY <1>1, <1>2, AnswerHeld DEF RotateRefresh
  <1>10. wire' \subseteq wire
    BY DEF RotateRefresh, Arrives
  <1>11. Chain'
    <2> SUFFICES ASSUME NEW j \in 1..Len(family')
                 PROVE  /\ family'[j].used <=> j < Len(family')
                        /\ family'[j].used => family'[j].next = j + 1
      BY DEF Chain
    <2>1. CASE j = n + 1
      BY <2>1, <1>1, <1>7, <1>8
    <2>2. CASE j = n
      <3>1. family'[j] = old /\ j < Len(family') /\ j + 1 = n + 1
        BY <2>2, <1>1, <1>2, <1>8
      <3> HIDE DEF old
      <3> QED
        BY <3>1, <1>4
    <2>3. CASE j \in 1..(n - 1)
      <3>1. family[j].used /\ family[j].next = j + 1 /\ family'[j] = family[j]
        BY <2>3, <1>1, <1>2, <1>8 DEF SessionInv, FamilyInv, Chain
      <3> QED
        BY <2>3, <3>1, <1>1, <1>8
    <2> QED
      BY <2>1, <2>2, <2>3, <1>1, <1>8
  <1>12. KeepsUp' /\ Presented'
    BY <1>1, <1>2, <1>8, <1>9, <1>10 DEF KeepsUp, Presented, SessionInv, FamilyInv
  <1>13. held' \in 0..Len(family') /\ wire' \subseteq 1..Len(family')
    BY <1>1, <1>8, <1>9, <1>12 DEF Presented
  <1>14. UNCHANGED serviceVars /\ revoked' \in BOOLEAN /\ rotationKey' \in RotationKey
    BY DEF RotateRefresh, serviceVars, SessionInv, SessionTypeOK
  <1> QED
    BY <1>8, <1>11, <1>12, <1>13, <1>14, ServiceUntouched DEF FamilyInv

\* A later use within the overlap answers with the token after it.
LEMMA ReissueKeeps ==
    ASSUME SessionInv, NEW i \in wire, ReissueRefresh(i)
    PROVE  SessionInv'
  <1> DEFINE n == Len(family)
  <1>1. n \in Nat /\ held \in 0..n /\ i \in 1..held /\ family \in Seq(RefreshToken)
    BY DEF SessionInv, SessionTypeOK, FamilyInv, Presented
  <1>2. i < n /\ Successor(i) = i + 1
    BY <1>1 DEF SessionInv, FamilyInv, Chain, ReissueRefresh, Successor
  <1>3. held' \in {held, i + 1} /\ held' >= held
    BY <1>1, <1>2, AnswerHeld DEF ReissueRefresh
  <1>4. /\ UNCHANGED <<family, serviceVars>> /\ wire' \subseteq wire
        /\ revoked' \in BOOLEAN /\ rotationKey' \in RotationKey
    BY DEF ReissueRefresh, Arrives, SessionInv, SessionTypeOK
  <1>5. Chain'
    BY <1>4 DEF SessionInv, FamilyInv, Chain
  <1>6. KeepsUp' /\ Presented'
    BY <1>1, <1>2, <1>3, <1>4 DEF KeepsUp, Presented, SessionInv, FamilyInv
  <1>7. held' \in 0..Len(family') /\ wire' \subseteq 1..Len(family')
    BY <1>1, <1>2, <1>3, <1>4, <1>6 DEF Presented
  <1> QED
    BY <1>1, <1>4, <1>5, <1>6, <1>7, ServiceUntouched DEF FamilyInv

\* Every step of the family keeps the invariant.
LEMMA FamilyKeeps ==
    ASSUME SessionInv, FamilyNext
    PROVE  SessionInv'
  <1> DEFINE n == Len(family)
  <1>1. /\ family \in Seq(RefreshToken) /\ n \in Nat /\ held \in 0..n
        /\ wire \subseteq 1..held /\ wire \subseteq 1..n
        /\ revoked \in BOOLEAN /\ rotationKey \in RotationKey
    BY DEF SessionInv, SessionTypeOK, FamilyInv, Presented
  <1>2. CASE IssueHumanSession
    <2>1. family' = <<NewToken>> /\ held' = 1 /\ wire' = wire /\ UNCHANGED serviceVars
          /\ revoked' = revoked /\ rotationKey' = rotationKey /\ n = 0
      BY <1>2 DEF IssueHumanSession, serviceVars
    <2>2. NewToken \in RefreshToken /\ ~NewToken.used
      BY <1>1, NewTokenType DEF NewToken
    <2>3. family' \in Seq(RefreshToken) /\ Len(family') = 1 /\ family'[1] = NewToken
      BY <2>1, <2>2
    <2>4. FamilyInv'
      BY <2>1, <2>2, <2>3, <1>1 DEF FamilyInv, Chain, KeepsUp, Presented
    <2> QED
      BY <1>1, <2>1, <2>3, <2>4, ServiceUntouched
  <1>3. CASE Present
    <2>1. /\ UNCHANGED <<family, revoked, rotationKey, held, serviceVars>>
          /\ wire' = wire \cup {held} /\ held > 0
      BY <1>3 DEF Present
    <2>2. FamilyInv'
      BY <2>1, <1>1 DEF SessionInv, FamilyInv, Chain, KeepsUp, Presented
    <2> QED
      BY <1>1, <2>1, <2>2, ServiceUntouched
  <1>4. CASE ChangeKey
    <2>1. UNCHANGED <<family, revoked, held, wire, serviceVars>> /\ rotationKey' \in RotationKey
      BY <1>4 DEF ChangeKey
    <2>2. FamilyInv'
      BY <2>1 DEF SessionInv, FamilyInv, Chain, KeepsUp, Presented
    <2> QED
      BY <1>1, <2>1, <2>2, ServiceUntouched
  <1>5. CASE \E i \in wire : RotateRefresh(i) \/ ReissueRefresh(i)
    BY <1>5, RotateKeeps, ReissueKeeps
  <1>6. CASE \E i \in wire : ReplayRevokes(i) \/ DenyRefresh(i)
    <2>1. /\ UNCHANGED <<family, rotationKey, held, serviceVars>>
          /\ wire' \subseteq wire /\ revoked' \in BOOLEAN
      BY <1>1, <1>6 DEF ReplayRevokes, DenyRefresh, Arrives
    <2>2. FamilyInv'
      BY <1>1, <2>1, SameUses DEF SessionInv
    <2> QED
      BY <1>1, <2>1, <2>2, ServiceUntouched
  <1>7. CASE \E i \in DOMAIN family : OverlapEnds(i)
    <2>1. PICK i \in 1..n : OverlapEnds(i)
      BY <1>1, <1>7
    <2> DEFINE old == [family[i] EXCEPT !.past = TRUE]
    <2>2. family[i] \in RefreshToken /\ old \in RefreshToken
          /\ old.used = family[i].used /\ old.next = family[i].next
      BY <1>1, PastToken
    <2>3. family' = [family EXCEPT ![i] = old] /\ UNCHANGED <<revoked, rotationKey, held, wire, serviceVars>>
      BY <2>1 DEF OverlapEnds
    <2>4. /\ family' \in Seq(RefreshToken) /\ Len(family') = n
          /\ \A j \in 1..n : family'[j] = IF j = i THEN old ELSE family[j]
      BY <1>1, <2>2, <2>3, Replaced
    <2>5. FamilyInv'
      BY <1>1, <2>2, <2>3, <2>4, SameUses DEF SessionInv
    <2> QED
      BY <1>1, <2>3, <2>4, <2>5, ServiceUntouched
  <1>8. CASE \E i \in DOMAIN family : RefreshExpires(i)
    <2>1. PICK i \in 1..n : RefreshExpires(i)
      BY <1>1, <1>8
    <2> DEFINE old == [family[i] EXCEPT !.expired = TRUE]
    <2>2. family[i] \in RefreshToken /\ old \in RefreshToken
          /\ old.used = family[i].used /\ old.next = family[i].next
      BY <1>1, ExpiredToken
    <2>3. /\ family' = [family EXCEPT ![i] = old]
          /\ UNCHANGED <<revoked, rotationKey, held, wire, serviceVars>>
      BY <2>1 DEF RefreshExpires
    <2>4. /\ family' \in Seq(RefreshToken) /\ Len(family') = n
          /\ \A j \in 1..n : family'[j] = IF j = i THEN old ELSE family[j]
      BY <1>1, <2>2, <2>3, Replaced
    <2>5. FamilyInv'
      BY <1>1, <2>2, <2>3, <2>4, SameUses DEF SessionInv
    <2> QED
      BY <1>1, <2>3, <2>4, <2>5, ServiceUntouched
  <1> QED
    BY <1>2, <1>3, <1>4, <1>5, <1>6, <1>7, <1>8 DEF FamilyNext

\* Every step of the service identity keeps the invariant: whatever changes what is
\* granted changes the version.
LEMMA ServiceKeeps ==
    ASSUME SessionInv, ServiceNext
    PROVE  SessionInv'
  <1>1. UNCHANGED familyVars
    BY DEF ServiceNext, RotateCredential, RegisterService, ReconcileService, Rewrite,
           RevokeService, IssueServiceAccess, ServiceAccessExpires
  <1>2. FamilyInv'
    BY <1>1 DEF SessionInv, FamilyInv, Chain, KeepsUp, Presented, familyVars
  <1>3. MaxVersion \in Nat /\ service.version \in 0..MaxVersion /\ service \in Identity
        /\ granted \subseteq [version: 0..MaxVersion, credential: Credential, policy: Policy]
    BY SessionAssumption DEF SessionInv, SessionTypeOK, Identity
  <1>4. service' \in Identity /\ GrantedIsOfVersion'
        /\ granted' \subseteq [version: 0..MaxVersion, credential: Credential, policy: Policy]
    <2>1. ASSUME NEW c \in Credential, NEW policy \in Policy, Rewrite(c, policy)
          PROVE  <1>4!:
      BY <2>1, <1>3 DEF Rewrite, NextVersion, Identity, SessionInv, GrantedIsOfVersion
    <2>2. CASE \E c \in Credential :
                 \/ RotateCredential(c)
                 \/ \E policy \in Policy : RegisterService(c, policy)
                                           \/ ReconcileService(c, policy)
      <3>1. service.policy \in Policy
        BY <1>3 DEF Identity
      <3> QED
        BY <2>1, <2>2, <3>1 DEF RotateCredential, RegisterService, ReconcileService
    <2>3. CASE RevokeService
      <3>1. /\ service' = [service EXCEPT !.state = "revoked", !.version = @ + 1]
            /\ service.version < MaxVersion /\ granted' = granted
        BY <2>3 DEF RevokeService
      <3>2. service' \in Identity
        <4> DEFINE v == service.version + 1
        <4>1. v \in 0..MaxVersion
          BY <1>3, <3>1
        <4>2. service' = [service EXCEPT !.state = "revoked", !.version = v]
          BY <3>1
        <4> HIDE DEF v
        <4> QED
          BY <1>3, <4>1, <4>2 DEF Identity
      <3>3. service'.version = service.version + 1
        BY <1>3, <3>1 DEF Identity
      <3>4. \A s \in granted : s.version \in Nat /\ s.version <= service.version
        BY <1>3 DEF SessionInv, GrantedIsOfVersion
      <3>5. GrantedIsOfVersion'
        BY <1>3, <3>1, <3>3, <3>4 DEF GrantedIsOfVersion
      <3> QED
        BY <1>3, <3>1, <3>2, <3>5
    <2>4. CASE IssueServiceAccess
      BY <2>4, <1>3 DEF IssueServiceAccess, Identity, SessionInv, GrantedIsOfVersion
    <2>5. CASE ServiceAccessExpires
      BY <2>5, <1>3 DEF ServiceAccessExpires, SessionInv, GrantedIsOfVersion
    <2> QED
      BY <2>2, <2>3, <2>4, <2>5 DEF ServiceNext
  <1> QED
    BY <1>1, <1>2, <1>4 DEF SessionInv, SessionTypeOK, familyVars

LEMMA SessionInvStep == SessionInv /\ [SessionNext]_sessionVars => SessionInv'
  <1> SUFFICES ASSUME SessionInv, [SessionNext]_sessionVars PROVE SessionInv'
    OBVIOUS
  <1>1. CASE UNCHANGED sessionVars
    BY <1>1 DEF sessionVars, familyVars, serviceVars, SessionInv, SessionTypeOK, FamilyInv, Chain,
                KeepsUp, Presented, GrantedIsOfVersion
  <1> QED
    BY <1>1, FamilyKeeps, ServiceKeeps DEF SessionNext

-----------------------------------------------------------------------------
(* Theorems. *)

\* The invariant: a family is a chain whose owner is at most one behind, and what was
\* granted at the current version is current.
THEOREM SessionInvariance == SessionSpec => []SessionInv
  BY SessionInvInit, SessionInvStep, PTL DEF SessionSpec

\* Every variable keeps its type.
THEOREM SessionTypeCorrect == SessionSpec => []SessionTypeOK
  <1>1. SessionInv => SessionTypeOK
    BY DEF SessionInv
  <1> QED
    BY <1>1, SessionInvariance, PTL

\* However many answers are lost or calls repeated, an owner is never two rotations
\* behind (rotateHumanRefresh, reissueRefreshOverlap).
THEOREM OwnersKeepUp == SessionSpec => []OwnerKeepsUp
  <1>1. SessionInv => OwnerKeepsUp
    <2> SUFFICES ASSUME SessionInv, family # <<>>
                 PROVE  \E leaf \in DOMAIN family :
                          /\ \A i \in DOMAIN family : ~family[i].used <=> i = leaf
                          /\ held = leaf \/ Successor(held) = leaf
      BY DEF OwnerKeepsUp
    <2> DEFINE n == Len(family)
    <2>1. n \in Nat /\ n > 0
      BY DEF SessionInv, SessionTypeOK
    <2>2. DOMAIN family = 1..n
      BY DEF SessionInv, SessionTypeOK
    <2>3. \A i \in 1..n : ~family[i].used <=> i = n
      <3>1. \A i \in 1..n : family[i].used <=> i < n
        BY DEF SessionInv, FamilyInv, Chain
      <3>2. \A i \in 1..n : (i < n => i # n) /\ (~(i < n) => i = n)
        BY <2>1
      <3> QED
        BY <3>1, <3>2, Zenon
    <2>4. held = n \/ Successor(held) = n
      BY <2>1 DEF SessionInv, FamilyInv, Chain, KeepsUp, Successor
    <2> WITNESS n \in DOMAIN family
    <2> QED
      BY <2>1, <2>2, <2>3, <2>4
  <1> QED
    BY <1>1, SessionInvariance, PTL

\* Refreshes at once and retries of lost answers never sign their owner out
\* (rotateHumanRefresh's replay).
THEOREM RevokedByReplayOnly == SessionSpec => RevokedOnlyByReplay
  <1>1. ASSUME SessionInv, [SessionNext]_sessionVars, revoked' # revoked
        PROVE  \E i \in wire : /\ family[i].used
                               /\ \/ i < held
                                  \/ family[i].past \/ family[i].by # rotationKey
                                  \/ family[Successor(i)].expired
    <2>1. PICK i \in wire : ReplayRevokes(i)
      BY <1>1 DEF SessionNext, FamilyNext, ServiceNext, IssueHumanSession, Present, ChangeKey,
          RotateRefresh, ReissueRefresh, DenyRefresh, OverlapEnds, RefreshExpires,
          RotateCredential, RegisterService, ReconcileService, Rewrite, RevokeService,
          IssueServiceAccess, ServiceAccessExpires, sessionVars, familyVars
    <2> DEFINE n == Len(family)
    <2>2. n \in Nat /\ held \in 0..n /\ i \in 1..n /\ family # <<>>
      BY <1>1 DEF SessionInv, SessionTypeOK
    <2>3. family[i].used /\ ~revoked /\ ~InOverlap(i)
      BY <2>1 DEF ReplayRevokes, Usable
    <2>4. Successor(i) = i + 1 /\ i + 1 <= n
      BY <1>1, <2>2, <2>3 DEF SessionInv, FamilyInv, Chain, Successor
    <2>5. CASE family[Successor(i)].used
      <3>1. i + 1 < n
        BY <1>1, <2>2, <2>4, <2>5 DEF SessionInv, FamilyInv, Chain
      <3>2. i < held
        BY <1>1, <2>2, <3>1 DEF SessionInv, FamilyInv, KeepsUp
      <3> QED
        BY <2>3, <3>2
    <2>6. CASE ~family[Successor(i)].used
      BY <2>3, <2>6 DEF InOverlap, Usable
    <2> QED
      BY <2>5, <2>6
  <1>2. SessionInv /\ [SessionNext]_sessionVars =>
          [revoked' # revoked =>
             \E i \in wire : /\ family[i].used
                             /\ \/ i < held
                                \/ family[i].past \/ family[i].by # rotationKey
                                \/ family[Successor(i)].expired]_sessionVars
    BY <1>1
  <1> QED
    BY <1>2, SessionInvariance, PTL DEF SessionSpec, RevokedOnlyByReplay

\* Rotation, reconciliation and revocation of a service end every access token issued
\* before them (authenticateAccessToken).
THEOREM ServiceAccessCurrent == SessionSpec => []ServiceAccessIsCurrent
  <1>1. SessionInv => ServiceAccessIsCurrent
    BY DEF SessionInv, GrantedIsOfVersion, ServiceAccessIsCurrent, Authenticates
  <1> QED
    BY <1>1, SessionInvariance, PTL

-----------------------------------------------------------------------------
(***************************************************************************)
(* Proofs about ProviderCredentials, for any processes, calls, links and   *)
(* rotations.  A live lease stands for a call: its owner has one under way *)
(* that claimed the very tokens of the row (LeaseIsCall).  So an answer    *)
(* that is applied although its call claimed other tokens is applied under *)
(* the lease of another call of its process.                               *)
(***************************************************************************)

\* A row has tokens once it was linked.
LinkedHasToken == credential.state # "none" => credential.token \in Token

\* Every call under way read a row that has tokens, and rows stay.
FlightHasToken ==
    \A c \in Call : InFlight(c) => /\ credential.state # "none"
                                  /\ call[c].token \in Token /\ call[c].claimed \in Token

\* The lease is that of call c.
Leases(c) ==
    /\ c[1] = credential.owner
    /\ InFlight(c) /\ call[c].answer # Claiming /\ call[c].claimed = credential.token

LeaseIsCall == credential.owner \in Refresher => \E c \in Call : Leases(c)

CredentialInv ==
    /\ CredentialTypeOK /\ LinkedHasToken /\ FlightHasToken
    /\ LeaseMatchesState /\ LeaseIsCall

-----------------------------------------------------------------------------
(* Rows and calls. *)

LEMMA Tokens ==
    /\ NoToken \notin Token
    /\ \A a \in Link, g \in 1..MaxRotation : <<a, g>> \in Token
    /\ \A t \in Token : t[1] \in Link /\ t[2] \in 1..MaxRotation /\ t = <<t[1], t[2]>>
    /\ 1 \in 1..MaxRotation
  BY RefresherAssumption DEF Token, Link, NoToken

LEMMA Calls ==
    \A c \in Call : c[1] \in Refresher /\ c[1] # NoRefresher /\ c[1] # Gone
  BY RefresherAssumption

\* A write that ends the lease keeps the row's type and tokens.
LEMMA ReleasedRow ==
    ASSUME NEW row \in CredentialRow, NEW state \in CredentialState
    PROVE  /\ Released(row, state) \in CredentialRow
           /\ Released(row, state).state = state /\ Released(row, state).owner = NoRefresher
           /\ Released(row, state).token = row.token
  BY DEF Released, CredentialRow

LEMMA StoredRow ==
    ASSUME CredentialTypeOK, NEW t \in Token
    PROVE  /\ Stored(t) \in CredentialRow /\ Stored(t).state = "ready"
           /\ Stored(t).owner = NoRefresher /\ Stored(t).token = t
  <1>1. credential \in CredentialRow /\ "ready" \in CredentialState
    BY DEF CredentialTypeOK, CredentialState
  <1>2. Released(credential, "ready") \in CredentialRow
    BY <1>1, ReleasedRow
  <1>3. Released(credential, "ready").state = "ready" /\ Released(credential, "ready").owner = NoRefresher
    BY <1>1, ReleasedRow
  <1> QED
    BY <1>2, <1>3 DEF Stored, CredentialRow

LEMMA LinkedRow ==
    ASSUME NEW t \in Token
    PROVE  /\ Linked(t) \in CredentialRow /\ Linked(t).state = "ready"
           /\ Linked(t).owner = NoRefresher /\ Linked(t).token = t
  BY DEF Linked, CredentialRow, CredentialState

\* No call at all, and a call with its answer or its claim, are calls.
LEMMA CallTypes ==
    /\ Idle \in Refresh
    /\ \A r \in Refresh, answer \in Answer, t \in Token :
         /\ [r EXCEPT !.answer = answer] \in Refresh
         /\ [r EXCEPT !.answer = answer, !.claimed = t] \in Refresh
    /\ Token \cup {Pending, Denied, Claiming, Condemning} \subseteq Answer
    /\ Claiming \notin Token \cup {Pending, Denied, Condemning}
    /\ Condemning \notin Token \cup {Pending, Denied}
  <1>1. Idle \in Refresh
    BY DEF Idle, Refresh, Answer
  <1>2. \A r \in Refresh, answer \in Answer, t \in Token :
          /\ [r EXCEPT !.answer = answer] \in Refresh
          /\ [r EXCEPT !.answer = answer, !.claimed = t] \in Refresh
    BY DEF Refresh
  <1>3. Token \cup {Pending, Denied, Claiming, Condemning} \subseteq Answer
    BY DEF Answer, Deciding
  <1>4. Claiming \notin Token /\ Condemning \notin Token
    BY RefresherAssumption DEF Token, Link, Claiming, Condemning
  <1>5. Claiming \notin {Pending, Denied, Condemning} /\ Condemning \notin {Pending, Denied}
    BY DEF Pending, Denied, Claiming, Condemning
  <1> QED
    BY <1>1, <1>2, <1>3, <1>4, <1>5

LEMMA Deciders ==
    \A c \in Call : call[c].answer \in {Denied, Condemning} => InFlight(c)
  BY DEF InFlight, Idle, Pending, Denied, Condemning

\* A step that leaves the row unleased keeps the invariant, whatever calls end in it.
LEMMA UnleasedKeeps ==
    ASSUME CredentialInv, links' \in 0..MaxLinks, grant' \in [Link -> Grant],
           call' \in [Call -> Refresh], \A c \in Call : call'[c] \in {call[c], Idle},
           credential' \in CredentialRow, credential'.owner = NoRefresher,
           credential'.state \notin {"none", "refreshing"}, credential'.token \in Token
    PROVE  CredentialInv'
  <1>1. CredentialTypeOK' /\ LinkedHasToken' /\ LeaseMatchesState'
    BY DEF CredentialTypeOK, LinkedHasToken, LeaseMatchesState
  <1>2. FlightHasToken'
    BY DEF CredentialInv, FlightHasToken, InFlight
  <1>3. LeaseIsCall'
    BY RefresherAssumption DEF LeaseIsCall
  <1> QED
    BY <1>1, <1>2, <1>3 DEF CredentialInv

\* A step that leaves the row alone, but for its age and its lease's, keeps the
\* invariant as long as the call that leases it stays.
LEMMA RowKept ==
    ASSUME CredentialInv, links' \in 0..MaxLinks, grant' \in [Link -> Grant],
           call' \in [Call -> Refresh], credential' \in CredentialRow,
           credential'.state = credential.state, credential'.token = credential.token,
           credential'.owner = credential.owner,
           \A c \in Call : call'[c] # Idle => /\ credential.state # "none"
                                             /\ call'[c].token \in Token
                                             /\ call'[c].claimed \in Token,
           \A c \in Call : Leases(c) => /\ call'[c] # Idle /\ call'[c].answer # Claiming
                                        /\ call'[c].claimed = call[c].claimed
    PROVE  CredentialInv'
  <1>1. CredentialTypeOK' /\ LinkedHasToken' /\ LeaseMatchesState'
    BY DEF CredentialInv, CredentialTypeOK, LinkedHasToken, LeaseMatchesState
  <1>2. FlightHasToken'
    BY DEF FlightHasToken, InFlight
  <1>3. LeaseIsCall'
    <2> SUFFICES ASSUME credential.owner \in Refresher
                 PROVE  \E c \in Call :
                          /\ c[1] = credential.owner /\ call'[c] # Idle
                          /\ call'[c].answer # Claiming /\ call'[c].claimed = credential.token
      BY DEF LeaseIsCall, Leases, InFlight
    <2>1. PICK c \in Call : Leases(c)
      BY DEF CredentialInv, LeaseIsCall
    <2> QED
      BY <2>1 DEF Leases
  <1> QED
    BY <1>1, <1>2, <1>3 DEF CredentialInv

-----------------------------------------------------------------------------
(* Initial states and steps. *)

LEMMA CredentialInvInit == CredentialInit => CredentialInv
  <1> SUFFICES ASSUME CredentialInit PROVE CredentialInv
    OBVIOUS
  <1>1. CredentialTypeOK
    <2>1. credential \in CredentialRow /\ links \in 0..MaxLinks
      BY RefresherAssumption DEF CredentialInit, CredentialRow, CredentialState
    <2>2. grant \in [Link -> Grant]
      BY RefresherAssumption DEF CredentialInit, Grant
    <2>3. call \in [Call -> Refresh]
      BY CallTypes DEF CredentialInit
    <2> QED
      BY <2>1, <2>2, <2>3 DEF CredentialTypeOK
  <1>2. LinkedHasToken /\ FlightHasToken /\ LeaseMatchesState /\ LeaseIsCall
    BY RefresherAssumption DEF CredentialInit, LinkedHasToken, FlightHasToken, InFlight,
       LeaseMatchesState, LeaseIsCall
  <1> QED
    BY <1>1, <1>2 DEF CredentialInv

LEMMA LinkKeeps ==
    ASSUME CredentialInv, NEW refreshable \in BOOLEAN, NEW renewable \in BOOLEAN,
           NewLink(refreshable, renewable)
    PROVE  CredentialInv'
  <1>1. links \in 0..MaxLinks /\ links + 1 \in Link /\ links' = links + 1 /\ call' = call
    BY RefresherAssumption DEF NewLink, CredentialInv, CredentialTypeOK, Link
  <1>2. <<links + 1, 1>> \in Token
    BY <1>1, Tokens
  <1>3. grant' \in [Link -> Grant]
    <2>1. [refreshable |-> refreshable, renewable |-> renewable,
           accepts |-> IF renewable THEN 1 ELSE 0] \in Grant
      BY Tokens, RefresherAssumption DEF Grant
    <2> QED
      BY <1>1, <2>1 DEF NewLink, CredentialInv, CredentialTypeOK
  <1>4. credential' = Linked(<<links + 1, 1>>)
    BY DEF NewLink
  <1>5. links' \in 0..MaxLinks
    BY <1>1, RefresherAssumption DEF Link
  <1> QED
    BY <1>1, <1>2, <1>3, <1>4, <1>5, LinkedRow, UnleasedKeeps DEF CredentialInv, CredentialTypeOK

\* A step that gives the row back in some state but "refreshing".
LEMMA ReleaseKeeps ==
    ASSUME CredentialInv, credential.state # "none", NEW state \in CredentialState \ {"none", "refreshing"},
           credential' = Released(credential, state), UNCHANGED <<links, grant>>,
           call' \in [Call -> Refresh], \A c \in Call : call'[c] \in {call[c], Idle}
    PROVE  CredentialInv'
  <1>1. credential \in CredentialRow /\ credential.token \in Token
    BY DEF CredentialInv, CredentialTypeOK, LinkedHasToken
  <1> QED
    BY <1>1, ReleasedRow, UnleasedKeeps DEF CredentialInv, CredentialTypeOK

LEMMA RequireKeeps ==
    ASSUME CredentialInv, credential.state # "none", RequireReauthorization, UNCHANGED <<links, grant>>,
           call' \in [Call -> Refresh], \A c \in Call : call'[c] \in {call[c], Idle}
    PROVE  CredentialInv'
  <1>1. "reauthorization-required" \in CredentialState \ {"none", "refreshing"}
    BY DEF CredentialState
  <1> QED
    BY <1>1, ReleaseKeeps DEF RequireReauthorization

\* A call reads the row: nothing else changes.
LEMMA ReadKeeps ==
    ASSUME CredentialInv, NEW c \in Call, Resolve(c) \/ Recover(c)
    PROVE  CredentialInv'
  <1>1. /\ ~InFlight(c) /\ credential.state # "none" /\ RefreshRow(c)
        /\ UNCHANGED <<credential, links, grant>>
    BY DEF Resolve, Recover, CanStart, RefreshRow
  <1>2. credential.token \in Token
    BY <1>1 DEF CredentialInv, LinkedHasToken
  <1>3. PICK answer \in Answer :
          call' = [call EXCEPT ![c] = [token |-> credential.token, claimed |-> credential.token,
                                       answer |-> answer]]
    BY <1>1, CallTypes DEF RefreshRow
  <1>4. [token |-> credential.token, claimed |-> credential.token, answer |-> answer] \in Refresh
    BY <1>2 DEF Refresh
  <1>5. /\ call' \in [Call -> Refresh]
        /\ call'[c].token = credential.token /\ call'[c].claimed = credential.token
        /\ \A d \in Call \ {c} : call'[d] = call[d]
    BY <1>3, <1>4 DEF CredentialInv, CredentialTypeOK
  <1>6. \A d \in Call : call'[d] # Idle => call'[d].token \in Token /\ call'[d].claimed \in Token
    BY <1>2, <1>5 DEF CredentialInv, FlightHasToken, InFlight
  <1>7. \A d \in Call : Leases(d) => /\ call'[d] # Idle /\ call'[d].answer # Claiming
                                     /\ call'[d].claimed = call[d].claimed
    BY <1>1, <1>5 DEF Leases, InFlight
  <1> QED
    BY <1>1, <1>5, <1>6, <1>7, RowKept DEF CredentialInv, CredentialTypeOK

\* A claim leases the row to the process whose call it makes.
LEMMA ClaimKeeps ==
    ASSUME CredentialInv, NEW c \in Call, ClaimRefresh(c), Claimable
    PROVE  CredentialInv'
  <1>1. /\ credential \in CredentialRow /\ credential.token \in Token
        /\ call \in [Call -> Refresh] /\ call[c] # Idle /\ UNCHANGED <<links, grant>>
    <2>1. call[c].answer # Pending
      BY CallTypes DEF ClaimRefresh
    <2> QED
      BY <2>1 DEF CredentialInv, CredentialTypeOK, LinkedHasToken, Claimable, ClaimRefresh, Idle
  <1>2. /\ credential' \in CredentialRow /\ credential'.state = "refreshing"
        /\ credential'.owner = c[1] /\ credential'.token = credential.token
    BY <1>1, Calls DEF ClaimRefresh, CredentialRow, CredentialState
  <1> DEFINE claim == [call[c] EXCEPT !.answer = Pending, !.claimed = credential.token]
  <1>3. /\ claim \in Refresh /\ claim.token = call[c].token
        /\ claim.claimed = credential.token /\ claim.answer = Pending
    BY <1>1, CallTypes DEF Refresh
  <1>4. call' = [call EXCEPT ![c] = claim]
    BY <1>1 DEF ClaimRefresh
  <1> HIDE DEF claim
  <1>5. call' \in [Call -> Refresh] /\ call'[c] = claim /\ \A d \in Call \ {c} : call'[d] = call[d]
    BY <1>1, <1>3, <1>4
  <1>6. call'[c] # Idle /\ call'[c].token \in Token /\ call'[c].claimed \in Token
    <2>1. call[c].token \in Token
      BY <1>1 DEF CredentialInv, FlightHasToken, InFlight
    <2> QED
      BY <1>1, <1>3, <1>5, <2>1, Tokens DEF Idle
  <1>7. CredentialTypeOK' /\ LinkedHasToken' /\ LeaseMatchesState'
    BY <1>1, <1>2, <1>5, Calls DEF CredentialInv, CredentialTypeOK, LinkedHasToken, LeaseMatchesState
  <1>8. FlightHasToken'
    BY <1>2, <1>5, <1>6 DEF CredentialInv, FlightHasToken, InFlight
  <1>9. LeaseIsCall'
    BY <1>2, <1>3, <1>5, <1>6, CallTypes DEF LeaseIsCall, Leases, InFlight
  <1> QED
    BY <1>7, <1>8, <1>9 DEF CredentialInv

\* A refused claim, and an answer whose lease was lost, end a call that leases nothing.
LEMMA DropKeeps ==
    ASSUME CredentialInv, NEW c \in Call, ~Leases(c), UNCHANGED <<credential, links, grant>>,
           call' = [call EXCEPT ![c] = Idle]
    PROVE  CredentialInv'
  <1>1. /\ call' \in [Call -> Refresh] /\ call'[c] = Idle
        /\ \A d \in Call \ {c} : call'[d] = call[d]
    BY CallTypes DEF CredentialInv, CredentialTypeOK
  <1>2. \A d \in Call : call'[d] # Idle => /\ credential.state # "none"
                                           /\ call'[d].token \in Token /\ call'[d].claimed \in Token
    BY <1>1 DEF CredentialInv, FlightHasToken, InFlight
  <1>3. \A d \in Call : Leases(d) => /\ call'[d] # Idle /\ call'[d].answer # Claiming
                                     /\ call'[d].claimed = call[d].claimed
    BY <1>1 DEF Leases, InFlight
  <1> QED
    BY <1>1, <1>2, <1>3, RowKept DEF CredentialInv, CredentialTypeOK

\* A credential condemned by whoever read it, whatever was done to it since.
LEMMA CondemnKeeps ==
    ASSUME CredentialInv, NEW c \in Call, Condemn(c)
    PROVE  CredentialInv'
  <1>0. credential.state # "none"
    <2>1. InFlight(c)
      BY CallTypes, Deciders DEF Condemn
    <2> QED
      BY <2>1 DEF CredentialInv, FlightHasToken
  <1>1. /\ call' \in [Call -> Refresh]
        /\ \A d \in Call : call'[d] \in {call[d], Idle}
    BY CallTypes DEF Condemn, CredentialInv, CredentialTypeOK
  <1> QED
    BY <1>0, <1>1, RequireKeeps DEF Condemn

\* What a call in flight waits for, or is about to write, changes; it leases what it leased.
LEMMA AnswerKeeps ==
    ASSUME CredentialInv, NEW c \in Call, InFlight(c), NEW answer \in Answer \ {Claiming},
           UNCHANGED <<credential, links>>, grant' \in [Link -> Grant],
           call' = [call EXCEPT ![c].answer = answer]
    PROVE  CredentialInv'
  <1>1. call[c] \in Refresh /\ call \in [Call -> Refresh]
    BY DEF CredentialInv, CredentialTypeOK
  <1> DEFINE r == [call[c] EXCEPT !.answer = answer]
  <1>2. /\ r \in Refresh /\ r.answer = answer
        /\ r.token = call[c].token /\ r.claimed = call[c].claimed
    BY <1>1 DEF Refresh
  <1>3. call' = [call EXCEPT ![c] = r]
    OBVIOUS
  <1> HIDE DEF r
  <1>4. /\ call' \in [Call -> Refresh] /\ call'[c] = r
        /\ \A d \in Call \ {c} : call'[d] = call[d]
    BY <1>1, <1>2, <1>3
  <1>5. \A d \in Call : call'[d] # Idle => /\ credential.state # "none"
                                           /\ call'[d].token \in Token /\ call'[d].claimed \in Token
    BY <1>2, <1>4 DEF CredentialInv, FlightHasToken, InFlight
  <1>6. r # Idle
    BY <1>2, Tokens DEF CredentialInv, FlightHasToken, Idle
  <1>7. \A d \in Call : Leases(d) => /\ call'[d] # Idle /\ call'[d].answer # Claiming
                                     /\ call'[d].claimed = call[d].claimed
    BY <1>2, <1>4, <1>6 DEF Leases, InFlight
  <1> QED
    BY <1>4, <1>5, <1>7, RowKept DEF CredentialInv, CredentialTypeOK

LEMMA ServeKeeps ==
    ASSUME CredentialInv, NEW c \in Call, Serve(c)
    PROVE  CredentialInv'
  <1> DEFINE a == call[c].token[1]
             g == call[c].token[2]
  <1>1. InFlight(c) /\ call[c].token \in Token /\ a \in Link /\ g \in 1..MaxRotation
    BY Tokens DEF Serve, CredentialInv, FlightHasToken
  <1>2. /\ UNCHANGED <<credential, links>>
        /\ \E answer \in Answer \ {Claiming} : call' = [call EXCEPT ![c].answer = answer]
    <2>1. call[c].token \in Answer \ {Claiming} /\ Denied \in Answer \ {Claiming}
      BY <1>1, CallTypes
    <2>2. ASSUME g < MaxRotation PROVE <<a, g + 1>> \in Answer \ {Claiming}
      <3>1. <<a, g + 1>> \in Token
        BY <1>1, <2>2, Tokens, RefresherAssumption
      <3> QED
        BY <3>1, CallTypes
    <2> QED
      BY <2>1, <2>2 DEF Serve
  <1>3. grant' \in [Link -> Grant]
    <2>1. CASE grant' = grant
      BY <2>1 DEF CredentialInv, CredentialTypeOK
    <2>2. CASE grant' = [grant EXCEPT ![a].accepts = g + 1] /\ g < MaxRotation
      <3>1. g + 1 \in 0..MaxRotation
        BY <1>1, <2>2, RefresherAssumption
      <3>2. grant[a] \in Grant
        BY <1>1 DEF CredentialInv, CredentialTypeOK
      <3>3. [grant[a] EXCEPT !.accepts = g + 1] \in Grant
        BY <3>1, <3>2 DEF Grant
      <3> QED
        BY <1>1, <2>2, <3>3 DEF CredentialInv, CredentialTypeOK
    <2> QED
      BY <2>1, <2>2 DEF Serve
  <1> QED
    BY <1>1, <1>2, <1>3, AnswerKeeps

\* An answer, or none: under the lease the row is given back, or about to be condemned;
\* else it is left alone.
LEMMA CallEndKeeps ==
    ASSUME CredentialInv, NEW c \in Call, Refreshed(c) \/ Rejected(c) \/ RefreshFails(c)
    PROVE  CredentialInv'
  <1>1. UNCHANGED <<links, grant>>
    BY DEF Refreshed, Rejected, RefreshFails
  <1>2. CASE HoldsRefreshLease(c) /\ Rejected(c)
    <2>1. InFlight(c)
      BY <1>2, Deciders DEF Rejected
    <2>2. Condemning \in Answer \ {Claiming}
      BY CallTypes
    <2>3. grant' \in [Link -> Grant]
      BY <1>1 DEF CredentialInv, CredentialTypeOK
    <2> QED
      BY <1>2, <2>1, <2>2, <2>3, AnswerKeeps DEF Rejected
  <1>3. CASE HoldsRefreshLease(c) /\ (Refreshed(c) \/ RefreshFails(c))
    <2>1. credential.state = "refreshing" /\ credential \in CredentialRow
      BY <1>3, Calls DEF HoldsRefreshLease, CredentialInv, LeaseMatchesState, CredentialTypeOK
    <2>2. "ready" \in CredentialState \ {"none", "refreshing"}
      BY DEF CredentialState
    <2>3. /\ call' \in [Call -> Refresh]
          /\ \A d \in Call : call'[d] \in {call[d], Idle}
      BY <1>3, CallTypes DEF Refreshed, RefreshFails, CredentialInv, CredentialTypeOK
    <2>4. CASE Refreshed(c)
      <3>1. call[c].answer \in Token /\ credential' = Stored(call[c].answer)
        BY <1>3, <2>4 DEF Refreshed
      <3> QED
        BY <1>1, <2>3, <3>1, StoredRow, UnleasedKeeps DEF CredentialInv, CredentialTypeOK
    <2>5. CASE RefreshFails(c)
      BY <1>1, <1>3, <2>1, <2>2, <2>3, <2>5, ReleaseKeeps DEF RefreshFails
    <2> QED
      BY <1>3, <2>4, <2>5
  <1>4. CASE ~HoldsRefreshLease(c)
    BY <1>1, <1>4, DropKeeps DEF Refreshed, Rejected, RefreshFails, HoldsRefreshLease, Leases
  <1> QED
    BY <1>2, <1>3, <1>4

LEMMA CrashKeeps ==
    ASSUME CredentialInv, NEW w \in Refresher, CrashRefresher(w)
    PROVE  CredentialInv'
  <1>1. /\ UNCHANGED <<links, grant>>
        /\ call' = [c \in Call |-> IF c[1] = w THEN Idle ELSE call[c]]
    BY DEF CrashRefresher
  <1>2. call' \in [Call -> Refresh]
    BY <1>1, CallTypes DEF CredentialInv, CredentialTypeOK
  <1>3. \A c \in Call : call'[c] # Idle => /\ credential.state # "none"
                                           /\ call'[c].token \in Token /\ call'[c].claimed \in Token
    BY <1>1 DEF CredentialInv, FlightHasToken, InFlight
  <1>4. CASE credential.owner = w
    <2>1. credential' = [credential EXCEPT !.owner = Gone] /\ credential \in CredentialRow
      BY <1>4 DEF CrashRefresher, CredentialInv, CredentialTypeOK
    <2>2. /\ credential' \in CredentialRow /\ credential'.owner = Gone
          /\ credential'.state = credential.state /\ credential'.token = credential.token
      BY <2>1 DEF CredentialRow
    <2>3. CredentialTypeOK' /\ LinkedHasToken'
      BY <1>1, <1>2, <2>2 DEF CredentialInv, CredentialTypeOK, LinkedHasToken
    <2>4. FlightHasToken'
      BY <1>3, <2>2 DEF FlightHasToken, InFlight
    <2>5. LeaseMatchesState' /\ LeaseIsCall'
      BY <1>4, <2>2, RefresherAssumption DEF CredentialInv, LeaseMatchesState, LeaseIsCall
    <2> QED
      BY <2>3, <2>4, <2>5 DEF CredentialInv
  <1>5. CASE credential.owner # w
    <2>1. UNCHANGED credential
      BY <1>5 DEF CrashRefresher
    <2>2. \A c \in Call : Leases(c) => /\ call'[c] # Idle /\ call'[c].answer # Claiming
                                       /\ call'[c].claimed = call[c].claimed
      BY <1>1, <1>5 DEF Leases, InFlight
    <2> QED
      BY <1>1, <1>2, <1>3, <2>1, <2>2, RowKept DEF CredentialInv, CredentialTypeOK
  <1> QED
    BY <1>4, <1>5

LEMMA EndedGrants ==
    ASSUME NEW g \in Grant
    PROVE  /\ [g EXCEPT !.renewable = FALSE] \in Grant
           /\ [g EXCEPT !.accepts = 0] \in Grant
  <1>1. 0 \in 0..MaxRotation
    BY RefresherAssumption
  <1>2. [g EXCEPT !.renewable = FALSE] \in Grant
    BY DEF Grant
  <1>3. [g EXCEPT !.accepts = 0] \in Grant
    BY <1>1 DEF Grant
  <1> QED
    BY <1>2, <1>3

LEMMA TimeKeeps ==
    ASSUME CredentialInv, RefreshLeaseLapses \/ CredentialAges \/ GrantEnds
    PROVE  CredentialInv'
  <1>1. UNCHANGED <<links, call>>
    BY DEF RefreshLeaseLapses, CredentialAges, GrantEnds
  <1>2. /\ credential' \in CredentialRow /\ credential'.state = credential.state
        /\ credential'.token = credential.token /\ credential'.owner = credential.owner
    BY DEF RefreshLeaseLapses, CredentialAges, GrantEnds, CredentialInv, CredentialTypeOK, CredentialRow
  <1>3. grant' \in [Link -> Grant]
    <2>1. ASSUME NEW a \in 1..links,
                 grant' = [grant EXCEPT ![a].renewable = FALSE] \/ grant' = [grant EXCEPT ![a].accepts = 0]
          PROVE  grant' \in [Link -> Grant]
      <3>1. a \in Link /\ grant[a] \in Grant
        BY RefresherAssumption DEF CredentialInv, CredentialTypeOK, Link
      <3>2. [grant[a] EXCEPT !.renewable = FALSE] \in Grant /\ [grant[a] EXCEPT !.accepts = 0] \in Grant
        BY <3>1, EndedGrants
      <3> QED
        BY <2>1, <3>1, <3>2 DEF CredentialInv, CredentialTypeOK
    <2> QED
      BY <2>1 DEF RefreshLeaseLapses, CredentialAges, GrantEnds, CredentialInv, CredentialTypeOK
  <1>4. /\ \A c \in Call : call'[c] # Idle => /\ credential.state # "none"
                                              /\ call'[c].token \in Token /\ call'[c].claimed \in Token
        /\ \A c \in Call : Leases(c) => /\ call'[c] # Idle /\ call'[c].answer # Claiming
                                        /\ call'[c].claimed = call[c].claimed
    BY <1>1 DEF CredentialInv, FlightHasToken, Leases, InFlight
  <1> QED
    BY <1>1, <1>2, <1>3, <1>4, RowKept DEF CredentialInv, CredentialTypeOK

LEMMA CredentialInvStep == CredentialInv /\ [CredentialNext]_credentialVars => CredentialInv'
  <1> SUFFICES ASSUME CredentialInv, [CredentialNext]_credentialVars PROVE CredentialInv'
    OBVIOUS
  <1>1. CASE UNCHANGED credentialVars
    BY <1>1 DEF credentialVars, CredentialInv, CredentialTypeOK, LinkedHasToken, FlightHasToken, InFlight,
                LeaseMatchesState, LeaseIsCall, Leases
  <1>2. CASE PutCredential \/ ImportLegacy
    BY <1>2, LinkKeeps DEF PutCredential, ImportLegacy
  <1>3. CASE RevokeCredential
    <2>1. "revoked" \in CredentialState \ {"none", "refreshing"}
      BY DEF CredentialState
    <2> QED
      BY <1>3, <2>1, ReleaseKeeps DEF RevokeCredential, CredentialInv, CredentialTypeOK
  <1>4. ASSUME NEW c \in Call, ClaimRefresh(c) PROVE CredentialInv'
    <2>1. CASE ~Claimable
      BY <1>4, <2>1, DropKeeps DEF ClaimRefresh, Leases
    <2> QED
      BY <1>4, <2>1, ClaimKeeps
  <1> QED
    BY <1>1, <1>2, <1>3, <1>4, ReadKeeps, CondemnKeeps, ServeKeeps, CallEndKeeps, CrashKeeps, TimeKeeps
       DEF CredentialNext

-----------------------------------------------------------------------------
(* Theorems. *)

\* The invariant: a row is refreshing exactly while it is leased, and a live lease
\* stands for a call that claimed the row's tokens.
THEOREM CredentialInvariance == CredentialSpec => []CredentialInv
  BY CredentialInvInit, CredentialInvStep, PTL DEF CredentialSpec

\* Every variable keeps its type.
THEOREM CredentialTypeCorrect == CredentialSpec => []CredentialTypeOK
  <1>1. CredentialInv => CredentialTypeOK
    BY DEF CredentialInv
  <1> QED
    BY <1>1, CredentialInvariance, PTL

\* A row is refreshing exactly while somebody leases it (refreshRow, revoke, put).
THEOREM LeasesMatch == CredentialSpec => []LeaseMatchesState
  <1>1. CredentialInv => LeaseMatchesState
    BY DEF CredentialInv
  <1> QED
    BY <1>1, CredentialInvariance, PTL

\* What was withdrawn, by its owner or the provider, no refresh in flight brings back
\* (refreshRow's claim, answer and failure after revoke and requireReauthorization).
THEOREM WithdrawnStays == CredentialSpec => WithdrawnUntilLinked
  <1> DEFINE Stays ==
        credential.state \in Withdrawn => credential'.state \in Withdrawn \/ links' # links
  <1>1. ASSUME CredentialInv, CredentialNext PROVE Stays
    <2>1. /\ credential \in CredentialRow /\ links \in Nat
          /\ "revoked" \in Withdrawn /\ "reauthorization-required" \in Withdrawn
      BY <1>1 DEF CredentialInv, CredentialTypeOK, Withdrawn
    <2>2. CASE PutCredential \/ ImportLegacy
      <3>1. links' = links + 1
        BY <2>2 DEF PutCredential, ImportLegacy, NewLink
      <3>2. links' # links
        BY <2>1, <3>1
      <3> QED
        BY <3>2
    <2>3. CASE RevokeCredential
      BY <2>1, <2>3, ReleasedRow DEF RevokeCredential, CredentialState
    <2>4. ASSUME NEW c \in Call, Resolve(c) \/ Recover(c) PROVE Stays
      BY <2>4 DEF Resolve, Recover, RefreshRow
    <2>5. ASSUME NEW c \in Call, ClaimRefresh(c) PROVE Stays
      BY <2>5 DEF ClaimRefresh, Claimable, Withdrawn
    <2>6. ASSUME NEW c \in Call, Condemn(c) PROVE Stays
      BY <2>1, <2>6, ReleasedRow DEF Condemn, RequireReauthorization, CredentialState
    <2>7. ASSUME NEW c \in Call, Refreshed(c) \/ Rejected(c) \/ RefreshFails(c) PROVE Stays
      <3>1. CASE HoldsRefreshLease(c)
        BY <1>1, <3>1, Calls DEF HoldsRefreshLease, CredentialInv, LeaseMatchesState, Withdrawn
      <3>2. CASE ~HoldsRefreshLease(c)
        BY <2>7, <3>2 DEF Refreshed, Rejected, RefreshFails
      <3> QED
        BY <3>1, <3>2
    <2>8. CASE \E c \in Call : Serve(c)
      BY <2>8 DEF Serve
    <2>9. CASE \E w \in Refresher : CrashRefresher(w)
      BY <2>1, <2>9 DEF CrashRefresher, CredentialRow
    <2>10. CASE RefreshLeaseLapses \/ CredentialAges \/ GrantEnds
      BY <2>1, <2>10 DEF RefreshLeaseLapses, CredentialAges, GrantEnds, CredentialRow
    <2> QED
      BY <1>1, <2>2, <2>3, <2>4, <2>5, <2>6, <2>7, <2>8, <2>9, <2>10 DEF CredentialNext
  <1>2. CredentialInv /\ [CredentialNext]_credentialVars => [Stays]_credentialVars
    BY <1>1
  <1> QED
    BY <1>2, CredentialInvariance, PTL DEF CredentialSpec, WithdrawnUntilLinked

\* Late answers leave the row alone, and condemn nothing, but under the lease of another
\* call of their own process (refreshRow's owner fence).
THEOREM LateAnswersFenced == CredentialSpec => LateAnswersAreFenced
  <1> DEFINE Late(c) ==
        /\ InFlight(c) /\ call[c].answer \notin Deciding
        /\ call[c].claimed # credential.token
        /\ \/ call'[c] = Idle /\ credential' # credential
           \/ call'[c].answer = Condemning
      Sibling(c) == \E d \in Call \ {c} : /\ d[1] = c[1] /\ InFlight(d)
                                          /\ call[d].claimed = credential.token
  <1>1. ASSUME CredentialInv, CredentialNext, NEW c \in Call, Late(c)
        PROVE  credential' = [credential EXCEPT !.owner = Gone] \/ Sibling(c)
    <2>1. /\ call \in [Call -> Refresh] /\ call[c] # Idle /\ call[c].answer # Condemning
          /\ Claiming \in Deciding /\ Condemning \in Deciding
      BY <1>1 DEF CredentialInv, CredentialTypeOK, InFlight, Deciding
    <2>2. call'[c] # call[c]
      BY <1>1, <2>1
    <2>3. CASE PutCredential \/ ImportLegacy \/ RevokeCredential \/ RefreshLeaseLapses
               \/ CredentialAges \/ GrantEnds
      BY <2>2, <2>3 DEF PutCredential, ImportLegacy, NewLink, RevokeCredential,
         RefreshLeaseLapses, CredentialAges, GrantEnds
    <2>4. ASSUME NEW d \in Call, Resolve(d) \/ Recover(d) PROVE FALSE
      <3>1. ~InFlight(d) /\ RefreshRow(d)
        BY <2>4 DEF Resolve, Recover, CanStart
      <3>2. call'[c] = call[c]
        BY <1>1, <2>1, <3>1 DEF RefreshRow
      <3> QED
        BY <2>2, <3>2
    <2>5. ASSUME NEW d \in Call, ClaimRefresh(d) \/ Condemn(d) PROVE FALSE
      <3>1. d # c
        BY <1>1, <2>1, <2>5 DEF ClaimRefresh, Condemn
      <3>2. call'[c] = call[c]
        BY <2>1, <2>5, <3>1 DEF ClaimRefresh, Condemn
      <3> QED
        BY <2>2, <3>2
    <2>6. ASSUME NEW d \in Call, Serve(d) PROVE FALSE
      <3>1. call'[c].answer \in Token \cup {Denied} /\ UNCHANGED credential
        <4>1. d = c
          BY <2>1, <2>2, <2>6 DEF Serve
        <4>2. call[c].token \in Token
          BY <1>1 DEF CredentialInv, FlightHasToken
        <4>3. \E answer \in Token \cup {Denied} : call' = [call EXCEPT ![c].answer = answer]
          BY <2>6, <4>1, <4>2, Tokens, RefresherAssumption DEF Serve
        <4>4. call[c] \in Refresh
          BY <2>1
        <4> QED
          BY <2>1, <2>6, <4>3, <4>4 DEF Serve, Refresh
      <3> QED
        BY <1>1, <3>1, CallTypes
    <2>7. ASSUME NEW d \in Call, Refreshed(d) \/ Rejected(d) \/ RefreshFails(d)
          PROVE  Sibling(c)
      <3>1. \A e \in Call \ {d} : call'[e] = call[e]
        BY <2>1, <2>7 DEF Refreshed, Rejected, RefreshFails
      <3>2. d = c
        BY <2>2, <3>1
      <3>3. HoldsRefreshLease(c)
        <4>1. SUFFICES ASSUME ~HoldsRefreshLease(c) PROVE FALSE
          OBVIOUS
        <4>2. call'[c] = Idle /\ UNCHANGED credential
          BY <2>1, <2>7, <3>2, <4>1 DEF Refreshed, Rejected, RefreshFails
        <4>3. Idle.answer # Condemning
          BY DEF Idle, Pending, Condemning
        <4> QED
          BY <1>1, <4>2, <4>3
      <3>4. credential.owner = c[1] /\ credential.owner \in Refresher
        BY <3>3, Calls DEF HoldsRefreshLease
      <3>5. PICK e \in Call : Leases(e)
        BY <1>1, <3>4 DEF CredentialInv, LeaseIsCall
      <3> QED
        BY <1>1, <3>4, <3>5 DEF Leases
    <2>8. CASE \E w \in Refresher : CrashRefresher(w)
      <3>1. PICK w \in Refresher : CrashRefresher(w)
        BY <2>8
      <3>2. call'[c] = Idle
        BY <2>2, <3>1 DEF CrashRefresher
      <3>3. Idle.answer # Condemning
        BY DEF Idle, Pending, Condemning
      <3> QED
        BY <1>1, <3>1, <3>2, <3>3 DEF CrashRefresher
    <2> QED
      BY <1>1, <2>3, <2>4, <2>5, <2>6, <2>7, <2>8 DEF CredentialNext
  <1>2. CredentialInv /\ [CredentialNext]_credentialVars =>
          [\A c \in Call : Late(c) =>
             \/ credential' = [credential EXCEPT !.owner = Gone]
             \/ Sibling(c)]_credentialVars
    BY <1>1
  <1> QED
    BY <1>2, CredentialInvariance, PTL DEF CredentialSpec, LateAnswersAreFenced

=============================================================================
