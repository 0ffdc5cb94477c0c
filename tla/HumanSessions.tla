---------------------------- MODULE HumanSessions ----------------------------
(***************************************************************************)
(* Sign-in tokens of SPMT (packages/auth-core/src/index.ts): one family of *)
(* a human's refresh tokens, rotated at each use over a network that       *)
(* loses, delays and repeats calls, and one service identity with the      *)
(* access tokens issued to it.                                             *)
(*                                                                         *)
(* Rotation derives a token's successor with a server key, so that within  *)
(* 60 s of its use the same token is answered with the same successor; any *)
(* other use of a used token revokes the family.                           *)
(*                                                                         *)
(* Abstractions.  Time is asynchronous: the overlap and each token's       *)
(* lifetime may end at any moment, in any order, for a successor's is      *)
(* rounded down to the second and raised to 300 s.  A token is its place   *)
(* in the order of issue.  Revocation, a transaction of its own right      *)
(* after the rotation's, is one step with it.  What the owner does is an   *)
(* assumption about the client: it keeps the newest token it was answered. *)
(* Human access tokens, browser sessions and tenants are left out.         *)
(***************************************************************************)
EXTENDS Naturals, Sequences

CONSTANTS
    MaxRefreshTokens, \* bound: tokens of the family
    RotationKey,      \* server keys the service may be started with
    Credential,       \* service credentials
    Policy,           \* a service's scopes and tenants
    MaxVersion        \* bound: authzVersion

ASSUME SessionAssumption == MaxRefreshTokens \in Nat /\ MaxVersion \in Nat

VARIABLES
    family,      \* refresh_tokens of the family, in the order of issue
    revoked,     \* revokedAt of all of them
    rotationKey, \* refreshRotationKey
    held,        \* the newest token that reached its owner
    wire,        \* tokens presented by calls under way
    service,     \* the service identity
    granted      \* access tokens issued to it and not expired

familyVars == <<family, revoked, rotationKey, held, wire>>
serviceVars == <<service, granted>>
sessionVars == <<familyVars, serviceVars>>

\* next is the token of rotatedToHash, by the key it was derived with; past says that
\* the overlap after usedAt is over.
RefreshToken == [used: BOOLEAN, past: BOOLEAN, expired: BOOLEAN,
                 next: Nat, by: RotationKey]
Identity == [state: {"none", "active", "revoked"}, version: 0..MaxVersion,
             credential: Credential, policy: Policy]

SessionTypeOK ==
    /\ family \in Seq(RefreshToken)
    /\ revoked \in BOOLEAN /\ rotationKey \in RotationKey
    /\ held \in 0..Len(family) /\ wire \subseteq 1..Len(family)
    /\ service \in Identity
    /\ granted \subseteq [version: 0..MaxVersion, credential: Credential, policy: Policy]

NewToken == [used |-> FALSE, past |-> FALSE, expired |-> FALSE, next |-> 0, by |-> rotationKey]

SessionInit ==
    /\ family = <<>> /\ revoked = FALSE /\ rotationKey \in RotationKey
    /\ held = 0 /\ wire = {}
    /\ service \in {s \in Identity : s.state = "none" /\ s.version = 0}
    /\ granted = {}

-----------------------------------------------------------------------------
(* Refresh tokens. *)

IssueHumanSession ==
    /\ family = <<>> /\ MaxRefreshTokens > 0
    /\ family' = <<NewToken>>
    /\ held' = 1
    /\ UNCHANGED <<revoked, rotationKey, wire, serviceVars>>

\* The owner presents the newest token it has, in a tab of several or once more.
Present ==
    /\ held > 0
    /\ wire' = wire \cup {held}
    /\ UNCHANGED <<family, revoked, rotationKey, held, serviceVars>>

\* A call arrives, and may arrive again.
Arrives(i) == i \in wire /\ wire' \in {wire, wire \ {i}}

\* The answer arrives, or is lost.  The owner keeps the newest of those that arrive.
Answered(j) == held' \in {held, IF j > held THEN j ELSE held}

Usable(i) == ~revoked /\ ~family[i].expired

Successor(i) == family[i].next

\* As if there were no overlap.
NoOverlap(i) == FALSE

\* reissueRefreshOverlap
InOverlap(i) ==
    /\ ~family[i].past
    /\ family[i].by = rotationKey
    /\ ~family[Successor(i)].used /\ Usable(Successor(i))

\* First use of a token.
RotateRefresh(i) ==
    /\ Arrives(i) /\ Usable(i) /\ ~family[i].used
    /\ Len(family) < MaxRefreshTokens
    /\ family' = Append([family EXCEPT ![i].used = TRUE, ![i].next = Len(family) + 1,
                                       ![i].by = rotationKey], NewToken)
    /\ Answered(Len(family) + 1)
    /\ UNCHANGED <<revoked, rotationKey, serviceVars>>

\* As if a repeated use rotated anew.
ReissueFresh(i) ==
    /\ Arrives(i) /\ Usable(i) /\ family[i].used /\ InOverlap(i)
    /\ Len(family) < MaxRefreshTokens
    /\ family' = Append([family EXCEPT ![i].next = Len(family) + 1], NewToken)
    /\ Answered(Len(family) + 1)
    /\ UNCHANGED <<revoked, rotationKey, serviceVars>>

\* A use of a used token within the overlap is answered with its successor.
ReissueRefresh(i) ==
    /\ Arrives(i) /\ Usable(i) /\ family[i].used /\ InOverlap(i)
    /\ Answered(Successor(i))
    /\ UNCHANGED <<family, revoked, rotationKey, serviceVars>>

\* Any other use of a used token revokes the family.
ReplayRevokes(i) ==
    /\ Arrives(i) /\ Usable(i) /\ family[i].used /\ ~InOverlap(i)
    /\ revoked' = TRUE
    /\ UNCHANGED <<family, rotationKey, held, serviceVars>>

\* An expired or revoked token is denied.
DenyRefresh(i) ==
    /\ Arrives(i) /\ ~Usable(i)
    /\ UNCHANGED <<family, revoked, rotationKey, held, serviceVars>>

OverlapEnds(i) ==
    /\ family[i].used /\ ~family[i].past
    /\ family' = [family EXCEPT ![i].past = TRUE]
    /\ UNCHANGED <<revoked, rotationKey, held, wire, serviceVars>>

RefreshExpires(i) ==
    /\ ~family[i].expired
    /\ family' = [family EXCEPT ![i].expired = TRUE]
    /\ UNCHANGED <<revoked, rotationKey, held, wire, serviceVars>>

\* SPMT is started again with another key.
ChangeKey ==
    /\ rotationKey' \in RotationKey \ {rotationKey}
    /\ UNCHANGED <<family, revoked, held, wire, serviceVars>>

FamilyNext ==
    \/ IssueHumanSession \/ Present \/ ChangeKey
    \/ \E i \in wire : \/ RotateRefresh(i) \/ ReissueRefresh(i)
                       \/ ReplayRevokes(i) \/ DenyRefresh(i)
    \/ \E i \in DOMAIN family : OverlapEnds(i) \/ RefreshExpires(i)

-----------------------------------------------------------------------------
(* The service identity. *)

\* As if a policy change alone left the version as it was.
KeptVersion(credential) ==
    IF credential = service.credential THEN service.version ELSE service.version + 1

NextVersion(credential) == service.version + 1

Rewrite(credential, policy) ==
    /\ service.version < MaxVersion
    /\ service' = [state |-> "active", version |-> NextVersion(credential),
                   credential |-> credential, policy |-> policy]
    /\ UNCHANGED <<familyVars, granted>>

RegisterService(credential, policy) ==
    service.state = "none" /\ Rewrite(credential, policy)

\* reconcileServiceIdentity creates or rewrites; a revoked identity stays revoked.
ReconcileService(credential, policy) ==
    service.state # "revoked" /\ Rewrite(credential, policy)

RotateCredential(credential) ==
    service.state = "active" /\ Rewrite(credential, service.policy)

RevokeService ==
    /\ service.state = "active" /\ service.version < MaxVersion
    /\ service' = [service EXCEPT !.state = "revoked", !.version = @ + 1]
    /\ UNCHANGED <<familyVars, granted>>

\* issueServiceAccess; a wrong credential is denied.
IssueServiceAccess ==
    /\ service.state = "active"
    /\ granted' = granted \cup {[version |-> service.version, policy |-> service.policy,
                                 credential |-> service.credential]}
    /\ UNCHANGED <<familyVars, service>>

ServiceAccessExpires ==
    /\ \E s \in granted : granted' = granted \ {s}
    /\ UNCHANGED <<familyVars, service>>

ServiceNext ==
    \/ \E credential \in Credential :
         \/ RotateCredential(credential)
         \/ \E policy \in Policy : \/ RegisterService(credential, policy)
                                   \/ ReconcileService(credential, policy)
    \/ RevokeService \/ IssueServiceAccess \/ ServiceAccessExpires

SessionNext == FamilyNext \/ ServiceNext

SessionSpec == SessionInit /\ [][SessionNext]_sessionVars

\* authenticateAccessToken
Authenticates(s) == service.state = "active" /\ service.version = s.version

-----------------------------------------------------------------------------
(* Properties. *)

\* A family has one token that was not used, and its owner holds that one or the one
\* before it: however many answers are lost or calls repeated, it is never two
\* rotations behind, where only a fresh sign-in would help.
OwnerKeepsUp ==
    family # <<>> =>
      \E leaf \in DOMAIN family :
        /\ \A i \in DOMAIN family : ~family[i].used <=> i = leaf
        /\ held = leaf \/ Successor(held) = leaf

\* A family is revoked only over a token whose successor its owner had already got, or
\* that was used before under another key or longer ago than the overlap, or whose
\* successor expired: tabs that refresh at once and retries of a lost answer never
\* sign their owner out.
RevokedOnlyByReplay ==
    [][revoked' # revoked =>
         \E i \in wire :
           /\ family[i].used
           /\ \/ i < held
              \/ family[i].past \/ family[i].by # rotationKey
              \/ family[Successor(i)].expired]_sessionVars

\* An access token is accepted only while the credential it was issued for and the
\* scopes it carries are the service's own: rotation, reconciliation and revocation
\* end every token issued before them.
ServiceAccessIsCurrent ==
    \A s \in granted :
      Authenticates(s) => s.credential = service.credential /\ s.policy = service.policy

=============================================================================
