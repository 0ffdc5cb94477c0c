------------------------- MODULE ProviderCredentials -------------------------
(***************************************************************************)
(* SPMT's provider credential authority, one credential of it: the row     *)
(* that holds an account's access and refresh tokens, the SPMT processes   *)
(* that refresh it under a lease, and the provider that rotates its        *)
(* refresh tokens (packages/provider-grants-core/src/                      *)
(* credential-authority.ts).                                               *)
(*                                                                         *)
(* Several processes may work over one SQLite file, and a call awaits the  *)
(* provider's answer only: what it does up to there, and after, no other   *)
(* call of its process interrupts.  Another process can write between two  *)
(* of its statements, so a row that is read and written without comparing  *)
(* what was read is read in one step and written in another: the call is   *)
(* Claiming or Condemning in between.  The other writes compare the owner  *)
(* or the revision just read, or, put's, carry nothing of it: they are one *)
(* step with their read.  The owner names the process, which can have      *)
(* several calls in flight; a restarted process takes a new random owner.  *)
(*                                                                         *)
(* Abstractions.  Time is asynchronous: a lease, an access token or a      *)
(* refresh authorization may run out at any moment.  A token is named by   *)
(* the authorization it comes from and its place in the rotation.  Reads   *)
(* of secrets, scopes, app policies and projections are left out.          *)
(***************************************************************************)
EXTENDS Naturals, FiniteSets

CONSTANTS
    Refresher,   \* SPMT processes
    Call,        \* a process's calls, <<process, n>>
    MaxInFlight, \* bound: refreshes in flight
    MaxLinks,    \* bound: authorizations the account is linked with
    MaxRotation, \* bound: refresh tokens of one authorization
    NoRefresher, \* the owner of a row nobody leases
    Gone         \* the owner a process that ended leaves behind

ASSUME RefresherAssumption ==
    /\ Call \subseteq Refresher \X Nat
    /\ MaxInFlight \in Nat /\ MaxLinks \in Nat /\ MaxRotation \in Nat \ {0}
    /\ NoRefresher \notin Refresher /\ Gone \notin Refresher /\ Gone # NoRefresher

VARIABLES
    credential, \* the provider_credentials row
    links,      \* authorizations the account has been linked with
    grant,      \* of each: its refresh mode, whether it can still be refreshed,
                \* and which refresh token the provider accepts (0: none)
    call        \* resolve and recover calls that read the row or wait for
                \* adapter.refresh

credentialVars == <<credential, links, grant, call>>

Link == 1..MaxLinks
Token == Link \X (1..MaxRotation)
NoToken == <<0, 0>>
Pending == <<0, 0>>
Denied == <<0, 1>>
Claiming == <<0, 2>>
Condemning == <<0, 3>>
Deciding == {Claiming, Condemning}
Answer == Token \cup {Pending, Denied} \cup Deciding

CredentialState == {"none", "ready", "refreshing", "reauthorization-required", "revoked"}
CredentialRow == [state: CredentialState, owner: Refresher \cup {NoRefresher, Gone},
                  lapsed: BOOLEAN, due: BOOLEAN, token: Token \cup {NoToken}]
Grant == [refreshable: BOOLEAN, renewable: BOOLEAN, accepts: 0..MaxRotation]

\* A refresh in flight: the token of the row it read, which it sends, what the
\* provider answered, or what the call is about to write; and (history) the
\* token of the row it claimed.
Refresh == [token: Token \cup {NoToken}, answer: Answer, claimed: Token \cup {NoToken}]
Idle == [token |-> NoToken, answer |-> Pending, claimed |-> NoToken]

CredentialTypeOK ==
    /\ credential \in CredentialRow
    /\ links \in 0..MaxLinks
    /\ grant \in [Link -> Grant]
    /\ call \in [Call -> Refresh]

CredentialInit ==
    /\ credential = [state |-> "none", owner |-> NoRefresher, lapsed |-> FALSE,
                     due |-> FALSE, token |-> NoToken]
    /\ links = 0
    /\ grant = [a \in Link |-> [refreshable |-> FALSE, renewable |-> FALSE, accepts |-> 0]]
    /\ call = [c \in Call |-> Idle]

InFlight(c) == call[c] # Idle

\* Process w is between a read and its write: it does nothing else.
Busy(w) == \E c \in Call : c[1] = w /\ call[c].answer \in Deciding
SomeFree == \E w \in Refresher : ~Busy(w)

CanStart(c) ==
    /\ ~InFlight(c) /\ ~Busy(c[1])
    /\ Cardinality({d \in Call : InFlight(d)}) < MaxInFlight
Current == credential.token[1]

-----------------------------------------------------------------------------
(* Writes of the row. *)

\* A write that ends the lease: refresh_owner=NULL, refresh_expires_at=NULL.
Released(row, state) ==
    [row EXCEPT !.state = state, !.owner = NoRefresher, !.lapsed = FALSE]

\* put and importLegacy store a new authorization's tokens.
Linked(token) == [state |-> "ready", owner |-> NoRefresher, lapsed |-> FALSE,
                  due |-> FALSE, token |-> token]

\* Whatever was done to the row since it was read.
RequireReauthorization ==
    credential' = Released(credential, "reauthorization-required")

-----------------------------------------------------------------------------
(* Owners and apps. *)

\* A new authorization; refreshable is its mode, oauth or replace-only, renewable
\* whether it has a refresh token that is still good.
NewLink(refreshable, renewable) ==
    /\ SomeFree /\ links < MaxLinks /\ (renewable => refreshable)
    /\ links' = links + 1
    /\ grant' = [grant EXCEPT ![links + 1] = [refreshable |-> refreshable,
                     renewable |-> renewable, accepts |-> IF renewable THEN 1 ELSE 0]]
    /\ credential' = Linked(<<links + 1, 1>>)
    /\ UNCHANGED call

PutCredential ==
    \E refreshable, renewable \in BOOLEAN : NewLink(refreshable, renewable)

\* importLegacy skips accounts that have a row, and a migration already run.
ImportLegacy ==
    /\ credential.state = "none"
    /\ \E refreshable, renewable \in BOOLEAN : NewLink(refreshable, renewable)

RevokeCredential ==
    /\ SomeFree /\ credential.state # "none"
    /\ credential' = Released(credential, "revoked")
    /\ UNCHANGED <<links, grant, call>>

-----------------------------------------------------------------------------
(* Refreshes. *)

\* As if a lease could not be taken over.
ClaimableFree == credential.state = "ready"

\* As if a credential that waits for its owner could be refreshed too.
ClaimableAlways ==
    credential.owner = NoRefresher \/ credential.lapsed

\* The claim's WHERE clause.
Claimable ==
    /\ credential.state \in {"ready", "refreshing"}
    /\ credential.owner = NoRefresher \/ credential.lapsed

\* refreshRow's reads: with nothing to refresh with it condemns the credential,
\* else it claims it.
RefreshRow(c) ==
    /\ call' = [call EXCEPT ![c] = [token |-> credential.token, claimed |-> credential.token,
           answer |-> IF grant[Current].renewable THEN Claiming ELSE Condemning]]
    /\ UNCHANGED <<credential, links, grant>>

\* resolve, when the credential cannot be returned as it is: due is within a
\* minute of its expiry for an oauth credential, past it for a replace-only one.
Resolve(c) ==
    /\ CanStart(c)
    /\ credential.state \in {"ready", "refreshing"}
    /\ credential.due \/ (credential.state = "refreshing" /\ grant[Current].refreshable)
    /\ RefreshRow(c)

\* recover, after the provider rejected the access token: a refresh whatever its
\* age, or for a replace-only credential its end.
Recover(c) ==
    /\ CanStart(c)
    /\ credential.state \notin {"none", "revoked"}
    /\ RefreshRow(c)

\* The claim, of the row as it is now; or the refusal "already in progress".
ClaimRefresh(c) ==
    /\ call[c].answer = Claiming
    /\ \/ /\ Claimable
          /\ credential' = [credential EXCEPT !.state = "refreshing",
                                !.owner = c[1], !.lapsed = FALSE]
          /\ call' = [call EXCEPT ![c].answer = Pending, ![c].claimed = credential.token]
       \/ /\ ~Claimable
          /\ call' = [call EXCEPT ![c] = Idle]
          /\ UNCHANGED credential
    /\ UNCHANGED <<links, grant>>

Condemn(c) ==
    /\ call[c].answer = Condemning
    /\ RequireReauthorization
    /\ call' = [call EXCEPT ![c] = Idle]
    /\ UNCHANGED <<links, grant>>

\* The provider serves a refresh: it rotates the refresh token or keeps it, or
\* rejects one it no longer accepts (400, 401, 403).
Serve(c) ==
    LET a == call[c].token[1]  g == call[c].token[2] IN
    /\ InFlight(c) /\ call[c].answer = Pending
    /\ \/ /\ grant[a].accepts = g /\ g < MaxRotation
          /\ grant' = [grant EXCEPT ![a].accepts = g + 1]
          /\ call' = [call EXCEPT ![c].answer = <<a, g + 1>>]
       \/ /\ grant[a].accepts = g
          /\ call' = [call EXCEPT ![c].answer = call[c].token]
          /\ UNCHANGED grant
       \/ /\ grant[a].accepts # g
          /\ call' = [call EXCEPT ![c].answer = Denied]
          /\ UNCHANGED grant
    /\ UNCHANGED <<credential, links>>

\* As if an answer were applied to whatever lease there is.
HoldsAnyLease(c) == credential.owner # NoRefresher

\* refresh_owner is this process.
HoldsRefreshLease(c) == credential.owner = c[1]

Stored(token) == [Released(credential, "ready") EXCEPT !.token = token, !.due = FALSE]

\* The answer is new tokens, which the lease's holder stores.
Refreshed(c) ==
    /\ call[c].answer \in Token /\ ~Busy(c[1])
    /\ credential' = IF HoldsRefreshLease(c) THEN Stored(call[c].answer) ELSE credential
    /\ call' = [call EXCEPT ![c] = Idle]
    /\ UNCHANGED <<links, grant>>

\* The answer is a rejection: the lease's holder condemns the credential.
Rejected(c) ==
    /\ call[c].answer = Denied /\ ~Busy(c[1])
    /\ call' = IF HoldsRefreshLease(c) THEN [call EXCEPT ![c].answer = Condemning]
               ELSE [call EXCEPT ![c] = Idle]
    /\ UNCHANGED <<credential, links, grant>>

\* No usable answer: the network, an error status, an answer that does not parse.
RefreshFails(c) ==
    /\ InFlight(c) /\ ~Busy(c[1])
    /\ credential' = IF HoldsRefreshLease(c) THEN Released(credential, "ready") ELSE credential
    /\ call' = [call EXCEPT ![c] = Idle]
    /\ UNCHANGED <<links, grant>>

-----------------------------------------------------------------------------
(* The environment. *)

\* A process ends with its calls; nobody has its owner id again.
CrashRefresher(w) ==
    /\ credential' = IF credential.owner = w THEN [credential EXCEPT !.owner = Gone]
                     ELSE credential
    /\ call' = [c \in Call |-> IF c[1] = w THEN Idle ELSE call[c]]
    /\ UNCHANGED <<links, grant>>

RefreshLeaseLapses ==
    /\ credential.owner # NoRefresher /\ ~credential.lapsed
    /\ credential' = [credential EXCEPT !.lapsed = TRUE]
    /\ UNCHANGED <<links, grant, call>>

CredentialAges ==
    /\ credential.state \in {"ready", "refreshing"} /\ ~credential.due
    /\ credential' = [credential EXCEPT !.due = TRUE]
    /\ UNCHANGED <<links, grant, call>>

\* The refresh authorization expires, or the user withdraws it at the provider.
GrantEnds ==
    \E a \in 1..links :
      /\ \/ grant[a].renewable /\ grant' = [grant EXCEPT ![a].renewable = FALSE]
         \/ grant[a].accepts # 0 /\ grant' = [grant EXCEPT ![a].accepts = 0]
      /\ UNCHANGED <<credential, links, call>>

CredentialNext ==
    \/ PutCredential \/ ImportLegacy \/ RevokeCredential
    \/ \E c \in Call : \/ Resolve(c) \/ Recover(c) \/ ClaimRefresh(c) \/ Condemn(c)
                       \/ Serve(c) \/ Refreshed(c) \/ Rejected(c) \/ RefreshFails(c)
    \/ \E w \in Refresher : CrashRefresher(w)
    \/ RefreshLeaseLapses \/ CredentialAges \/ GrantEnds

CredentialSpec == CredentialInit /\ [][CredentialNext]_credentialVars

\* Apps go on resolving; a process finishes what it does before it awaits; a call ends,
\* having its answer or not (refresh adapters have no time-out of their own: that is the
\* network's part); a lease lapses and a token ages; and an answer is not for ever too late
\* for its lease, nor does every process end.
CredentialFairness ==
    /\ WF_credentialVars(RefreshLeaseLapses) /\ WF_credentialVars(CredentialAges)
    /\ WF_credentialVars(\E c \in Call : Resolve(c))
    /\ \A c \in Call :
         /\ WF_credentialVars(ClaimRefresh(c) \/ Condemn(c))
         /\ WF_credentialVars(Serve(c) \/ RefreshFails(c))
         /\ WF_credentialVars(Refreshed(c) \/ Rejected(c) \/ RefreshFails(c))
         /\ SF_credentialVars(/\ HoldsRefreshLease(c)
                             /\ (Refreshed(c) \/ Rejected(c) \/ RefreshFails(c)))
    /\ <>[][~\E w \in Refresher : CrashRefresher(w)]_credentialVars

-----------------------------------------------------------------------------
(* Properties. *)

\* A row is refreshing exactly while somebody leases it, whatever order answers,
\* failures, revocations and replacements arrive in.
LeaseMatchesState ==
    (credential.state = "refreshing") <=> (credential.owner # NoRefresher)

\* States in which no token is handed out, until the owner links the account again.
Withdrawn == {"revoked", "reauthorization-required"}

\* A credential its owner revoked, or that waits for its owner, is not handed out again
\* before the next link: no refresh that was in flight brings it back.  A process that
\* read it before may still write that it waits for its owner over the revocation.
WithdrawnUntilLinked ==
    [][credential.state \in Withdrawn =>
         credential'.state \in Withdrawn \/ links' # links]_credentialVars

\* An answer that arrives after the row moved on from what its call claimed (another
\* process refreshed it, its owner linked it anew) leaves the row alone, unless another
\* call of the very same process leases the tokens the row holds now: the lease tells
\* processes apart, not calls.
LateAnswersAreFenced ==
    [][\A c \in Call :
         (/\ InFlight(c) /\ call[c].answer \notin Deciding
          /\ call[c].claimed # credential.token
          /\ \/ call'[c] = Idle /\ credential' # credential
             \/ call'[c].answer = Condemning)
         => \/ credential' = [credential EXCEPT !.owner = Gone]
            \/ \E d \in Call \ {c} : /\ d[1] = c[1] /\ InFlight(d)
                                     /\ call[d].claimed = credential.token]_credentialVars

\* A credential does not stay in refresh: an answer, a failure or the lapse of the
\* lease ends it, as long as the apps go on asking for it.
RefreshEnds == (credential.state = "refreshing") ~> (credential.state # "refreshing")

=============================================================================
