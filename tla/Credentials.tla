---------------------------- MODULE Credentials ----------------------------
(***************************************************************************)
(* The credentials of one provider connection: the row that stores them,    *)
(* the callers that read them and refresh them when they have expired, and  *)
(* the user who connects, disconnects and approves IMAP access meanwhile.   *)
(*                                                                          *)
(* A token is the consent it stems from and the number of the provider's    *)
(* answer that issued it: what is told apart is which of two is newer.      *)
(***************************************************************************)
EXTENDS Naturals

CONSTANTS
  Callers,      \* calls that want credentials
  NoOwner,      \* a refresh lease nobody holds
  Orphan,       \* the lease owner of a caller that is gone
  MaxConsents,  \* how often the user connects or approves
  MaxAttempts,  \* 100 in the code
  MaxEvents     \* expiries, lapsed leases, failures and crashes

ASSUME CredentialsAssumption ==
  /\ Callers \cap {NoOwner, Orphan} = {} /\ NoOwner # Orphan
  /\ {MaxConsents, MaxAttempts, MaxEvents} \subseteq Nat

VARIABLES
  conn,     \* the ProviderConnection row
  issued,   \* the latest consent of each kind, the tokens and the sessions given out
  caller,   \* what every call is doing to get credentials
  events    \* what may still go wrong

credentials == <<conn, issued, caller, events>>

Tokens == [consent : Nat, serial : Nat]
NoToken == [consent |-> 0, serial |-> 0]
Kinds == {"graph", "imap"}
Purposes == {"use", "force", "imap"}

Connections ==
  [connected : BOOLEAN, token : [Kinds -> Tokens], stale : [Kinds -> BOOLEAN],
   version : Nat, owner : Callers \cup {NoOwner, Orphan}, live : BOOLEAN, session : Nat]

CallerPCs ==
  {"idle", "reading", "claiming", "exchanging", "committing", "rereading", "releasing", "served", "refused"}

CallerStates ==
  [pc : CallerPCs, purpose : Purposes, initial : Nat, seen : Nat, attempt : Nat,
   token : Tokens]

NoCall == [pc |-> "idle", purpose |-> "use", initial |-> 0, seen |-> 0, attempt |-> 0, token |-> NoToken]

CredentialsTypeOK ==
  /\ conn \in Connections
  /\ issued \in [consent : [Kinds -> Nat \ {0}], serial : Nat, session : Nat]
  /\ caller \in [Callers -> CallerStates]
  /\ events \in Nat

\* A connection as its first authorization leaves it, with a session.
CredentialsInit ==
  /\ events \in 0 .. MaxEvents
  /\ conn = [connected |-> TRUE,
             token |-> [k \in Kinds |-> IF k = "graph" THEN [consent |-> 1, serial |-> 0] ELSE NoToken],
             stale |-> [k \in Kinds |-> FALSE],
             version |-> 0, owner |-> NoOwner, live |-> FALSE, session |-> 1]
  /\ issued = [consent |-> [k \in Kinds |-> 1], serial |-> 0, session |-> 1]
  /\ caller = [c \in Callers |-> NoCall]

-----------------------------------------------------------------------------

Kind(c) == IF caller[c].purpose = "imap" THEN "imap" ELSE "graph"

SetCaller(c, state) == caller' = [caller EXCEPT ![c] = state]
GotoCaller(c, pc) == SetCaller(c, [caller[c] EXCEPT !.pc = pc])
Finish(c, pc) == SetCaller(c, [NoCall EXCEPT !.pc = pc])
Retry(c) == SetCaller(c, [caller[c] EXCEPT !.pc = "reading", !.attempt = @ + 1])

Event == events > 0 /\ events' = events - 1

Usable(k) == conn.connected /\ conn.token[k] # NoToken

\* getActive...Connection, forceRefreshMicrosoftConnection, getActiveMicrosoftImapConnection
Ask(c, purpose) ==
  /\ caller[c].pc \in {"idle", "served", "refused"}
  /\ LET k == IF purpose = "imap" THEN "imap" ELSE "graph"
         asking == [NoCall EXCEPT !.purpose = purpose, !.initial = conn.version] IN
     IF ~Usable(k) THEN Finish(c, "refused")
     ELSE IF conn.stale[k] \/ purpose = "force" THEN SetCaller(c, [asking EXCEPT !.pc = "reading"])
     ELSE Finish(c, "served")
  /\ UNCHANGED <<conn, issued, events>>

Satisfied(c) ==
  IF caller[c].purpose = "force" THEN conn.version > caller[c].initial ELSE ~conn.stale[Kind(c)]

\* One turn of the loop, up to the claim.
Look(c) ==
  /\ caller[c].pc = "reading"
  /\ IF caller[c].attempt >= MaxAttempts \/ ~Usable(Kind(c)) THEN Finish(c, "refused")
     ELSE IF Satisfied(c) THEN Finish(c, "served")
     ELSE IF Kind(c) = "graph" /\ conn.owner # NoOwner /\ conn.live THEN Retry(c)
     ELSE SetCaller(c, [caller[c] EXCEPT !.pc = "claiming", !.seen = conn.version,
                                           !.token = conn.token[Kind(c)]])
  /\ UNCHANGED <<conn, issued, events>>

Claim(c) ==
  /\ caller[c].pc = "claiming"
  /\ IF conn.version = caller[c].seen /\ (conn.owner = NoOwner \/ ~conn.live)
     THEN conn' = [conn EXCEPT !.owner = c, !.live = TRUE] /\ GotoCaller(c, "exchanging")
     ELSE conn' = conn /\ Retry(c)
  /\ UNCHANGED <<issued, events>>

\* The provider issues a token for the refresh token the caller read ...
Exchange(c) ==
  /\ caller[c].pc = "exchanging"
  /\ issued' = [issued EXCEPT !.serial = @ + 1]
  /\ SetCaller(c, [caller[c] EXCEPT !.pc = "committing", !.token.serial = issued.serial + 1])
  /\ UNCHANGED <<conn, events>>

\* ... or refuses it, answers without the scope, or not at all.
ExchangeFails(c) ==
  /\ caller[c].pc = "exchanging" /\ Event
  /\ GotoCaller(c, "releasing")
  /\ UNCHANGED <<conn, issued>>

\* Mutant: the commit finds the row by its id alone.
HoldsNothing(c) == conn.connected

\* The conditions of the commit's WHERE.
Holds(c) == conn.version = caller[c].seen /\ conn.owner = c /\ conn.live

\* The row has other credentials: a version of their own, and no lease.
Renewed(row) == [row EXCEPT !.version = @ + 1, !.owner = NoOwner, !.live = FALSE]

Commit(c) ==
  /\ caller[c].pc = "committing"
  /\ IF Holds(c)
     THEN /\ conn' = Renewed([conn EXCEPT !.token[Kind(c)] = caller[c].token, !.stale[Kind(c)] = FALSE])
          /\ IF Kind(c) = "imap" THEN Retry(c) ELSE GotoCaller(c, "rereading")
     ELSE conn' = conn /\ GotoCaller(c, "releasing")
  /\ UNCHANGED <<issued, events>>

Reread(c) ==
  /\ caller[c].pc = "rereading"
  /\ IF Usable("graph") THEN Finish(c, "served") ELSE GotoCaller(c, "releasing")
  /\ UNCHANGED <<conn, issued, events>>

\* The catch clause gives back a lease that is still the caller's.
ReleaseLease(c) ==
  /\ caller[c].pc = "releasing"
  /\ conn' = IF conn.owner = c THEN [conn EXCEPT !.owner = NoOwner, !.live = FALSE] ELSE conn
  /\ Finish(c, "refused")
  /\ UNCHANGED <<issued, events>>

CallerDies(c) ==
  /\ caller[c].pc \in {"exchanging", "committing"} /\ Event
  /\ conn' = IF conn.owner = c THEN [conn EXCEPT !.owner = Orphan] ELSE conn
  /\ SetCaller(c, NoCall)
  /\ UNCHANGED issued

Refresh(c) ==
  \/ Look(c) \/ Claim(c) \/ Exchange(c) \/ ExchangeFails(c) \/ Commit(c) \/ Reread(c)
  \/ ReleaseLease(c) \/ CallerDies(c)

-----------------------------------------------------------------------------
(* The user, and time.                                                      *)

\* A consent voids the one before, and its answer carries the newest token.
Consent(kinds) ==
  issued' = [issued EXCEPT !.consent = [k \in Kinds |-> IF k \in kinds THEN @[k] + 1 ELSE @[k]],
                           !.serial = @ + 1]

Granted(k) == [consent |-> issued.consent[k] + 1, serial |-> issued.serial + 1]

MayConsent == issued.consent["graph"] + issued.consent["imap"] < MaxConsents + 2

\* upsertMicrosoftConnection, upsertGoogleConnection
Connect ==
  /\ MayConsent /\ Consent(Kinds)
  /\ conn' = Renewed([conn EXCEPT !.connected = TRUE, !.session = 0,
                                  !.token = [k \in Kinds |-> IF k = "graph" THEN Granted("graph") ELSE NoToken],
                                  !.stale = [k \in Kinds |-> FALSE]])
  /\ UNCHANGED <<caller, events>>

\* setSessionCookie: every session has a generation no other had.
NewSession ==
  /\ Usable("graph")
  /\ issued' = [issued EXCEPT !.session = @ + 1]
  /\ conn' = [conn EXCEPT !.session = issued.session + 1]

\* The sign-in that connected the row goes on to its session.
Activate == conn.session = 0 /\ NewSession /\ UNCHANGED <<caller, events>>

\* saveMicrosoftImapCredentials
ApproveImap ==
  /\ MayConsent /\ Consent({"imap"})
  /\ conn.connected /\ conn.session # 0
  /\ conn' = [conn EXCEPT !.token["imap"] = Granted("imap"), !.stale["imap"] = FALSE, !.version = @ + 1]
  /\ UNCHANGED <<caller, events>>

\* disconnectCurrentProviderSession, as far as the connection goes
Disconnect ==
  /\ conn.connected /\ conn.session # 0
  /\ conn' = Renewed([conn EXCEPT !.connected = FALSE, !.session = 0,
                                  !.token = [k \in Kinds |-> NoToken], !.stale = [k \in Kinds |-> FALSE]])
  /\ UNCHANGED <<issued, caller, events>>

Expire(k) ==
  /\ conn.token[k] # NoToken /\ ~conn.stale[k] /\ Event
  /\ conn' = [conn EXCEPT !.stale[k] = TRUE]
  /\ UNCHANGED <<issued, caller>>

\* 30 seconds pass: always under a caller that died, or under a slow one.
RefreshLeaseLapses ==
  /\ conn.owner # NoOwner /\ conn.live
  /\ IF conn.owner = Orphan THEN UNCHANGED events ELSE Event
  /\ conn' = [conn EXCEPT !.live = FALSE]
  /\ UNCHANGED <<issued, caller>>

Around ==
  \/ Connect \/ Activate \/ ApproveImap \/ Disconnect
  \/ (\E k \in Kinds : Expire(k)) \/ RefreshLeaseLapses

CredentialsNext ==
  \/ \E c \in Callers : Refresh(c) \/ \E purpose \in Purposes : Ask(c, purpose)
  \/ Around

CredentialsSpec == CredentialsInit /\ [][CredentialsNext]_credentials

-----------------------------------------------------------------------------

\* Whatever refreshes are under way, the row has no token once the user has
\* disconnected, and none of an earlier consent once the user has connected
\* again (provider-token-refresh.ts:82, disconnect.ts:66).
CredentialsAreCurrent ==
  \A k \in Kinds :
    conn.token[k] # NoToken => conn.connected /\ conn.token[k].consent = issued.consent[k]

\* A refresh that lost its lease to another never puts its older answer over
\* the other's (provider-token-refresh.ts:88).
NeverOlder ==
  [][\A k \in Kinds :
       conn'.token[k] \notin {NoToken, conn.token[k]} => conn'.token[k].serial > conn.token[k].serial]_conn
=============================================================================
