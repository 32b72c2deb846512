---------------------------- MODULE AccessProofs ----------------------------
(***************************************************************************)
(* Proofs about Credentials and ProviderAccess.  Whatever the callers and the *)
(* user do, the row never holds credentials of an earlier consent, and never *)
(* older ones than it held; the calls and the switch between inboxes add     *)
(* nothing that could harm the credentials, a stopped call falls silent,     *)
(* the requests stay within their bounds and a switch spares the units.      *)
(***************************************************************************)
EXTENDS AccessCalls, TLAPS

-----------------------------------------------------------------------------
(* The credentials.                                                         *)

KindOf(state) == IF state.purpose = "imap" THEN "imap" ELSE "graph"

\* A refresh under way has read the row at some version; while the row still
\* has that version, its token is the one that was read.
Fresh(state, row) ==
  state.pc \in {"claiming", "exchanging", "committing"} =>
    /\ state.seen <= row.version
    /\ state.seen = row.version =>
         /\ row.token[KindOf(state)] # NoToken
         /\ state.token.consent = row.token[KindOf(state)].consent
         /\ state.pc = "committing" => state.token.serial > row.token[KindOf(state)].serial

NoneAhead ==
  /\ \A k \in Kinds : conn.token[k].serial <= issued.serial
  /\ \A c \in Callers : caller[c].token.serial <= issued.serial

\* The inductive invariant: no token is newer than the provider's last answer.
CredentialsInv ==
  /\ CredentialsTypeOK
  /\ CredentialsAreCurrent
  /\ NoneAhead
  /\ \A c \in Callers : Fresh(caller[c], conn)

\* A step of NeverOlder.
NewerOnly ==
  \A k \in Kinds :
    conn'.token[k] \notin {NoToken, conn.token[k]} => conn'.token[k].serial > conn.token[k].serial

LEMMA InitInv == CredentialsInit => CredentialsInv
  BY CredentialsAssumption
  DEF CredentialsInit, CredentialsInv, CredentialsTypeOK, CredentialsAreCurrent, Fresh, Connections,
      Tokens, NoToken, Kinds, NoCall, CallerStates, CallerPCs, Purposes, NoneAhead

LEMMA NoCallType == NoCall \in CallerStates /\ \A pc \in CallerPCs : [NoCall EXCEPT !.pc = pc] \in CallerStates
  BY DEF NoCall, CallerStates, CallerPCs, Purposes, Tokens, NoToken

LEMMA KindType == \A c \in Callers : Kind(c) \in Kinds /\ Kind(c) = KindOf(caller[c])
  BY DEF Kind, Kinds, KindOf

\* A step that leaves the tokens alone, or raises the version: a caller's read
\* still holds or is out of date.
LEMMA FreshStep ==
  ASSUME CredentialsInv, CredentialsTypeOK',
         \/ conn'.token = conn.token /\ conn'.version = conn.version
         \/ conn'.version > conn.version,
         \A d \in Callers : caller'[d] = caller[d] \/ Fresh(caller'[d], conn')
  PROVE  \A d \in Callers : Fresh(caller'[d], conn')
<1> TAKE d \in Callers
<1>1. CASE Fresh(caller'[d], conn')
  BY <1>1
<1>2. CASE caller'[d] = caller[d]
  <2>1. Fresh(caller[d], conn) /\ caller[d].seen \in Nat
    BY DEF CredentialsInv, CredentialsTypeOK, CallerStates
  <2>2. conn.version \in Nat /\ conn'.version \in Nat
    BY DEF CredentialsInv, CredentialsTypeOK, Connections
  <2> QED BY <1>2, <2>1, <2>2 DEF Fresh
<1> QED BY <1>1, <1>2

\* A step that leaves the credentials in the row alone.
LEMMA QuietStep ==
  ASSUME CredentialsInv, CredentialsTypeOK',
         conn'.token = conn.token, conn'.version = conn.version, conn'.connected = conn.connected,
         issued'.consent = issued.consent, issued'.serial >= issued.serial,
         \A d \in Callers :
           \/ caller'[d] = caller[d]
           \/ Fresh(caller'[d], conn') /\ caller'[d].token.serial <= issued'.serial
  PROVE  CredentialsInv' /\ NewerOnly
<1>1. \A d \in Callers : Fresh(caller'[d], conn')
  BY FreshStep
<1>2. CredentialsAreCurrent' /\ NewerOnly
  BY DEF CredentialsInv, CredentialsAreCurrent, NewerOnly
<1>3. NoneAhead'
  <2>1. /\ issued.serial \in Nat /\ issued'.serial \in Nat
        /\ \A k \in Kinds : conn.token[k].serial \in Nat
        /\ \A d \in Callers : caller[d].token.serial \in Nat
    BY DEF CredentialsInv, CredentialsTypeOK, Connections, CallerStates, Tokens
  <2> QED BY <2>1 DEF CredentialsInv, NoneAhead
<1> QED BY <1>1, <1>2, <1>3 DEF CredentialsInv

\* A step of one caller: it is enough that its own new read holds.
LEMMA CallerStep ==
  ASSUME CredentialsInv, NEW c \in Callers, NEW state \in CallerStates, SetCaller(c, state),
         conn' \in Connections, conn'.token = conn.token, conn'.version = conn.version,
         conn'.connected = conn.connected,
         issued' \in [consent : [Kinds -> Nat \ {0}], serial : Nat, session : Nat],
         issued'.consent = issued.consent, issued'.serial >= issued.serial, events' \in Nat,
         Fresh(state, conn'), state.token.serial <= issued'.serial
  PROVE  CredentialsInv' /\ NewerOnly
<1>1. CredentialsTypeOK'
  BY DEF CredentialsInv, CredentialsTypeOK, SetCaller
<1>2. \A d \in Callers :
        \/ caller'[d] = caller[d]
        \/ Fresh(caller'[d], conn') /\ caller'[d].token.serial <= issued'.serial
  BY DEF CredentialsInv, CredentialsTypeOK, SetCaller
<1> QED BY <1>1, <1>2, QuietStep

\* A caller that goes nowhere near the row: idle, refused, served, waiting.
LEMMA CallerOnly ==
  ASSUME CredentialsInv, NEW c \in Callers, NEW state \in CallerStates, SetCaller(c, state),
         UNCHANGED <<conn, issued>>, events' \in Nat, Fresh(state, conn),
         state.token.serial <= issued.serial
  PROVE  CredentialsInv' /\ NewerOnly
<1>1. /\ conn \in Connections /\ issued.serial >= issued.serial
      /\ issued \in [consent : [Kinds -> Nat \ {0}], serial : Nat, session : Nat]
  BY DEF CredentialsInv, CredentialsTypeOK
<1> QED BY <1>1, CallerStep

LEMMA EventType == CredentialsTypeOK /\ Event => events' \in Nat
  BY DEF Event, CredentialsTypeOK

\* A caller that is not refreshing carries no read that could be out of date.
LEMMA AtRest ==
  ASSUME NEW state, state.pc \notin {"claiming", "exchanging", "committing"}, NEW row
  PROVE  Fresh(state, row)
  BY DEF Fresh

LEMMA NothingAhead ==
  ASSUME CredentialsInv
  PROVE  NoToken.serial <= issued.serial /\ \A c \in Callers : caller[c].token.serial <= issued.serial
  BY DEF CredentialsInv, CredentialsTypeOK, NoneAhead, NoToken

LEMMA FinishInv ==
  ASSUME CredentialsInv, NEW c \in Callers, NEW pc \in {"served", "refused"}, Finish(c, pc),
         UNCHANGED <<conn, issued>>, events' \in Nat
  PROVE  CredentialsInv' /\ NewerOnly
<1> DEFINE state == [NoCall EXCEPT !.pc = pc]
<1>1. state \in CallerStates
  BY NoCallType DEF CallerPCs
<1>2. Fresh(state, conn) /\ state.token = NoToken
  BY AtRest DEF NoCall
<1>3. SetCaller(c, state)
  BY DEF Finish
<1> HIDE DEF state
<1> QED BY <1>1, <1>2, <1>3, CallerOnly, NothingAhead

LEMMA GotoInv ==
  ASSUME CredentialsInv, NEW c \in Callers, NEW pc \in CallerPCs, GotoCaller(c, pc),
         pc \notin {"claiming", "exchanging", "committing"},
         UNCHANGED <<conn, issued>>, events' \in Nat
  PROVE  CredentialsInv' /\ NewerOnly
<1> DEFINE state == [caller[c] EXCEPT !.pc = pc]
<1>1. state \in CallerStates
  BY DEF CredentialsInv, CredentialsTypeOK, CallerStates
<1>2. state.pc = pc /\ state.token = caller[c].token
  BY DEF CredentialsInv, CredentialsTypeOK, CallerStates
<1>3. Fresh(state, conn)
  BY <1>2, AtRest
<1>4. SetCaller(c, state)
  BY DEF GotoCaller
<1> HIDE DEF state
<1> QED BY <1>1, <1>2, <1>3, <1>4, CallerOnly, NothingAhead

LEMMA RetryType ==
  ASSUME CredentialsTypeOK, NEW c \in Callers
  PROVE  LET state == [caller[c] EXCEPT !.pc = "reading", !.attempt = @ + 1] IN
         state \in CallerStates /\ state.pc = "reading" /\ state.token = caller[c].token
<1>1. caller[c] \in CallerStates
  BY DEF CredentialsTypeOK
<1>2. caller[c].attempt + 1 \in Nat /\ "reading" \in CallerPCs
  BY <1>1 DEF CallerStates, CallerPCs
<1> QED BY <1>1, <1>2 DEF CallerStates

LEMMA RetryInv ==
  ASSUME CredentialsInv, NEW c \in Callers, Retry(c), UNCHANGED <<conn, issued>>, events' \in Nat
  PROVE  CredentialsInv' /\ NewerOnly
<1> DEFINE state == [caller[c] EXCEPT !.pc = "reading", !.attempt = @ + 1]
<1>1. state \in CallerStates /\ state.pc = "reading" /\ state.token = caller[c].token
  BY RetryType DEF CredentialsInv
<1>2. Fresh(state, conn)
  BY <1>1, AtRest
<1>3. SetCaller(c, state)
  BY DEF Retry
<1> HIDE DEF state
<1> QED BY <1>1, <1>2, <1>3, CallerOnly, NothingAhead

LEMMA AskInv ==
  ASSUME CredentialsInv, NEW c \in Callers, NEW purpose \in Purposes, Ask(c, purpose)
  PROVE  CredentialsInv' /\ NewerOnly
<1> DEFINE reading == [[NoCall EXCEPT !.purpose = purpose, !.initial = conn.version] EXCEPT !.pc = "reading"]
<1>1. UNCHANGED <<conn, issued>> /\ events' \in Nat
  BY DEF Ask, CredentialsInv, CredentialsTypeOK
<1>2. Finish(c, "refused") \/ Finish(c, "served") \/ SetCaller(c, reading)
  BY DEF Ask
<1>3. CASE SetCaller(c, reading)
  <2>1. reading \in CallerStates
    <3>1. conn.version \in Nat
      BY DEF CredentialsInv, CredentialsTypeOK, Connections
    <3> QED BY <3>1 DEF NoCall, CallerStates, CallerPCs, Tokens, NoToken
  <2>2. Fresh(reading, conn) /\ reading.token = NoToken
    BY AtRest DEF NoCall
  <2> HIDE DEF reading
  <2> QED BY <1>1, <1>3, <2>1, <2>2, CallerOnly, NothingAhead
<1> QED BY <1>1, <1>2, <1>3, FinishInv

LEMMA LookInv ==
  ASSUME CredentialsInv, NEW c \in Callers, Look(c)
  PROVE  CredentialsInv' /\ NewerOnly
<1> DEFINE read == [caller[c] EXCEPT !.pc = "claiming", !.seen = conn.version,
                                    !.token = conn.token[Kind(c)]]
<1>1. UNCHANGED <<conn, issued>> /\ events' \in Nat
  BY DEF Look, CredentialsInv, CredentialsTypeOK
<1>2. \/ Finish(c, "refused") \/ Finish(c, "served") \/ Retry(c)
      \/ SetCaller(c, read) /\ Usable(Kind(c))
  BY DEF Look
<1>3. CASE SetCaller(c, read) /\ Usable(Kind(c))
  <2>1. caller[c] \in CallerStates /\ conn.version \in Nat /\ conn.token[Kind(c)] \in Tokens
    BY KindType DEF CredentialsInv, CredentialsTypeOK, Connections
  <2>2. read \in CallerStates
    BY <2>1 DEF CallerStates, CallerPCs
  <2>3. /\ read.pc = "claiming" /\ read.seen = conn.version /\ read.token = conn.token[Kind(c)]
        /\ KindOf(read) = Kind(c)
    BY <2>1 DEF CallerStates, Kind, KindOf
  <2> HIDE DEF read
  <2>4. Fresh(read, conn)
    <3>1. read.seen <= conn.version /\ read.token.consent = conn.token[KindOf(read)].consent
      BY <2>1, <2>3
    <3> QED BY <1>3, <2>3, <3>1 DEF Fresh, Usable
  <2>5. read.token.serial <= issued.serial
    BY <2>3, KindType DEF CredentialsInv, NoneAhead
  <2> QED BY <1>1, <1>3, <2>2, <2>4, <2>5, CallerOnly
<1> QED BY <1>1, <1>2, <1>3, FinishInv, RetryInv

\* What a caller that goes on with the same read has to show for it.
LEMMA GoesOn ==
  ASSUME CredentialsInv, NEW c \in Callers, caller[c].pc \in {"claiming", "exchanging"},
         NEW row, row.token = conn.token, row.version = conn.version, NEW pc \in CallerPCs,
         pc # "committing"
  PROVE  LET state == [caller[c] EXCEPT !.pc = pc] IN
           state \in CallerStates /\ Fresh(state, row) /\ state.token.serial <= issued.serial
<1> DEFINE state == [caller[c] EXCEPT !.pc = pc]
<1>1. caller[c] \in CallerStates /\ Fresh(caller[c], conn)
  BY DEF CredentialsInv, CredentialsTypeOK
<1>2. state \in CallerStates /\ state.pc = pc /\ state.seen = caller[c].seen /\ state.token = caller[c].token
      /\ KindOf(state) = KindOf(caller[c])
  BY <1>1 DEF CallerStates, KindOf
<1> QED BY <1>1, <1>2, NothingAhead DEF Fresh

LEMMA ClaimInv ==
  ASSUME CredentialsInv, NEW c \in Callers, Claim(c)
  PROVE  CredentialsInv' /\ NewerOnly
<1> DEFINE state == [caller[c] EXCEPT !.pc = "exchanging"]
<1>1. CASE conn' = conn /\ Retry(c)
  BY <1>1, RetryInv DEF Claim, CredentialsInv, CredentialsTypeOK
<1>2. CASE conn' = [conn EXCEPT !.owner = c, !.live = TRUE] /\ GotoCaller(c, "exchanging")
  <2>1. conn' \in Connections /\ conn'.token = conn.token /\ conn'.version = conn.version
        /\ conn'.connected = conn.connected
    BY <1>2 DEF CredentialsInv, CredentialsTypeOK, Connections
  <2>2. state \in CallerStates /\ Fresh(state, conn') /\ state.token.serial <= issued.serial
    BY <2>1, GoesOn DEF Claim, CallerPCs
  <2>3. SetCaller(c, state)
    BY <1>2 DEF GotoCaller
  <2>4. /\ issued' \in [consent : [Kinds -> Nat \ {0}], serial : Nat, session : Nat]
        /\ issued' = issued /\ issued'.serial >= issued.serial /\ events' \in Nat
    BY DEF Claim, CredentialsInv, CredentialsTypeOK
  <2> HIDE DEF state
  <2> QED BY <2>1, <2>2, <2>3, <2>4, CallerStep
<1> QED BY <1>1, <1>2 DEF Claim

LEMMA ExchangeInv ==
  ASSUME CredentialsInv, NEW c \in Callers, Exchange(c)
  PROVE  CredentialsInv' /\ NewerOnly
<1> DEFINE state == [caller[c] EXCEPT !.pc = "committing", !.token.serial = issued.serial + 1]
<1>1. /\ caller[c] \in CallerStates /\ Fresh(caller[c], conn) /\ caller[c].pc = "exchanging"
      /\ issued \in [consent : [Kinds -> Nat \ {0}], serial : Nat, session : Nat] /\ conn \in Connections
  BY DEF Exchange, CredentialsInv, CredentialsTypeOK
<1> DEFINE token == [caller[c].token EXCEPT !.serial = issued.serial + 1]
<1>2. state \in CallerStates
  <2>1. caller[c].token \in Tokens /\ issued.serial \in Nat
    BY <1>1 DEF CallerStates
  <2>2. token \in Tokens
    BY <2>1 DEF Tokens
  <2>3. state = [caller[c] EXCEPT !.pc = "committing", !.token = token]
    BY <1>1 DEF CallerStates
  <2> QED BY <1>1, <2>2, <2>3 DEF CallerStates, CallerPCs
<1>3. /\ state.pc = "committing" /\ state.seen = caller[c].seen /\ KindOf(state) = Kind(c)
      /\ state.token.consent = caller[c].token.consent /\ state.token.serial = issued.serial + 1
  BY <1>1 DEF CallerStates, Tokens, Kind, KindOf
<1> HIDE DEF state
<1>4. conn.token[Kind(c)].serial <= issued.serial /\ conn.token[Kind(c)].serial \in Nat
  BY <1>1, KindType DEF CredentialsInv, NoneAhead, Connections, Tokens
<1>5. Fresh(state, conn')
  BY <1>1, <1>3, <1>4, KindType DEF Fresh, Exchange
<1>6. /\ issued' \in [consent : [Kinds -> Nat \ {0}], serial : Nat, session : Nat]
      /\ issued'.consent = issued.consent /\ issued'.serial >= issued.serial
  BY <1>1 DEF Exchange
<1>7. SetCaller(c, state) /\ conn' = conn /\ events' \in Nat
  BY DEF Exchange, CredentialsInv, CredentialsTypeOK, state
<1>8. state.token.serial <= issued'.serial
  BY <1>1, <1>3 DEF Exchange
<1> QED BY <1>1, <1>2, <1>5, <1>6, <1>7, <1>8, CallerStep

LEMMA ExchangeFailsInv ==
  ASSUME CredentialsInv, NEW c \in Callers, ExchangeFails(c)
  PROVE  CredentialsInv' /\ NewerOnly
  BY GotoInv, EventType DEF ExchangeFails, CredentialsInv, CallerPCs

\* A step that raises the version: whatever a caller has read is out of date.
LEMMA VersionStep ==
  ASSUME CredentialsInv, CredentialsTypeOK', conn'.version = conn.version + 1,
         CredentialsAreCurrent', NoneAhead', NewerOnly,
         \A d \in Callers : caller'[d] = caller[d]
           \/ caller'[d].pc \notin {"claiming", "exchanging", "committing"}
  PROVE  CredentialsInv' /\ NewerOnly
<1>1. conn'.version > conn.version
  BY DEF CredentialsInv, CredentialsTypeOK, Connections
<1>2. \A d \in Callers : caller'[d] = caller[d] \/ Fresh(caller'[d], conn')
  BY AtRest
<1>3. \A d \in Callers : Fresh(caller'[d], conn')
  BY <1>1, <1>2, FreshStep
<1> QED BY <1>3 DEF CredentialsInv

LEMMA RenewedType ==
  ASSUME NEW row \in Connections
  PROVE  /\ Renewed(row) \in Connections /\ Renewed(row).version = row.version + 1
         /\ Renewed(row).connected = row.connected /\ Renewed(row).token = row.token
<1> DEFINE version == row.version + 1
<1>1. version \in Nat
  BY DEF Connections
<1>2. Renewed(row) = [row EXCEPT !.version = version, !.owner = NoOwner, !.live = FALSE]
  BY DEF Renewed
<1> HIDE DEF version
<1>3. /\ Renewed(row) \in Connections /\ Renewed(row).version = version
      /\ Renewed(row).connected = row.connected /\ Renewed(row).token = row.token
  BY <1>1, <1>2 DEF Connections
<1> QED BY <1>3 DEF version

\* The commit of a refresh that still holds its lease.
LEMMA CommittedInv ==
  ASSUME CredentialsInv, NEW c \in Callers, caller[c].pc = "committing", Holds(c),
         conn' = Renewed([conn EXCEPT !.token[Kind(c)] = caller[c].token, !.stale[Kind(c)] = FALSE]),
         NEW state \in CallerStates, SetCaller(c, state),
         state.pc \notin {"claiming", "exchanging", "committing"},
         state.token.serial <= issued.serial, UNCHANGED <<issued, events>>
  PROVE  CredentialsInv' /\ NewerOnly
<1> DEFINE row == [conn EXCEPT !.token[Kind(c)] = caller[c].token, !.stale[Kind(c)] = FALSE]
<1>1. caller[c] \in CallerStates /\ Fresh(caller[c], conn) /\ caller[c].seen = conn.version
  BY DEF CredentialsInv, CredentialsTypeOK, Holds
<1>2. conn \in Connections /\ Kind(c) \in Kinds /\ caller[c].token \in Tokens
  BY <1>1, KindType DEF CredentialsInv, CredentialsTypeOK, CallerStates
<1>a. row \in Connections /\ row.version = conn.version /\ row.connected = conn.connected
  BY <1>2 DEF Connections
<1>b. /\ row.token[Kind(c)] = caller[c].token
      /\ \A k \in Kinds \ {Kind(c)} : row.token[k] = conn.token[k]
  BY <1>2 DEF Connections
<1> HIDE DEF row
<1>3. /\ conn' \in Connections /\ conn'.version = conn.version + 1 /\ conn'.connected = conn.connected
      /\ conn'.token = row.token
  BY <1>a, RenewedType DEF row
<1>4. CredentialsTypeOK'
  BY <1>3 DEF CredentialsInv, CredentialsTypeOK, SetCaller
<1>5. /\ conn'.token[Kind(c)] = caller[c].token
      /\ \A k \in Kinds \ {Kind(c)} : conn'.token[k] = conn.token[k]
  BY <1>3, <1>b
<1>6. /\ conn.token[Kind(c)] # NoToken
      /\ caller[c].token.consent = conn.token[Kind(c)].consent
      /\ caller[c].token.serial > conn.token[Kind(c)].serial
  BY <1>1, KindType DEF Fresh
<1>7. CredentialsAreCurrent'
  BY <1>2, <1>3, <1>5, <1>6 DEF CredentialsInv, CredentialsAreCurrent
<1>8. NewerOnly
  BY <1>2, <1>5, <1>6 DEF NewerOnly
<1>9. NoneAhead'
  <2>1. \A d \in Callers : caller'[d].token.serial <= issued.serial
    BY NothingAhead DEF SetCaller, CredentialsInv, CredentialsTypeOK
  <2> QED BY <1>2, <1>5, <2>1, NothingAhead DEF CredentialsInv, NoneAhead
<1>10. \A d \in Callers : caller'[d] = caller[d]
         \/ caller'[d].pc \notin {"claiming", "exchanging", "committing"}
  BY DEF SetCaller, CredentialsInv, CredentialsTypeOK
<1> QED BY <1>3, <1>4, <1>7, <1>8, <1>9, <1>10, VersionStep

LEMMA CommitInv ==
  ASSUME CredentialsInv, NEW c \in Callers, Commit(c)
  PROVE  CredentialsInv' /\ NewerOnly
<1>1. CASE ~Holds(c)
  <2>1. GotoCaller(c, "releasing") /\ UNCHANGED <<conn, issued, events>>
    BY <1>1 DEF Commit
  <2>2. events' \in Nat
    BY <2>1 DEF CredentialsInv, CredentialsTypeOK
  <2> QED BY <2>1, <2>2, GotoInv DEF CallerPCs
<1>2. CASE Holds(c)
  <2> DEFINE next == [caller[c] EXCEPT !.pc = "rereading"]
             again == [caller[c] EXCEPT !.pc = "reading", !.attempt = @ + 1]
  <2>1. PICK state \in {next, again} : SetCaller(c, state)
    BY <1>2 DEF Commit, GotoCaller, Retry
  <2>2. caller[c] \in CallerStates
    BY DEF CredentialsInv, CredentialsTypeOK
  <2>3. /\ state \in CallerStates /\ state.token.serial <= issued.serial
        /\ state.pc \notin {"claiming", "exchanging", "committing"}
    <3>1. CASE state = next
      BY <2>2, <3>1, NothingAhead DEF CallerStates, CallerPCs
    <3>2. CASE state = again
      BY <3>2, RetryType, NothingAhead DEF CredentialsInv
    <3> QED BY <3>1, <3>2
  <2> HIDE DEF next, again
  <2>4. /\ caller[c].pc = "committing" /\ UNCHANGED <<issued, events>>
        /\ conn' = Renewed([conn EXCEPT !.token[Kind(c)] = caller[c].token, !.stale[Kind(c)] = FALSE])
    BY <1>2 DEF Commit
  <2> QED BY <1>2, <2>1, <2>3, <2>4, CommittedInv
<1> QED BY <1>1, <1>2

LEMMA RereadInv ==
  ASSUME CredentialsInv, NEW c \in Callers, Reread(c)
  PROVE  CredentialsInv' /\ NewerOnly
<1>1. UNCHANGED <<conn, issued>> /\ events' \in Nat
  BY DEF Reread, CredentialsInv, CredentialsTypeOK
<1>2. Finish(c, "served") \/ GotoCaller(c, "releasing")
  BY DEF Reread
<1> QED BY <1>1, <1>2, FinishInv, GotoInv DEF CallerPCs

\* Changes of the row that no caller's read is about.
Released(row) == [row EXCEPT !.owner = NoOwner, !.live = FALSE]
Orphaned(row) == [row EXCEPT !.owner = Orphan]

LEMMA LeaseType ==
  ASSUME NEW row \in Connections, NEW new \in {row, Released(row), Orphaned(row)}
  PROVE  /\ new \in Connections /\ new.token = row.token /\ new.version = row.version
         /\ new.connected = row.connected
  BY DEF Connections, Released, Orphaned

\* A caller that ends, whatever becomes of its lease.
LEMMA EndInv ==
  ASSUME CredentialsInv, NEW c \in Callers, NEW pc \in {"idle", "refused"},
         SetCaller(c, [NoCall EXCEPT !.pc = pc]),
         conn' \in {conn, Released(conn), Orphaned(conn)}, issued' = issued, events' \in Nat
  PROVE  CredentialsInv' /\ NewerOnly
<1> DEFINE state == [NoCall EXCEPT !.pc = pc]
<1>1. state \in CallerStates
  BY NoCallType DEF CallerPCs
<1>2. Fresh(state, conn') /\ state.token = NoToken
  BY AtRest DEF NoCall
<1>3. /\ conn' \in Connections /\ conn'.token = conn.token /\ conn'.version = conn.version
      /\ conn'.connected = conn.connected
  BY LeaseType DEF CredentialsInv, CredentialsTypeOK
<1>4. issued \in [consent : [Kinds -> Nat \ {0}], serial : Nat, session : Nat] /\ issued.serial >= issued.serial
  BY DEF CredentialsInv, CredentialsTypeOK
<1> HIDE DEF state
<1> QED BY <1>1, <1>2, <1>3, <1>4, NothingAhead, CallerStep DEF state

LEMMA ReleaseLeaseInv ==
  ASSUME CredentialsInv, NEW c \in Callers, ReleaseLease(c)
  PROVE  CredentialsInv' /\ NewerOnly
  BY EndInv DEF ReleaseLease, Finish, Released, CredentialsInv, CredentialsTypeOK

LEMMA CallerDiesInv ==
  ASSUME CredentialsInv, NEW c \in Callers, CallerDies(c)
  PROVE  CredentialsInv' /\ NewerOnly
<1>1. NoCall = [NoCall EXCEPT !.pc = "idle"]
  BY DEF NoCall
<1>2. events' \in Nat
  BY EventType DEF CallerDies, CredentialsInv
<1> QED BY <1>1, <1>2, EndInv DEF CallerDies, Orphaned

\* What a consent does to the numbers given out.
LEMMA ConsentType ==
  ASSUME CredentialsTypeOK, NEW kinds \in SUBSET Kinds, Consent(kinds)
  PROVE  /\ issued' \in [consent : [Kinds -> Nat \ {0}], serial : Nat, session : Nat]
         /\ \A k \in Kinds : issued'.consent[k] = IF k \in kinds THEN issued.consent[k] + 1 ELSE issued.consent[k]
         /\ issued'.serial = issued.serial + 1
<1> DEFINE consent == [k \in Kinds |-> IF k \in kinds THEN issued.consent[k] + 1 ELSE issued.consent[k]]
<1>1. issued \in [consent : [Kinds -> Nat \ {0}], serial : Nat, session : Nat]
  BY DEF CredentialsTypeOK
<1>2. consent \in [Kinds -> Nat \ {0}]
  BY <1>1
<1>3. issued' = [issued EXCEPT !.consent = consent, !.serial = @ + 1]
  BY DEF Consent
<1>4. \A k \in Kinds : consent[k] = IF k \in kinds THEN issued.consent[k] + 1 ELSE issued.consent[k]
  OBVIOUS
<1> HIDE DEF consent
<1>5. issued'.consent = consent /\ issued'.serial = issued.serial + 1 /\ issued'.session = issued.session
  BY <1>1, <1>3
<1>6. issued' \in [consent : [Kinds -> Nat \ {0}], serial : Nat, session : Nat]
  <2>1. issued.serial + 1 \in Nat
    BY <1>1
  <2> QED BY <1>1, <1>2, <1>3, <2>1
<1> QED BY <1>4, <1>5, <1>6

LEMMA GrantedType ==
  ASSUME CredentialsTypeOK, NEW k \in Kinds
  PROVE  Granted(k) \in Tokens /\ Granted(k).consent = issued.consent[k] + 1 /\ Granted(k).serial = issued.serial + 1
  BY DEF CredentialsTypeOK, Granted, Tokens

\* A step of the user that stores other credentials: a consent's, or none.
LEMMA StoreInv ==
  ASSUME CredentialsInv, conn' \in Connections, conn'.version = conn.version + 1,
         issued' \in [consent : [Kinds -> Nat \ {0}], serial : Nat, session : Nat],
         issued'.serial >= issued.serial, UNCHANGED <<caller, events>>,
         \A k \in Kinds : conn'.token[k] # NoToken =>
           /\ conn'.connected /\ conn'.token[k].consent = issued'.consent[k]
           /\ conn'.token[k] # conn.token[k] =>
                conn'.token[k].serial > conn.token[k].serial /\ conn'.token[k].serial <= issued'.serial
  PROVE  CredentialsInv' /\ NewerOnly
<1>1. CredentialsTypeOK'
  BY DEF CredentialsInv, CredentialsTypeOK
<1>2. CredentialsAreCurrent' /\ NewerOnly
  BY DEF CredentialsAreCurrent, NewerOnly
<1>3. NoneAhead'
  <2>1. /\ issued.serial \in Nat /\ issued'.serial \in Nat
        /\ \A k \in Kinds : conn.token[k].serial \in Nat /\ conn'.token[k].serial \in Nat
        /\ \A d \in Callers : caller[d].token.serial \in Nat
    BY DEF CredentialsInv, CredentialsTypeOK, Connections, CallerStates, Tokens
  <2>2. \A k \in Kinds : conn'.token[k].serial <= issued'.serial
    BY <2>1 DEF CredentialsInv, NoneAhead, NoToken
  <2> QED BY <2>1, <2>2 DEF CredentialsInv, NoneAhead
<1> QED BY <1>1, <1>2, <1>3, VersionStep

LEMMA ConnectInv ==
  ASSUME CredentialsInv, Connect
  PROVE  CredentialsInv' /\ NewerOnly
<1> DEFINE token == [k \in Kinds |-> IF k = "graph" THEN Granted("graph") ELSE NoToken]
           stale == [k \in Kinds |-> FALSE]
           row == [conn EXCEPT !.connected = TRUE, !.session = 0, !.token = token, !.stale = stale]
<1>1. conn \in Connections /\ issued.serial \in Nat /\ \A k \in Kinds : conn.token[k].serial <= issued.serial
  BY DEF CredentialsInv, CredentialsTypeOK, NoneAhead
<1>2. /\ Granted("graph") \in Tokens /\ Granted("graph").consent = issued.consent["graph"] + 1
      /\ Granted("graph").serial = issued.serial + 1
  BY GrantedType DEF CredentialsInv, Kinds
<1>3. /\ issued' \in [consent : [Kinds -> Nat \ {0}], serial : Nat, session : Nat]
      /\ \A k \in Kinds : issued'.consent[k] = issued.consent[k] + 1
      /\ issued'.serial = issued.serial + 1
  BY ConsentType DEF Connect, CredentialsInv
<1>4. token \in [Kinds -> Tokens] /\ stale \in [Kinds -> BOOLEAN]
  BY <1>2 DEF Tokens, NoToken
<1>5. \A k \in Kinds : token[k] # NoToken => k = "graph" /\ token[k] = Granted("graph")
  OBVIOUS
<1> HIDE DEF token, stale
<1>6. row \in Connections /\ row.version = conn.version /\ row.connected /\ row.token = token
  BY <1>1, <1>4 DEF Connections
<1>7. conn' = Renewed(row) /\ UNCHANGED <<caller, events>>
  BY DEF Connect, token, stale
<1> HIDE DEF row
<1>8. /\ conn' \in Connections /\ conn'.version = conn.version + 1 /\ conn'.connected /\ conn'.token = token
      /\ \A k \in Kinds : conn.token[k].serial \in Nat
  BY <1>1, <1>6, <1>7, RenewedType DEF Connections, Tokens
<1>9. \A k \in Kinds : conn'.token[k] # NoToken =>
        /\ conn'.token[k].consent = issued'.consent[k]
        /\ conn'.token[k].serial > conn.token[k].serial /\ conn'.token[k].serial <= issued'.serial
  BY <1>1, <1>2, <1>3, <1>5, <1>8
<1>10. issued'.serial >= issued.serial
  BY <1>1, <1>3
<1> QED BY <1>3, <1>7, <1>8, <1>9, <1>10, StoreInv

LEMMA ApproveImapInv ==
  ASSUME CredentialsInv, ApproveImap
  PROVE  CredentialsInv' /\ NewerOnly
<1> DEFINE token == [conn.token EXCEPT !["imap"] = Granted("imap")]
           stale == [conn.stale EXCEPT !["imap"] = FALSE]
           version == conn.version + 1
<1>1. /\ conn \in Connections /\ conn.connected /\ issued.serial \in Nat
      /\ \A k \in Kinds : conn.token[k].serial <= issued.serial
  BY DEF CredentialsInv, CredentialsTypeOK, NoneAhead, ApproveImap
<1>2. /\ Granted("imap") \in Tokens /\ Granted("imap").consent = issued.consent["imap"] + 1
      /\ Granted("imap").serial = issued.serial + 1
  BY GrantedType DEF CredentialsInv, Kinds
<1>3. /\ issued' \in [consent : [Kinds -> Nat \ {0}], serial : Nat, session : Nat]
      /\ issued'.consent["imap"] = issued.consent["imap"] + 1 /\ issued'.consent["graph"] = issued.consent["graph"]
      /\ issued'.serial = issued.serial + 1
  BY ConsentType DEF ApproveImap, CredentialsInv, Kinds
<1>4. token \in [Kinds -> Tokens] /\ stale \in [Kinds -> BOOLEAN] /\ version \in Nat
  <2>1. conn.token \in [Kinds -> Tokens] /\ conn.stale \in [Kinds -> BOOLEAN] /\ conn.version \in Nat
    BY <1>1 DEF Connections
  <2>2. token \in [Kinds -> Tokens]
    BY <1>2, <2>1
  <2>3. stale \in [Kinds -> BOOLEAN]
    BY <2>1
  <2>4. version \in Nat
    BY <2>1
  <2> QED BY <2>2, <2>3, <2>4
<1>5. token["imap"] = Granted("imap") /\ token["graph"] = conn.token["graph"]
  BY <1>1 DEF Connections, Kinds
<1>6. conn' = [conn EXCEPT !.token = token, !.stale = stale, !.version = version]
  BY <1>1 DEF ApproveImap, Connections
<1>7. version = conn.version + 1
  OBVIOUS
<1> HIDE DEF token, stale, version
<1>8. /\ conn' \in Connections /\ conn'.version = conn.version + 1 /\ conn'.connected
      /\ conn'.token = token /\ \A k \in Kinds : conn.token[k].serial \in Nat
  BY <1>1, <1>4, <1>6, <1>7 DEF Connections, Tokens
<1>9. conn.token["graph"] # NoToken => conn.token["graph"].consent = issued.consent["graph"]
  BY DEF CredentialsInv, CredentialsAreCurrent, Kinds
<1>10. \A k \in Kinds : conn'.token[k] # NoToken =>
        /\ conn'.token[k].consent = issued'.consent[k]
        /\ conn'.token[k] # conn.token[k] =>
             conn'.token[k].serial > conn.token[k].serial /\ conn'.token[k].serial <= issued'.serial
  BY <1>1, <1>2, <1>3, <1>5, <1>8, <1>9 DEF Kinds
<1>11. issued'.serial >= issued.serial
  BY <1>1, <1>3
<1> QED BY <1>3, <1>8, <1>10, <1>11, StoreInv DEF ApproveImap

LEMMA DisconnectInv ==
  ASSUME CredentialsInv, Disconnect
  PROVE  CredentialsInv' /\ NewerOnly
<1> DEFINE token == [k \in Kinds |-> NoToken]
           stale == [k \in Kinds |-> FALSE]
           row == [conn EXCEPT !.connected = FALSE, !.session = 0, !.token = token, !.stale = stale]
<1>1. /\ conn \in Connections /\ issued.serial >= issued.serial
      /\ issued \in [consent : [Kinds -> Nat \ {0}], serial : Nat, session : Nat]
  BY DEF CredentialsInv, CredentialsTypeOK
<1>2. token \in [Kinds -> Tokens] /\ stale \in [Kinds -> BOOLEAN] /\ \A k \in Kinds : token[k] = NoToken
  BY DEF Tokens, NoToken
<1>3. conn' = Renewed(row) /\ UNCHANGED <<issued, caller, events>>
  BY DEF Disconnect
<1> HIDE DEF token, stale
<1>4. row \in Connections /\ row.version = conn.version /\ row.token = token
  BY <1>1, <1>2 DEF Connections
<1> HIDE DEF row
<1>5. conn' \in Connections /\ conn'.version = conn.version + 1 /\ conn'.token = token
  BY <1>3, <1>4, RenewedType
<1> QED BY <1>1, <1>2, <1>3, <1>5, StoreInv

\* The steps of the row that leave its credentials alone.
LEMMA QuietRow ==
  ASSUME CredentialsInv, conn' \in Connections, conn'.token = conn.token, conn'.version = conn.version,
         conn'.connected = conn.connected,
         issued' \in [consent : [Kinds -> Nat \ {0}], serial : Nat, session : Nat],
         issued'.consent = issued.consent, issued'.serial = issued.serial, caller' = caller, events' \in Nat
  PROVE  CredentialsInv' /\ NewerOnly
<1>1. CredentialsTypeOK' /\ issued'.serial >= issued.serial
  BY DEF CredentialsInv, CredentialsTypeOK
<1> QED BY <1>1, QuietStep

LEMMA ActivateInv ==
  ASSUME CredentialsInv, Activate
  PROVE  CredentialsInv' /\ NewerOnly
<1>1. /\ conn \in Connections /\ events \in Nat
      /\ issued \in [consent : [Kinds -> Nat \ {0}], serial : Nat, session : Nat]
  BY DEF CredentialsInv, CredentialsTypeOK
<1>2. /\ issued' \in [consent : [Kinds -> Nat \ {0}], serial : Nat, session : Nat]
      /\ issued'.consent = issued.consent /\ issued'.serial = issued.serial
  BY <1>1 DEF Activate, NewSession
<1>3. /\ conn' \in Connections /\ conn'.token = conn.token /\ conn'.version = conn.version
      /\ conn'.connected = conn.connected
  <2>1. issued.session + 1 \in Nat
    BY <1>1
  <2> QED BY <1>1, <2>1 DEF Activate, NewSession, Connections
<1> QED BY <1>1, <1>2, <1>3, QuietRow DEF Activate

LEMMA ExpireInv ==
  ASSUME CredentialsInv, NEW k \in Kinds, Expire(k)
  PROVE  CredentialsInv' /\ NewerOnly
<1>1. /\ conn \in Connections
      /\ issued \in [consent : [Kinds -> Nat \ {0}], serial : Nat, session : Nat]
  BY DEF CredentialsInv, CredentialsTypeOK
<1>2. /\ conn' \in Connections /\ conn'.token = conn.token /\ conn'.version = conn.version
      /\ conn'.connected = conn.connected
  BY <1>1 DEF Expire, Connections
<1> QED BY <1>1, <1>2, QuietRow, EventType DEF Expire, CredentialsInv

LEMMA RefreshLeaseLapsesInv ==
  ASSUME CredentialsInv, RefreshLeaseLapses
  PROVE  CredentialsInv' /\ NewerOnly
<1>1. /\ conn \in Connections /\ events' \in Nat
      /\ issued \in [consent : [Kinds -> Nat \ {0}], serial : Nat, session : Nat]
  BY EventType DEF CredentialsInv, CredentialsTypeOK, RefreshLeaseLapses
<1>2. /\ conn' \in Connections /\ conn'.token = conn.token /\ conn'.version = conn.version
      /\ conn'.connected = conn.connected
  BY <1>1 DEF RefreshLeaseLapses, Connections
<1> QED BY <1>1, <1>2, QuietRow DEF RefreshLeaseLapses

-----------------------------------------------------------------------------

LEMMA NextInv == CredentialsInv /\ [CredentialsNext]_credentials => CredentialsInv' /\ NewerOnly
<1> SUFFICES ASSUME CredentialsInv, [CredentialsNext]_credentials
             PROVE  CredentialsInv' /\ NewerOnly
  OBVIOUS
<1>1. ASSUME NEW c \in Callers, Refresh(c)
      PROVE  CredentialsInv' /\ NewerOnly
  BY <1>1, LookInv, ClaimInv, ExchangeInv, ExchangeFailsInv, CommitInv, RereadInv, ReleaseLeaseInv,
     CallerDiesInv DEF Refresh
<1>2. ASSUME NEW c \in Callers, NEW purpose \in Purposes, Ask(c, purpose)
      PROVE  CredentialsInv' /\ NewerOnly
  BY <1>2, AskInv
<1>3. ASSUME Around
      PROVE  CredentialsInv' /\ NewerOnly
  BY <1>3, ConnectInv, ActivateInv, ApproveImapInv, DisconnectInv, ExpireInv, RefreshLeaseLapsesInv DEF Around
<1>4. CASE UNCHANGED credentials
  BY <1>4 DEF credentials, CredentialsInv, CredentialsTypeOK, CredentialsAreCurrent, NoneAhead, Fresh, NewerOnly
<1> QED BY <1>1, <1>2, <1>3, <1>4 DEF CredentialsNext

\* For any callers, consents and failures: the row has no token of a consent
\* that was withdrawn or replaced (provider-token-refresh.ts:82, disconnect.ts:66).
THEOREM CredentialsCorrect == CredentialsSpec => []CredentialsAreCurrent
<1>1. CredentialsInv => CredentialsAreCurrent
  BY DEF CredentialsInv
<1> QED BY <1>1, InitInv, NextInv, PTL DEF CredentialsSpec

\* And no step puts an older answer of the provider over a newer one
\* (provider-token-refresh.ts:88).
THEOREM CredentialsNeverOlder == CredentialsSpec => NeverOlder
<1>1. CredentialsInv /\ [CredentialsNext]_credentials => [NewerOnly]_conn
  BY NextInv
<1>2. CredentialsSpec => []CredentialsInv
  BY InitInv, NextInv, PTL DEF CredentialsSpec
<1>3. CredentialsSpec => [][NewerOnly]_conn
  BY <1>1, <1>2, PTL DEF CredentialsSpec
<1> QED BY <1>3 DEF NeverOlder, NewerOnly

-----------------------------------------------------------------------------
(* The calls and the switch between inboxes.                                *)

\* A step that spends an event or nothing.
LEMMA SpendInv ==
  ASSUME CredentialsInv, UNCHANGED <<conn, issued, caller>>, events' \in Nat
  PROVE  CredentialsInv' /\ NewerOnly
  BY DEF CredentialsInv, CredentialsTypeOK, CredentialsAreCurrent, NoneAhead, Fresh, NewerOnly

LEMMA UnchangedInv ==
  ASSUME CredentialsInv, UNCHANGED credentials
  PROVE  CredentialsInv' /\ NewerOnly
  BY SpendInv DEF CredentialsInv, CredentialsTypeOK, credentials

LEMMA SwitchInv ==
  ASSUME CredentialsInv, Switch
  PROVE  CredentialsInv' /\ NewerOnly
<1>1. /\ conn \in Connections /\ events' \in Nat
      /\ issued \in [consent : [Kinds -> Nat \ {0}], serial : Nat, session : Nat]
  BY EventType DEF CredentialsInv, CredentialsTypeOK, Switch
<1>2. /\ issued' \in [consent : [Kinds -> Nat \ {0}], serial : Nat, session : Nat]
      /\ issued'.consent = issued.consent /\ issued'.serial = issued.serial
  BY <1>1 DEF Switch, NewSession
<1>3. /\ conn' \in Connections /\ conn'.token = conn.token /\ conn'.version = conn.version
      /\ conn'.connected = conn.connected
  <2>1. issued.session + 1 \in Nat
    BY <1>1
  <2> QED BY <1>1, <2>1 DEF Switch, NewSession, Connections
<1> QED BY <1>1, <1>2, <1>3, QuietRow DEF Switch

LEMMA StepInv ==
  ASSUME CredentialsInv, NEW c \in Callers, Step(c)
  PROVE  CredentialsInv' /\ NewerOnly
<1>1. CASE Begin(c) \/ Fence(c) \/ Choose(c) \/ Guard(c) \/ Send(c) \/ Answer(c) \/ Give(c)
  BY <1>1, UnchangedInv DEF Begin, Fence, Choose, Guard, Send, Answer, Give
<1>2. CASE Load(c)
  <2>1. (\E purpose \in Purposes : Ask(c, purpose)) \/ Refresh(c)
    BY <1>2 DEF Load, Purpose, Purposes
  <2>2. [CredentialsNext]_credentials
    BY <2>1 DEF CredentialsNext
  <2> QED BY <2>2, NextInv
<1>3. CASE RefreshUnauthorized(c)
  <2>1. (\E purpose \in Purposes : Ask(c, purpose)) \/ Refresh(c)
    BY <1>3 DEF RefreshUnauthorized, Purposes
  <2>2. [CredentialsNext]_credentials
    BY <2>1 DEF CredentialsNext
  <2> QED BY <2>2, NextInv
<1>4. CASE CallDies(c)
  BY <1>4, SpendInv, EventType DEF CallDies, CredentialsInv
<1> QED BY <1>1, <1>2, <1>3, <1>4 DEF Step

LEMMA SurroundingsInv ==
  ASSUME CredentialsInv, Surroundings
  PROVE  CredentialsInv' /\ NewerOnly
<1>1. ASSUME NEW s \in Slots, SlotLapses(s)
      PROVE  CredentialsInv' /\ NewerOnly
  BY <1>1, SpendInv, EventType DEF SlotLapses, CredentialsInv
<1>2. ASSUME NEW c \in Callers, UnitLeaseLapses(c)
      PROVE  CredentialsInv' /\ NewerOnly
  BY <1>2, SpendInv, EventType DEF UnitLeaseLapses, CredentialsInv
<1>3. CASE StartDisconnect
  BY <1>3, DisconnectInv DEF StartDisconnect
<1>4. CASE EndDisconnect
  BY <1>4, UnchangedInv DEF EndDisconnect
<1>5. CASE DisconnectFails
  BY <1>5, SpendInv, EventType DEF DisconnectFails, CredentialsInv
<1>6. CASE ConnectionChanges
  BY <1>6, ConnectInv, ApproveImapInv, ActivateInv, ExpireInv, RefreshLeaseLapsesInv DEF ConnectionChanges
<1> QED BY <1>1, <1>2, <1>3, <1>4, <1>5, <1>6, SwitchInv DEF Surroundings

LEMMA AccessInv == CredentialsInv /\ [Next]_vars => CredentialsInv' /\ NewerOnly
<1>1. ASSUME CredentialsInv, Next
      PROVE  CredentialsInv' /\ NewerOnly
  BY <1>1, StepInv, SurroundingsInv DEF Next
<1>2. ASSUME CredentialsInv, UNCHANGED vars
      PROVE  CredentialsInv' /\ NewerOnly
  BY <1>2, UnchangedInv DEF vars
<1> QED BY <1>1, <1>2

\* For any calls over any slots: with requests, repetitions and switches between
\* inboxes around it, the row has no token of a consent that was withdrawn or
\* replaced (provider-token-refresh.ts:82, disconnect.ts:66).
THEOREM AccessKeepsCredentials == Spec => []CredentialsAreCurrent
<1>1. Init => CredentialsInv
  BY InitInv DEF Init
<1>2. CredentialsInv => CredentialsAreCurrent
  BY DEF CredentialsInv
<1> QED BY <1>1, <1>2, AccessInv, PTL DEF Spec

\* And never an older answer of the provider over a newer one
\* (provider-token-refresh.ts:88).
THEOREM AccessNeverOlder == Spec => NeverOlder
<1>1. Init => CredentialsInv
  BY InitInv DEF Init
<1>2. Spec => []CredentialsInv
  BY <1>1, AccessInv, PTL DEF Spec
<1>3. CredentialsInv /\ [Next]_vars => [NewerOnly]_conn
  BY AccessInv
<1>4. Spec => [][NewerOnly]_conn
  BY <1>2, <1>3, PTL DEF Spec
<1> QED BY <1>4 DEF NeverOlder, NewerOnly

-----------------------------------------------------------------------------
(* What is true of every call.                                              *)

LEMMA Limits == MaxRetries \in Nat /\ MaxRounds \in Nat /\ 0 \in Slots /\ \A s \in Slots : s \in Nat
BY AccessAssumption

\* A call goes on with the same work and the same requests behind it.
Same(s, t) ==
  t.kind = s.kind /\ t.session = s.session /\ t.late = s.late /\ t.sent = s.sent

LEMMA NewCallType ==
  ASSUME NEW kind \in CallKinds
  PROVE  NewCall(kind) \in CallStates
BY Limits DEF NewCall, CallStates, CallPCs, Ended, Outcomes, Answers

LEMMA EndGood ==
  ASSUME NEW s \in CallStates, NEW pc \in Ended, s.sent <= Bound(s)
  PROVE  /\ End(s, pc) \in CallStates /\ Paid(End(s, pc)) /\ Fits(End(s, pc))
         /\ Same(s, End(s, pc)) /\ End(s, pc).pc = pc
<1>1. /\ s.kind \in CallKinds /\ s.session \in Nat /\ s.sent \in Nat /\ s.late \in Nat
      /\ NewCall(s.kind) \in CallStates /\ pc \in CallPCs
  BY NewCallType DEF CallStates, CallPCs
<1>2. /\ End(s, pc) \in CallStates
      /\ End(s, pc).pc = pc /\ Same(s, End(s, pc)) /\ End(s, pc).retries = 0
  BY <1>1 DEF End, CallStates, Same, NewCall
<1>3. pc \notin Before /\ pc \notin Unsent /\ pc # "giving" /\ pc # "refreshing"
  BY DEF Ended, Before, Unsent
<1>4. Paid(End(s, pc))
  BY <1>1, <1>2, <1>3, Limits DEF Paid, Same, Bound, One
<1> QED BY <1>2, <1>3, <1>4 DEF Fits

LEMMA DeadGood ==
  ASSUME NEW s \in CallStates, s.sent <= Bound(s)
  PROVE  /\ Dead(s) \in CallStates /\ Paid(Dead(s)) /\ Fits(Dead(s))
         /\ Same(s, Dead(s)) /\ Dead(s).pc = "failed"
<1>1. /\ End(s, "failed") \in CallStates /\ Paid(End(s, "failed")) /\ Fits(End(s, "failed"))
      /\ Same(s, End(s, "failed")) /\ End(s, "failed").pc = "failed"
  BY EndGood DEF Ended
<1>2. Dead(s) = [End(s, "failed") EXCEPT !.lease = s.lease] /\ s.lease \in {"none", "live", "lapsed"}
  BY DEF Dead, CallStates
<1> HIDE DEF End, Dead
<1> QED BY <1>1, <1>2 DEF CallStates, Paid, Fits, Same, Spent, Bound, One

\* What a call must have paid before it asks again.
Ready(s) ==
  /\ s.sent <= Bound(s) /\ s.sent <= Spent(s)
  /\ s.retries <= MaxRetries + One(s.kind = "batch" /\ s.refreshed)
  /\ s.kind = "mutation" => s.sent = 0

LEMMA StartGood ==
  ASSUME NEW s \in CallStates, Ready(s)
  PROVE  /\ Start(s) \in CallStates /\ Paid(Start(s)) /\ Fits(Start(s)) /\ Same(s, Start(s))
         /\ Start(s).pc \in {"choosing", "fencing"}
<1>1. /\ Start(s) \in CallStates /\ Same(s, Start(s)) /\ Start(s).pc \in {"choosing", "fencing"}
      /\ Start(s).retries = s.retries /\ Start(s).refreshed = s.refreshed
  BY Limits DEF Start, CallStates, CallPCs, Same, Outcomes
<1>2. Start(s).pc \notin Ended \cup Sent \cup Before \cup {"refreshing", "giving"}
  BY <1>1 DEF Ended, Sent, Before
<1> HIDE DEF Start
<1>3. Paid(Start(s))
  BY <1>1, <1>2, Limits DEF Paid, Ready, Same, Bound, Spent, One, CallStates, Sent
<1> QED BY <1>1, <1>2, <1>3 DEF Fits

\* What the end of a request makes of a call.
Result(s, t) ==
  /\ t \in CallStates /\ Paid(t) /\ Fits(t) /\ Same(s, t)
  /\ t.pc \in Ended \cup {"choosing", "fencing", "refreshing"}

LEMMA EndResult ==
  ASSUME NEW s \in CallStates, NEW pc \in Ended, s.sent <= Bound(s)
  PROVE  Result(s, End(s, pc))
BY EndGood DEF Result

LEMMA StartResult ==
  ASSUME NEW s \in CallStates, Ready(s)
  PROVE  Result(s, Start(s))
BY StartGood DEF Result

\* A request has been sent or stopped.
Over(s) == s.pc \in {"fencing", "choosing", "giving"} /\ Paid(s) /\ s.outcome # "none"

LEMMA OverSpent ==
  ASSUME NEW s \in CallStates, Over(s)
  PROVE  /\ s.sent <= Bound(s) /\ s.sent <= Spent(s) + 1 /\ s.sent \in Nat /\ s.retries \in Nat
         /\ s.retries <= MaxRetries + One(s.kind = "batch" /\ s.refreshed)
<1>1. s.pc \notin Ended
  BY DEF Over, Ended
<1> QED BY <1>1, Limits DEF Over, Paid, One, Spent, CallStates

LEMMA RepeatResult ==
  ASSUME NEW s \in CallStates, Over(s), s.kind # "mutation", s.retries < MaxRetries,
         NEW pending \in SUBSET Items
  PROVE  Result(s, Repeat([s EXCEPT !.pending = pending]))
<1> DEFINE t == [s EXCEPT !.pending = pending, !.retries = @ + 1]
<1>a. s.retries \in Nat /\ s.retries + 1 \in Nat
  BY DEF CallStates
<1>1. t \in CallStates /\ Same(s, t) /\ t.retries = s.retries + 1 /\ t.refreshed = s.refreshed
  <2>1. t \in CallStates
    BY <1>a DEF CallStates
  <2> QED BY <2>1 DEF CallStates, Same
<1>2. Repeat([s EXCEPT !.pending = pending]) = Start(t)
  BY DEF Repeat, CallStates
<1> HIDE DEF t
<1>3. Ready(t)
  BY <1>1, OverSpent, Limits DEF Ready, Same, Spent, Bound, One, CallStates
<1> QED BY <1>1, <1>2, <1>3, StartGood DEF Result, Same

LEMMA RefreshingResult ==
  ASSUME NEW s \in CallStates, Over(s), s.kind # "mutation", ~s.refreshed, NEW pending \in SUBSET Items
  PROVE  Result(s, [s EXCEPT !.pc = "refreshing", !.pending = pending])
<1> DEFINE t == [s EXCEPT !.pc = "refreshing", !.pending = pending]
<1>1. /\ t \in CallStates /\ Same(s, t) /\ t.retries = s.retries /\ t.refreshed = s.refreshed
      /\ t.pc = "refreshing"
  BY DEF CallStates, Same, CallPCs
<1> HIDE DEF t
<1>2. t.pc \notin Ended \cup Unsent \cup Before \cup {"giving"} /\ t.pc \in Sent
  BY <1>1 DEF Ended, Unsent, Before, Sent
<1>3. Paid(t)
  BY <1>1, <1>2, OverSpent, Limits DEF Paid, Same, Spent, Bound, One, CallStates
<1> QED BY <1>1, <1>2, <1>3 DEF Result, Fits, t

LEMMA ReadResult ==
  ASSUME NEW s \in CallStates, Over(s), s.kind # "mutation"
  PROVE  Result(s, ConcludeRead(s))
<1> DEFINE same == [s EXCEPT !.pending = s.pending]
<1>1. s.outcome \in Answers \cup {"stopped", "network"} /\ s.pending \in SUBSET Items /\ same = s
  BY DEF Over, CallStates, Outcomes
<1>2. s.sent <= Bound(s)
  BY OverSpent
<1>3. CASE s.outcome \in {"ok", "stopped", "refused"}
  BY <1>2, <1>3, EndResult DEF ConcludeRead, Ended
<1>4. CASE s.outcome = "unauthorized"
  <2>1. ~s.refreshed => Result(s, [s EXCEPT !.pc = "refreshing"])
    <3>1. [s EXCEPT !.pc = "refreshing", !.pending = s.pending] = [s EXCEPT !.pc = "refreshing"]
      BY DEF CallStates
    <3> QED BY <1>1, <3>1, RefreshingResult
  <2>2. Result(s, End(s, "failed"))
    BY <1>2, EndResult DEF Ended
  <2> QED BY <1>4, <2>1, <2>2 DEF ConcludeRead
<1>5. CASE s.outcome \in {"busy", "network"}
  <2>1. s.retries < MaxRetries => Result(s, Repeat(s))
    BY <1>1, RepeatResult
  <2>2. Result(s, End(s, "failed"))
    BY <1>2, EndResult DEF Ended
  <2> QED BY <1>5, <2>1, <2>2 DEF ConcludeRead
<1> QED BY <1>1, <1>3, <1>4, <1>5 DEF Answers

LEMMA ItemsResult ==
  ASSUME NEW s \in CallStates, Over(s), s.kind # "mutation"
  PROVE  Result(s, ConcludeItems(s))
<1> DEFINE Of(answers) == {i \in s.pending : s.answer[i] \in answers}
           again == IF s.retries < MaxRetries THEN Of({"busy"}) ELSE {}
<1>1. \A answers : Of(answers) \in SUBSET Items
  BY DEF CallStates
<1>2. CASE Of({"unauthorized"}) # {} /\ ~s.refreshed
  <2>1. ConcludeItems(s) = [s EXCEPT !.pc = "refreshing", !.pending = Of({"unauthorized", "busy"})]
    BY <1>2 DEF ConcludeItems
  <2> HIDE DEF Of
  <2> QED BY <1>1, <1>2, <2>1, RefreshingResult
<1>3. CASE ~(Of({"unauthorized"}) # {} /\ ~s.refreshed) /\ again = {}
  <2>1. ConcludeItems(s) = End(s, "done")
    BY <1>3 DEF ConcludeItems
  <2> QED BY <2>1, OverSpent, EndResult DEF Ended
<1>4. CASE ~(Of({"unauthorized"}) # {} /\ ~s.refreshed) /\ again # {}
  <2>1. ConcludeItems(s) = Repeat([s EXCEPT !.pending = again])
    BY <1>4 DEF ConcludeItems
  <2>2. s.retries < MaxRetries /\ again = Of({"busy"})
    BY <1>4
  <2> HIDE DEF Of, again
  <2> QED BY <1>1, <2>1, <2>2, RepeatResult
<1> QED BY <1>2, <1>3, <1>4

LEMMA ConcludeResult ==
  ASSUME NEW s \in CallStates, Over(s)
  PROVE  \A t \in Conclude(s) : Result(s, t)
<1>1. CASE s.kind = "mutation"
  <2>1. \A t \in ConcludeMutation(s) : \E pc \in Ended : t = End(s, pc)
    BY DEF ConcludeMutation, Ended
  <2> QED BY <1>1, <2>1, OverSpent, EndResult DEF Conclude
<1>2. CASE s.kind = "batch"
  <2> DEFINE r == [s EXCEPT !.outcome = IF @ = "stopped" THEN "network" ELSE @]
  <2>1. r \in CallStates /\ Same(s, r) /\ r.kind = s.kind /\ Over(r)
    BY DEF CallStates, Same, Over, Paid, Outcomes, Spent, Bound
  <2>2. ConcludeBatch(s) = IF s.outcome = "ok" THEN ConcludeItems(s) ELSE ConcludeRead(r)
    BY DEF ConcludeBatch
  <2> HIDE DEF r
  <2>3. Result(r, ConcludeRead(r)) => Result(s, ConcludeRead(r))
    BY <2>1 DEF Result, Same
  <2>4. Result(s, ConcludeBatch(s))
    BY <1>2, <2>1, <2>2, <2>3, ItemsResult, ReadResult
  <2> QED BY <1>2, <2>4 DEF Conclude
<1>3. CASE s.kind \notin {"mutation", "batch"}
  BY <1>3, ReadResult DEF Conclude
<1> QED BY <1>1, <1>2, <1>3

-----------------------------------------------------------------------------
(* What is true of the calls together.                                      *)

SlotRows == [owner : Callers \cup {NoOwner, Orphan}, live : BOOLEAN]

\* A step of a call does not touch a slot that another call holds ...
KeepsSlots(c) == \A s \in Slots : slot[s].owner \in Callers \ {c} /\ slot[s].live => slot'[s] = slot[s]

\* ... and leaves it in a slot of its own.
InPlace(c, t) == t.pc \in InSlot /\ ~t.overdue => slot'[t.slot] = [owner |-> c, live |-> TRUE]

SameSessions == conn'.session = conn.session /\ issued'.session = issued.session

Settled(t) == t.pc \notin Before \cup {"sending"}

LEMMA CallStep ==
  ASSUME CallsInv, CredentialsInv', NEW c \in Callers, NEW t \in CallStates, SetCall(c, t), SameSessions,
         UNCHANGED <<scan, leaving, around>>, slot' \in [Slots -> SlotRows], KeepsSlots(c), InPlace(c, t),
         Paid(t), Fits(t), t.session <= issued.session,
         LateIsLast(c)'
  PROVE  CallsInv'
<1>1. /\ call \in [Callers -> CallStates] /\ call' \in [Callers -> CallStates]
      /\ call'[c] = t /\ \A d \in Callers : d # c => call'[d] = call[d]
  BY DEF CallsInv, TypeOK, SetCall
<1>2. TypeOK'
  BY <1>1 DEF TypeOK, CallsInv, CredentialsInv, SlotRows
<1>3. CallsFit'
  <2>1. ASSUME NEW d \in Callers
        PROVE  Paid(call'[d]) /\ Fits(call'[d])
    BY <1>1, <2>1 DEF CallsInv, CallsFit
  <2> HIDE DEF Paid, Fits
  <2> QED BY <2>1 DEF CallsFit
<1>4. SessionsGiven'
  BY <1>1 DEF CallsInv, SessionsGiven, SameSessions
<1>5. ASSUME NEW d \in Callers
      PROVE  LateIsLast(d)'
  <2>1. CASE d = c
    BY <2>1
  <2>2. CASE d # c
    BY <1>1, <2>2 DEF CallsInv, LateIsLast, HasWork, Revoked, SameSessions
  <2> QED BY <2>1, <2>2
<1>6. SlotsAreHeld'
  <2>1. ASSUME NEW d \in Callers, d # c, call[d].pc \in InSlot, ~call[d].overdue
        PROVE  slot'[call[d].slot] = [owner |-> d, live |-> TRUE]
    <3>1. call[d].slot \in Slots /\ slot[call[d].slot] = [owner |-> d, live |-> TRUE]
      BY <1>1, <2>1 DEF CallsInv, SlotsAreHeld, InSlot, CallStates
    <3> QED BY <2>1, <3>1 DEF KeepsSlots
  <2> QED BY <1>1, <2>1 DEF SlotsAreHeld, InPlace, InSlot
<1> QED BY <1>2, <1>3, <1>4, <1>5, <1>6 DEF CallsInv

LEMMA CallFacts ==
  ASSUME CallsInv, NEW c \in Callers
  PROVE  /\ call[c] \in CallStates /\ Paid(call[c]) /\ Fits(call[c]) /\ LateIsLast(c)
         /\ call[c].session <= issued.session /\ slot \in [Slots -> SlotRows] /\ call[c].slot \in Slots
         /\ call[c].sent <= Bound(call[c])
BY DEF CallsInv, TypeOK, CallsFit, SessionsGiven, SlotRows, CallStates, Paid

LEMMA QuietSlots ==
  ASSUME NEW c \in Callers, CallsInv, slot' = slot
  PROVE  slot' \in [Slots -> SlotRows] /\ KeepsSlots(c)
BY CallFacts DEF KeepsSlots

LEMMA NoSlot ==
  ASSUME NEW c, NEW t, t.pc \notin InSlot
  PROVE  InPlace(c, t)
BY DEF InPlace

\* The call stays where it is.
Stays(s, t) == s.pc \in InSlot /\ t.slot = s.slot /\ t.overdue = s.overdue

LEMMA SameSlot ==
  ASSUME NEW c \in Callers, NEW t, CallsInv, slot' = slot, Stays(call[c], t)
  PROVE  InPlace(c, t)
BY CallFacts DEF InPlace, CallsInv, SlotsAreHeld, InSlot, Stays

LEMMA QuietCredentials ==
  ASSUME UNCHANGED credentials
  PROVE  SameSessions
BY DEF SameSessions, credentials

\* A call that goes on with its work, and has a fence before its next request.
LEMMA LateKept ==
  ASSUME NEW c \in Callers, CallsInv, NEW t, SetCall(c, t), Same(call[c], t), Settled(t), SameSessions, scan' = scan
  PROVE  LateIsLast(c)'
<1>1. call'[c] = t
  BY DEF SetCall, CallsInv, TypeOK
<1> QED BY <1>1, CallFacts DEF LateIsLast, HasWork, Revoked, SameSessions, Settled, Same

\* The end of a request, with its slot given back or none held.
LEMMA ResultStep ==
  ASSUME CallsInv, CredentialsInv', NEW c \in Callers, NEW t, Result(call[c], t), SetCall(c, t), SameSessions,
         UNCHANGED <<scan, leaving, around>>, slot' \in [Slots -> SlotRows], KeepsSlots(c)
  PROVE  CallsInv'
<1>1. Settled(t) /\ t.pc \notin InSlot
  BY DEF Settled, Result, Before, InSlot, Ended
<1>2. /\ t \in CallStates /\ Paid(t) /\ Fits(t) /\ Same(call[c], t) /\ t.session <= issued.session
  BY CallFacts DEF Result, Same
<1>3. InPlace(c, t)
  BY <1>1 DEF InPlace
<1>4. LateIsLast(c)'
  BY <1>1, <1>2, LateKept
<1> QED BY <1>1, <1>2, <1>3, <1>4, CallStep

LEMMA BeginStep ==
  ASSUME CallsInv, CredentialsInv', NEW c \in Callers, Begin(c)
  PROVE  CallsInv'
<1>0. PICK t : t = [call[c] EXCEPT !.pc = "loading",
                                   !.lease = IF call[c].kind \in CleanupKinds THEN "live" ELSE "none"]
  OBVIOUS
<1>1. SetCall(c, t) /\ slot' = slot /\ UNCHANGED <<scan, leaving, around>> /\ SameSessions /\ call[c].pc = "idle"
  BY <1>0, QuietCredentials DEF Begin, AtCall
<1>2. /\ t \in CallStates /\ t.pc = "loading" /\ t.kind = call[c].kind /\ t.sent = call[c].sent
      /\ t.late = call[c].late /\ t.session = call[c].session /\ t.retries = call[c].retries
      /\ t.refreshed = call[c].refreshed
  BY <1>0, CallFacts DEF CallStates, CallPCs
<1>3. call[c].sent = 0 /\ call[c].late = 0 /\ call[c].session = 0
  BY <1>1, CallFacts DEF Fits, Before
<1>4. Paid(t) /\ Fits(t)
  BY <1>2, <1>3, Limits, CallFacts DEF Paid, Fits, Bound, Spent, One, CallStates
<1>5. LateIsLast(c)'
  <2>1. call'[c] = t
    BY <1>1 DEF SetCall, CallsInv, TypeOK
  <2> QED BY <1>2, <1>3, <2>1 DEF LateIsLast
<1>6. slot' \in [Slots -> SlotRows] /\ KeepsSlots(c) /\ InPlace(c, t)
  BY <1>1, <1>2, QuietSlots, NoSlot DEF InSlot
<1>7. t.session <= issued.session
  BY <1>2, CallFacts
<1> QED BY <1>1, <1>2, <1>4, <1>5, <1>6, <1>7, CallStep

LEMMA RefreshSessions ==
  ASSUME CredentialsInv, NEW c \in Callers, Refresh(c) \/ \E purpose : Ask(c, purpose)
  PROVE  SameSessions
<1>1. conn \in Connections /\ issued \in [consent : [Kinds -> Nat \ {0}], serial : Nat, session : Nat]
  BY DEF CredentialsInv, CredentialsTypeOK
<1>2. CASE Claim(c)
  BY <1>1, <1>2 DEF Claim, Connections, SameSessions
<1>3. CASE Exchange(c)
  BY <1>1, <1>3 DEF Exchange, SameSessions
<1>4. CASE Commit(c)
  <2> DEFINE row == [conn EXCEPT !.token[Kind(c)] = caller[c].token, !.stale[Kind(c)] = FALSE]
  <2>1. row.session = conn.session /\ Renewed(row).session = row.session /\ issued' = issued
    BY <1>1, <1>4 DEF Commit, Connections, Renewed
  <2>2. conn' = Renewed(row) \/ conn' = conn
    BY <1>4 DEF Commit
  <2> HIDE DEF row
  <2> QED BY <2>1, <2>2 DEF SameSessions
<1>5. CASE ReleaseLease(c) \/ CallerDies(c)
  BY <1>1, <1>5 DEF ReleaseLease, CallerDies, Connections, SameSessions
<1>6. CASE Look(c) \/ ExchangeFails(c) \/ Reread(c) \/ \E purpose : Ask(c, purpose)
  BY <1>6 DEF Look, ExchangeFails, Reread, Ask, SameSessions
<1> QED BY <1>2, <1>3, <1>4, <1>5, <1>6 DEF Refresh

LEMMA LoadStep ==
  ASSUME CallsInv, CredentialsInv, CredentialsInv', NEW c \in Callers, Load(c)
  PROVE  CallsInv'
<1> DEFINE r == [call[c] EXCEPT !.session = conn.session]
<1>0. /\ call[c].pc = "loading" /\ slot' = slot /\ UNCHANGED <<scan, leaving, around>> /\ SameSessions
      /\ conn.session \in Nat
  BY RefreshSessions DEF Load, AtCall, CredentialsInv, CredentialsTypeOK, Connections
<1>1. call[c].sent = 0 /\ call[c].late = 0 /\ call[c].session = 0 /\ Ready(r) /\ r \in CallStates
  <2>1. call[c].sent = 0 /\ call[c].late = 0 /\ call[c].session = 0
    BY <1>0, CallFacts DEF Fits, Before
  <2>2. /\ r \in CallStates /\ r.sent = 0 /\ r.kind = call[c].kind /\ r.retries = call[c].retries
        /\ r.refreshed = call[c].refreshed
    BY <1>0, <2>1, CallFacts DEF CallStates
  <2> HIDE DEF r
  <2>3. Ready(r)
    BY <2>1, <2>2, CallFacts, Limits DEF Ready, Paid, Bound, Spent, One, CallStates
  <2> QED BY <2>1, <2>2, <2>3
<1>2. PICK t : SetCall(c, t) /\ t \in {call[c], End(call[c], "failed"), End(call[c], "done"), Dead(call[c]), Start(r)}
  BY DEF Load, Proceed
<1>3. /\ t \in CallStates /\ Paid(t) /\ Fits(t) /\ t.late = 0 /\ t.session \in {0, conn.session}
      /\ t.pc \in Ended \cup {"loading", "choosing", "fencing"}
  <2>1. CASE t = call[c]
    BY <1>0, <1>1, <2>1, CallFacts
  <2>2. CASE t \in {End(call[c], "failed"), End(call[c], "done"), Dead(call[c])}
    BY <1>1, <2>2, CallFacts, EndGood, DeadGood DEF Ended, Same
  <2>3. CASE t = Start(r)
    <3>1. r.session = conn.session /\ r.late = 0
      BY <1>1, CallFacts DEF CallStates
    <3> HIDE DEF r
    <3> QED BY <1>1, <2>3, <3>1, StartGood DEF Same
  <2> QED BY <1>2, <2>1, <2>2, <2>3
<1>4. t.session <= issued.session
  BY <1>0, <1>1, <1>3, CallFacts DEF CallsInv, SessionsGiven
<1>5. LateIsLast(c)'
  BY <1>2, <1>3 DEF LateIsLast, SetCall, CallsInv, TypeOK
<1>6. t.pc \notin InSlot
  BY <1>3 DEF InSlot, Ended
<1> QED BY <1>0, <1>2, <1>3, <1>4, <1>5, <1>6, QuietSlots, NoSlot, CallStep

LEMMA RefreshUnauthorizedStep ==
  ASSUME CallsInv, CredentialsInv, CredentialsInv', NEW c \in Callers, RefreshUnauthorized(c)
  PROVE  CallsInv'
<1> DEFINE r == [call[c] EXCEPT !.refreshed = TRUE,
                                !.retries = IF call[c].kind = "batch" THEN @ + 1 ELSE @]
<1>0. call[c].pc = "refreshing" /\ slot' = slot /\ UNCHANGED <<scan, leaving, around>> /\ SameSessions
  BY RefreshSessions DEF RefreshUnauthorized, AtCall
<1>1. Ready(r) /\ r \in CallStates /\ Same(call[c], r)
  <2>1. call[c].retries \in Nat /\ call[c].retries + 1 \in Nat /\ call[c] \in CallStates
    BY CallFacts DEF CallStates
  <2>2. r \in CallStates
    BY <2>1 DEF CallStates
  <2>3. /\ Same(call[c], r) /\ r.refreshed
        /\ r.retries = IF call[c].kind = "batch" THEN call[c].retries + 1 ELSE call[c].retries
    BY <2>1 DEF CallStates, Same
  <2> HIDE DEF r
  <2>4. ~call[c].refreshed /\ call[c].kind # "mutation" /\ call[c].pc \notin Ended
    BY <1>0, CallFacts DEF Paid, Ended
  <2>5. call[c].sent <= Spent(call[c]) + 1 /\ call[c].retries <= MaxRetries /\ call[c].sent <= Bound(call[c])
    BY <2>1, <2>4, CallFacts, Limits DEF Paid, One, Spent, CallStates
  <2>6. Ready(r)
    BY <2>1, <2>3, <2>4, <2>5, Limits DEF Ready, Same, Bound, Spent, One, CallStates
  <2> QED BY <2>2, <2>3, <2>6
<1>2. PICK t : SetCall(c, t) /\ t \in {call[c], End(call[c], "failed"), Dead(call[c]), Start(r)}
  BY DEF RefreshUnauthorized, Proceed
<1>3. Result(call[c], t)
  <2>1. CASE t = call[c]
    BY <1>0, <2>1, CallFacts DEF Result, Same
  <2>2. CASE t \in {End(call[c], "failed"), Dead(call[c])}
    BY <2>2, CallFacts, EndGood, DeadGood DEF Ended, Result
  <2>3. CASE t = Start(r)
    <3> HIDE DEF r
    <3> QED BY <1>1, <2>3, StartGood DEF Same, Result
  <2> QED BY <1>2, <2>1, <2>2, <2>3
<1> QED BY <1>0, <1>2, <1>3, QuietSlots, ResultStep

\* A call that is stopped or gives up, wherever it is.
LEMMA StoppedResult ==
  ASSUME CallsInv, NEW c \in Callers, call[c].pc \in {"fencing", "choosing"}, NEW outcome \in {"stopped", "network"},
         NEW t \in Conclude([call[c] EXCEPT !.outcome = outcome])
  PROVE  Result(call[c], t)
<1> DEFINE s == [call[c] EXCEPT !.outcome = outcome]
<1>1. /\ s \in CallStates /\ Same(call[c], s) /\ s.pc = call[c].pc /\ s.outcome = outcome
      /\ s.retries = call[c].retries /\ s.refreshed = call[c].refreshed
  BY CallFacts DEF CallStates, Same, Outcomes
<1> HIDE DEF s
<1>2. Paid(s)
  BY <1>1, CallFacts DEF Paid, Same, Bound, Spent, One
<1>3. Over(s)
  BY <1>1, <1>2 DEF Over
<1>4. Result(s, t)
  BY <1>1, <1>3, ConcludeResult DEF s
<1> QED BY <1>1, <1>4 DEF Result, Same

Moved(u, pc, s, t) == t = [u EXCEPT !.pc = pc, !.slot = s]

\* A call that only moves on within its request.
LEMMA GotoGood ==
  ASSUME CallsInv, NEW c \in Callers, call[c].pc \in {"fencing", "choosing", "guarding"},
         NEW pc \in {"choosing", "guarding", "sending"}, NEW s \in Slots,
         NEW t, Moved(call[c], pc, s, t)
  PROVE  t \in CallStates /\ Paid(t) /\ Fits(t) /\ Same(call[c], t) /\ t.pc = pc /\ t.slot = s
<1>1. /\ t \in CallStates /\ Same(call[c], t) /\ t.pc = pc /\ t.slot = s
      /\ t.retries = call[c].retries /\ t.refreshed = call[c].refreshed
  BY CallFacts DEF CallStates, CallPCs, Same, Moved
<1>2. /\ call[c].pc \notin Ended \cup Sent /\ call[c].pc \in Unsent
      /\ t.pc \notin Ended \cup Sent \cup Before \cup {"giving"} /\ t.pc \in Unsent
  BY <1>1 DEF Ended, Sent, Unsent, Before
<1>3. Paid(t)
  BY <1>1, <1>2, CallFacts DEF Paid, Same, Bound, Spent, One, Sent
<1>4. Fits(t)
  BY <1>2 DEF Fits
<1> QED BY <1>1, <1>3, <1>4

LEMMA FenceStep ==
  ASSUME CallsInv, CredentialsInv', NEW c \in Callers, Fence(c)
  PROVE  CallsInv'
<1>1. call[c].pc = "fencing" /\ slot' = slot /\ UNCHANGED <<scan, leaving, around>> /\ SameSessions
  BY QuietCredentials DEF Fence, AtCall
<1>2. slot' \in [Slots -> SlotRows] /\ KeepsSlots(c)
  BY <1>1, QuietSlots
<1>3. CASE Authorized(c)
  <2>1. PICK t : Moved(call[c], "choosing", call[c].slot, t)
    BY DEF Moved
  <2>2. SetCall(c, t)
    <3>1. t = [call[c] EXCEPT !.pc = "choosing"]
      BY <2>1, CallFacts DEF CallStates, Moved
    <3> QED BY <1>3, <3>1 DEF Fence, GotoCall
  <2>3. t \in CallStates /\ Paid(t) /\ Fits(t) /\ Same(call[c], t) /\ t.pc = "choosing"
    BY <1>1, <2>1, GotoGood, CallFacts
  <2>4. Settled(t) /\ t.pc \notin InSlot /\ t.session <= issued.session
    BY <2>3, CallFacts DEF Settled, Before, InSlot, Same
  <2>5. LateIsLast(c)'
    BY <1>1, <2>2, <2>3, <2>4, LateKept
  <2> QED BY <1>1, <1>2, <2>2, <2>3, <2>4, <2>5, NoSlot, CallStep
<1>4. CASE ~Authorized(c)
  <2>1. PICK t \in Conclude([call[c] EXCEPT !.outcome = "stopped"]) : SetCall(c, t)
    BY <1>4 DEF Fence
  <2>2. Result(call[c], t)
    BY <1>1, <2>1, StoppedResult
  <2> QED BY <1>1, <1>2, <2>1, <2>2, ResultStep
<1> QED BY <1>3, <1>4

LEMMA NextRoundResult ==
  ASSUME CallsInv, NEW c \in Callers, call[c].pc = "choosing", NEW t \in NextRound(c)
  PROVE  Result(call[c], t)
<1>1. CASE \E outcome \in {"stopped", "network"} : t \in Conclude([call[c] EXCEPT !.outcome = outcome])
  BY <1>1, StoppedResult
<1>2. CASE t = [Start(call[c]) EXCEPT !.rounds = call[c].rounds + 1]
  <2>1. Ready(call[c])
    <3>1. call[c].pc \notin Ended \cup Sent /\ call[c].pc \in Unsent
      BY DEF Ended, Sent, Unsent
    <3> QED BY <3>1, CallFacts, Limits DEF Ready, Paid, One, CallStates, Spent
  <2>2. Result(call[c], Start(call[c]))
    BY <2>1, CallFacts, StartResult
  <2>3. PICK u : u = Start(call[c])
    OBVIOUS
  <2>4. call[c].rounds + 1 \in Nat
    BY CallFacts DEF CallStates
  <2>5. t = [u EXCEPT !.rounds = call[c].rounds + 1] /\ Result(call[c], u)
    BY <1>2, <2>2, <2>3
  <2>6. /\ t \in CallStates /\ t.pc = u.pc /\ t.retries = u.retries /\ t.refreshed = u.refreshed
        /\ Same(u, t) /\ t.outcome = u.outcome
    BY <2>4, <2>5 DEF Result, CallStates, Same
  <2>7. Paid(t) /\ Fits(t)
    BY <2>5, <2>6 DEF Result, Paid, Fits, Same, Spent, Bound, One
  <2> QED BY <2>5, <2>6, <2>7 DEF Result, Same
<1> QED BY <1>1, <1>2 DEF NextRound

LEMMA ChooseStep ==
  ASSUME CallsInv, CredentialsInv', NEW c \in Callers, Choose(c)
  PROVE  CallsInv'
<1> DEFINE s == call[c].slot
<1>1. /\ call[c].pc = "choosing" /\ UNCHANGED <<scan, leaving, around>> /\ SameSessions
      /\ s \in Slots /\ slot \in [Slots -> SlotRows]
  BY QuietCredentials, CallFacts DEF Choose, AtCall
<1>2. CASE slot[s].owner = NoOwner \/ ~slot[s].live
  <2>1. PICK t : Moved(call[c], "guarding", call[c].slot, t)
    BY DEF Moved
  <2>2. SetCall(c, t) /\ slot' = [slot EXCEPT ![s] = [owner |-> c, live |-> TRUE]]
    <3>1. t = [call[c] EXCEPT !.pc = "guarding"]
      BY <2>1, CallFacts DEF CallStates, Moved
    <3> QED BY <1>2, <3>1 DEF Choose, GotoCall
  <2>3. t \in CallStates /\ Paid(t) /\ Fits(t) /\ Same(call[c], t) /\ t.pc = "guarding" /\ t.slot = s
    BY <1>1, <2>1, GotoGood
  <2>4. Settled(t) /\ t.session <= issued.session
    BY <2>3, CallFacts DEF Settled, Before, Same
  <2>5. slot' \in [Slots -> SlotRows] /\ KeepsSlots(c) /\ InPlace(c, t)
    <3>1. slot' \in [Slots -> SlotRows] /\ slot'[s] = [owner |-> c, live |-> TRUE]
      BY <1>1, <2>2 DEF SlotRows
    <3>2. KeepsSlots(c)
      BY <1>1, <1>2, <2>2, CredentialsAssumption DEF KeepsSlots
    <3> QED BY <2>3, <3>1, <3>2 DEF InPlace
  <2>6. LateIsLast(c)'
    BY <1>1, <2>2, <2>3, <2>4, LateKept
  <2> QED BY <1>1, <2>2, <2>3, <2>4, <2>5, <2>6, CallStep
<1>3. CASE ~(slot[s].owner = NoOwner \/ ~slot[s].live) /\ s + 1 \in Slots
  <2>1. PICK t : Moved(call[c], "choosing", s + 1, t)
    BY DEF Moved
  <2>2. SetCall(c, t) /\ slot' = slot
    <3>1. t = [call[c] EXCEPT !.slot = s + 1]
      BY <1>1, <2>1, CallFacts DEF CallStates, Moved
    <3> QED BY <1>3, <3>1 DEF Choose
  <2>3. t \in CallStates /\ Paid(t) /\ Fits(t) /\ Same(call[c], t) /\ t.pc = "choosing"
    BY <1>1, <1>3, <2>1, GotoGood
  <2>4. Settled(t) /\ t.pc \notin InSlot /\ t.session <= issued.session
    BY <2>3, CallFacts DEF Settled, Before, InSlot, Same
  <2>5. LateIsLast(c)'
    BY <1>1, <2>2, <2>3, <2>4, LateKept
  <2> QED BY <1>1, <2>2, <2>3, <2>4, <2>5, QuietSlots, NoSlot, CallStep
<1>4. CASE ~(slot[s].owner = NoOwner \/ ~slot[s].live) /\ s + 1 \notin Slots
  <2>1. PICK t \in NextRound(c) : SetCall(c, t)
    BY <1>4 DEF Choose
  <2>2. slot' = slot
    BY <1>4 DEF Choose
  <2>3. Result(call[c], t)
    BY <1>1, <2>1, NextRoundResult
  <2> QED BY <1>1, <2>1, <2>2, <2>3, QuietSlots, ResultStep
<1> QED BY <1>2, <1>3, <1>4

\* A call that has its result, or was stopped before its request.
GivesBack(u, outcome, answer, t) == t = [u EXCEPT !.pc = "giving", !.outcome = outcome, !.answer = answer]

LEMMA GivesBackGood ==
  ASSUME CallsInv, NEW c \in Callers, call[c].pc \in {"guarding", "answering"},
         NEW outcome \in Outcomes \ {"none"}, NEW answer \in [Items -> Answers \cup {"none"}],
         NEW t, GivesBack(call[c], outcome, answer, t)
  PROVE  t \in CallStates /\ Paid(t) /\ Fits(t) /\ Same(call[c], t) /\ t.pc = "giving"
<1>1. /\ t \in CallStates /\ Same(call[c], t) /\ t.pc = "giving" /\ t.outcome # "none"
      /\ t.retries = call[c].retries /\ t.refreshed = call[c].refreshed
  <2>1. call[c] \in CallStates /\ "giving" \in CallPCs /\ outcome \in Outcomes
    BY CallFacts DEF CallPCs
  <2>2. t \in CallStates
    BY <2>1 DEF CallStates, GivesBack
  <2> QED BY <2>1, <2>2 DEF CallStates, Same, GivesBack
<1>2. call[c].pc \notin Ended /\ t.pc \notin Ended \cup Before \cup Unsent \cup {"refreshing"} /\ t.pc \in Sent
  BY <1>1 DEF Ended, Sent, Unsent, Before
<1>3. Paid(t)
  BY <1>1, <1>2, CallFacts, Limits DEF Paid, Same, Bound, Spent, One, CallStates
<1>4. Fits(t)
  BY <1>1, <1>2 DEF Fits
<1> QED BY <1>1, <1>3, <1>4

LEMMA GivesBackStep ==
  ASSUME CallsInv, CredentialsInv', NEW c \in Callers, call[c].pc \in {"guarding", "answering"},
         NEW outcome \in Outcomes \ {"none"}, NEW answer \in [Items -> Answers \cup {"none"}],
         NEW t, GivesBack(call[c], outcome, answer, t), SetCall(c, t), SameSessions,
         UNCHANGED <<slot, scan, leaving, around>>
  PROVE  CallsInv'
<1>1. t \in CallStates /\ Paid(t) /\ Fits(t) /\ Same(call[c], t) /\ t.pc = "giving"
  BY GivesBackGood
<1>2. Settled(t) /\ t.pc \notin InSlot /\ t.session <= issued.session
  BY <1>1, CallFacts DEF Settled, Before, InSlot, Same
<1>3. slot' \in [Slots -> SlotRows] /\ KeepsSlots(c) /\ InPlace(c, t)
  BY <1>2, QuietSlots, NoSlot
<1>4. LateIsLast(c)'
  BY <1>1, <1>2, LateKept
<1> QED BY <1>1, <1>2, <1>3, <1>4, CallStep

LEMMA GuardStep ==
  ASSUME CallsInv, CredentialsInv', NEW c \in Callers, Guard(c)
  PROVE  CallsInv'
<1>1. call[c].pc = "guarding" /\ UNCHANGED <<slot, scan, leaving, around>> /\ SameSessions
  BY QuietCredentials DEF Guard, AtCall
<1>2. CASE Authorized(c)
  <2>1. PICK t : Moved(call[c], "sending", call[c].slot, t)
    BY DEF Moved
  <2>2. SetCall(c, t)
    <3>1. t = [call[c] EXCEPT !.pc = "sending"]
      BY <2>1, CallFacts DEF CallStates, Moved
    <3> QED BY <1>2, <3>1 DEF Guard
  <2>3. /\ t \in CallStates /\ Paid(t) /\ Fits(t) /\ Same(call[c], t) /\ t.pc = "sending"
        /\ t.slot = call[c].slot
    BY <1>1, <2>1, GotoGood, CallFacts
  <2>4. t.overdue = call[c].overdue
    BY <2>1, CallFacts DEF CallStates, Moved
  <2>5. Stays(call[c], t)
    BY <1>1, <2>3, <2>4 DEF Stays, InSlot
  <2>6. slot' \in [Slots -> SlotRows] /\ KeepsSlots(c) /\ InPlace(c, t)
    BY <1>1, <2>5, QuietSlots, SameSlot
  <2>7. ~Revoked(c)
    BY <1>2 DEF Authorized, Revoked
  <2>8. LateIsLast(c)'
    <3>1. call'[c] = t
      BY <2>2 DEF SetCall, CallsInv, TypeOK
    <3> QED BY <2>3, <2>7, <3>1, CallFacts DEF LateIsLast, HasWork, Same
  <2>9. t.session <= issued.session
    BY <2>3, CallFacts DEF Same
  <2> QED BY <1>1, <2>2, <2>3, <2>6, <2>8, <2>9, CallStep
<1>3. CASE ~Authorized(c)
  <2>1. PICK t : GivesBack(call[c], "stopped", call[c].answer, t)
    BY DEF GivesBack
  <2>2. t = [call[c] EXCEPT !.pc = "giving", !.outcome = "stopped"]
    BY <2>1, CallFacts DEF CallStates, GivesBack
  <2>3. SetCall(c, t)
    BY <1>3, <2>2 DEF Guard
  <2>4. call[c].answer \in [Items -> Answers \cup {"none"}] /\ "stopped" \in Outcomes \ {"none"}
    BY CallFacts DEF CallStates, Outcomes
  <2> QED BY <1>1, <2>1, <2>3, <2>4, GivesBackStep
<1> QED BY <1>2, <1>3

LEMMA SendStep ==
  ASSUME CallsInv, CredentialsInv', NEW c \in Callers, Send(c)
  PROVE  CallsInv'
<1>0. PICK t : t = [call[c] EXCEPT !.pc = "answering", !.sent = @ + 1,
                                   !.late = IF Revoked(c) THEN @ + 1 ELSE @]
  OBVIOUS
<1>1. /\ call[c].pc = "sending" /\ UNCHANGED <<slot, scan, leaving, around>> /\ SameSessions /\ SetCall(c, t)
      /\ call[c].sent \in Nat /\ call[c].late \in Nat
  BY <1>0, QuietCredentials, CallFacts DEF Send, AtCall, CallStates
<1>2. t \in CallStates
  <2>1. PICK late \in Nat : late = IF Revoked(c) THEN call[c].late + 1 ELSE call[c].late
    BY <1>1
  <2>2. call[c] \in CallStates /\ "answering" \in CallPCs /\ call[c].sent + 1 \in Nat
    BY <1>1, CallFacts DEF CallPCs
  <2>3. t = [call[c] EXCEPT !.pc = "answering", !.sent = call[c].sent + 1, !.late = late]
    BY <1>0, <2>1
  <2> QED BY <2>2, <2>3 DEF CallStates
<1>3. /\ t.pc = "answering" /\ t.sent = call[c].sent + 1 /\ t.late = call[c].late + One(Revoked(c))
      /\ t.kind = call[c].kind /\ t.session = call[c].session /\ t.retries = call[c].retries
      /\ t.refreshed = call[c].refreshed /\ t.slot = call[c].slot /\ t.overdue = call[c].overdue
  BY <1>0, <1>1, CallFacts DEF CallStates, One
<1>4. Paid(t) /\ Fits(t)
  <2>1. /\ call[c].pc \notin Ended \cup Sent /\ call[c].pc \in Unsent
        /\ t.pc \notin Ended \cup Unsent \cup Before \cup {"giving", "refreshing"} /\ t.pc \in Sent
    BY <1>1, <1>3 DEF Ended, Sent, Unsent, Before
  <2>2. call[c].sent <= Spent(call[c])
    BY <1>1, <2>1, CallFacts, Limits DEF Paid, One, Spent, CallStates
  <2>3. Spent(t) = Spent(call[c]) /\ Bound(t) = Bound(call[c])
    BY <1>3 DEF Spent, Bound
  <2>4. call[c].sent + 1 <= Bound(call[c])
    BY <1>1, <2>1, <2>2, CallFacts, Limits DEF Paid, One, Spent, CallStates, Bound
  <2>5. Fits(t)
    BY <2>1 DEF Fits
  <2>6. t.retries <= MaxRetries + One(t.kind = "batch" /\ t.refreshed)
    BY <1>3, CallFacts DEF Paid
  <2>7. One(t.pc \in Sent) = 1 /\ Spent(call[c]) \in Nat
    BY <2>1, CallFacts DEF One, Spent, CallStates
  <2> QED BY <1>1, <1>3, <2>1, <2>2, <2>3, <2>4, <2>5, <2>6, <2>7 DEF Paid
<1>5. Stays(call[c], t)
  BY <1>1, <1>3 DEF Stays, InSlot
<1>6. slot' \in [Slots -> SlotRows] /\ KeepsSlots(c) /\ InPlace(c, t)
  BY <1>1, <1>5, QuietSlots, SameSlot
<1>7. LateIsLast(c)'
  <2>1. call'[c] = t
    BY <1>1 DEF SetCall, CallsInv, TypeOK
  <2>2. HasWork(c) => call[c].late = 0
    BY <1>1, CallFacts DEF LateIsLast
  <2>3. Revoked(c)' = Revoked(c) /\ HasWork(c)' = HasWork(c)
    BY <1>1, <1>3, <2>1 DEF Revoked, HasWork, SameSessions
  <2>4. "answering" \notin Before \cup {"sending"}
    BY DEF Before
  <2> QED BY <1>1, <1>3, <2>1, <2>2, <2>3, <2>4 DEF LateIsLast, One
<1>8. t.session <= issued.session
  BY <1>3, CallFacts
<1> QED BY <1>1, <1>2, <1>4, <1>6, <1>7, <1>8, CallStep

LEMMA AnswerStep ==
  ASSUME CallsInv, CredentialsInv', NEW c \in Callers, Answer(c)
  PROVE  CallsInv'
<1>1. call[c].pc = "answering" /\ UNCHANGED <<slot, scan, leaving, around>> /\ SameSessions
  BY QuietCredentials DEF Answer, AtCall
<1>2. PICK outcome \in Answers \cup {"network"} :
        \E answers \in IF call[c].kind = "batch" /\ outcome = "ok" THEN [call[c].pending -> Answers] ELSE {<<>>} :
          SetCall(c, [call[c] EXCEPT !.pc = "giving", !.outcome = outcome,
                                     !.answer = [i \in Items |-> IF i \in DOMAIN answers THEN answers[i] ELSE @[i]]])
  BY DEF Answer
<1>3. PICK answers \in IF call[c].kind = "batch" /\ outcome = "ok" THEN [call[c].pending -> Answers] ELSE {<<>>} :
          SetCall(c, [call[c] EXCEPT !.pc = "giving", !.outcome = outcome,
                                     !.answer = [i \in Items |-> IF i \in DOMAIN answers THEN answers[i] ELSE @[i]]])
  BY <1>2
<1>4. PICK answer : answer = [i \in Items |-> IF i \in DOMAIN answers THEN answers[i] ELSE call[c].answer[i]]
  OBVIOUS
<1>5. answer \in [Items -> Answers \cup {"none"}]
  <2>1. \A i \in DOMAIN answers : answers[i] \in Answers
    <3>1. CASE answers \in [call[c].pending -> Answers]
      BY <3>1
    <3>2. CASE answers = <<>>
      BY <3>2
    <3> QED BY <1>3, <3>1, <3>2
  <2>2. call[c].answer \in [Items -> Answers \cup {"none"}]
    BY CallFacts DEF CallStates
  <2> QED BY <1>4, <2>1, <2>2
<1>6. PICK t : GivesBack(call[c], outcome, answer, t)
  BY DEF GivesBack
<1>7. SetCall(c, t)
  BY <1>3, <1>4, <1>6 DEF GivesBack
<1>8. outcome \in Outcomes \ {"none"}
  BY <1>2 DEF Outcomes, Answers
<1> QED BY <1>1, <1>5, <1>6, <1>7, <1>8, GivesBackStep

LEMMA OwnSlot ==
  ASSUME CallsInv, NEW c \in Callers, NEW row \in SlotRows,
         slot' = IF slot[call[c].slot].owner = c THEN [slot EXCEPT ![call[c].slot] = row] ELSE slot
  PROVE  slot' \in [Slots -> SlotRows] /\ KeepsSlots(c)
BY CallFacts DEF KeepsSlots

LEMMA GiveStep ==
  ASSUME CallsInv, CredentialsInv', NEW c \in Callers, Give(c)
  PROVE  CallsInv'
<1>1. call[c].pc = "giving" /\ UNCHANGED <<scan, leaving, around>> /\ SameSessions
  BY QuietCredentials DEF Give, AtCall
<1>2. slot' \in [Slots -> SlotRows] /\ KeepsSlots(c)
  <2>1. PICK row \in SlotRows : row = [owner |-> NoOwner, live |-> FALSE]
    BY DEF SlotRows
  <2> QED BY <2>1, OwnSlot DEF Give
<1>3. PICK t \in Conclude(call[c]) : SetCall(c, t)
  BY DEF Give
<1>4. Over(call[c])
  BY <1>1, CallFacts DEF Over, Fits
<1>5. Result(call[c], t)
  BY <1>3, <1>4, CallFacts, ConcludeResult
<1> QED BY <1>1, <1>2, <1>3, <1>5, ResultStep

LEMMA CallDiesStep ==
  ASSUME CallsInv, CredentialsInv', NEW c \in Callers, CallDies(c)
  PROVE  CallsInv'
<1>1. UNCHANGED <<scan, leaving, around>> /\ SameSessions /\ SetCall(c, Dead(call[c]))
  BY DEF CallDies, SameSessions
<1>2. slot' \in [Slots -> SlotRows] /\ KeepsSlots(c)
  <2>1. PICK row \in SlotRows : row = [slot[call[c].slot] EXCEPT !.owner = Orphan]
    BY CallFacts DEF SlotRows
  <2>2. [slot EXCEPT ![call[c].slot].owner = Orphan] = [slot EXCEPT ![call[c].slot] = row]
    BY <2>1
  <2> QED BY <2>1, <2>2, OwnSlot DEF CallDies
<1>3. PICK t : t = Dead(call[c])
  OBVIOUS
<1>4. Result(call[c], t)
  BY <1>3, CallFacts, DeadGood DEF Result, Ended
<1> QED BY <1>1, <1>2, <1>3, <1>4, ResultStep

-----------------------------------------------------------------------------
(* What happens around the calls.                                           *)

\* The session stays or ends, or a new one begins.
SessionsMove ==
  \/ conn'.session \in {conn.session, 0} /\ issued'.session = issued.session
  \/ conn'.session = issued.session + 1 /\ issued'.session = issued.session + 1

LEMMA AroundStep ==
  ASSUME CallsInv, CredentialsInv', call' = call, slot' = slot, around' = around, leaving' \in BOOLEAN,
         scan' \in {scan, FALSE}, SessionsMove
  PROVE  CallsInv'
<1>1. /\ call \in [Callers -> CallStates] /\ issued.session \in Nat /\ scan \in BOOLEAN
      /\ conn.session \in Nat /\ \A c \in Callers : call[c].session \in Nat
  BY DEF CallsInv, TypeOK, CredentialsTypeOK, Connections, CallStates
<1>2. TypeOK'
  BY <1>1 DEF TypeOK, CallsInv, CredentialsInv
<1>3. CallsFit' /\ SlotsAreHeld'
  BY DEF CallsInv, CallsFit, SlotsAreHeld
<1>4. SessionsGiven'
  BY <1>1 DEF CallsInv, SessionsGiven, SessionsMove
<1>5. ASSUME NEW c \in Callers
      PROVE  LateIsLast(c)'
  <2>1. ~scan => ~scan'
    BY <1>1
  <2>2. call[c].session <= issued.session /\ LateIsLast(c) /\ call[c].session \in Nat
    BY <1>1, CallFacts
  <2>3. call[c].kind # "scan" /\ call[c].session # 0 /\ conn.session # call[c].session
          => conn'.session # call[c].session
    BY <1>1, <2>2 DEF SessionsMove
  <2>4. HasWork(c) /\ Revoked(c) => Revoked(c)'
    BY <2>1, <2>3 DEF HasWork, Revoked
  <2>5. HasWork(c)' = HasWork(c)
    BY DEF HasWork
  <2> QED BY <2>2, <2>4, <2>5 DEF LateIsLast
<1> QED BY <1>2, <1>3, <1>4, <1>5 DEF CallsInv

\* Time changes nothing in a call that its requests and its work depend on.
Timed(s, t) ==
  /\ t \in CallStates /\ Same(s, t) /\ t.pc = s.pc /\ t.outcome = s.outcome /\ t.slot = s.slot
  /\ t.retries = s.retries /\ t.refreshed = s.refreshed

LEMMA TimeStep ==
  ASSUME CallsInv, CredentialsInv', call' \in [Callers -> CallStates],
         \A c \in Callers : Timed(call[c], call'[c]), SlotsAreHeld', slot' \in [Slots -> SlotRows],
         UNCHANGED <<scan, leaving, around>>, SameSessions
  PROVE  CallsInv'
<1>1. TypeOK'
  BY DEF TypeOK, CallsInv, CredentialsInv, SlotRows
<1>2. ASSUME NEW c \in Callers
      PROVE  Paid(call'[c]) /\ Fits(call'[c]) /\ LateIsLast(c)' /\ call'[c].session <= issued'.session
  BY <1>2, CallFacts
     DEF Timed, Same, Paid, Fits, Spent, Bound, One, LateIsLast, HasWork, Revoked, SameSessions
<1>3. CallsFit'
  BY <1>2 DEF CallsFit
<1>4. SessionsGiven'
  BY <1>2 DEF SessionsGiven, CallsInv, SameSessions
<1> QED BY <1>1, <1>2, <1>3, <1>4 DEF CallsInv

LEMMA SlotLapsesStep ==
  ASSUME CallsInv, CredentialsInv', NEW s \in Slots, SlotLapses(s)
  PROVE  CallsInv'
<1>1. /\ UNCHANGED <<scan, leaving, around>> /\ SameSessions /\ slot' = [slot EXCEPT ![s].live = FALSE]
      /\ call' = [c \in Callers |-> IF slot[s].owner = c THEN [call[c] EXCEPT !.overdue = TRUE] ELSE call[c]]
      /\ slot \in [Slots -> SlotRows]
  BY DEF SlotLapses, SameSessions, CallsInv, TypeOK, SlotRows
<1>2. ASSUME NEW c \in Callers
      PROVE  /\ Timed(call[c], call'[c]) /\ call'[c] \in CallStates
             /\ slot[s].owner = c => call'[c].overdue
             /\ slot[s].owner # c => call'[c] = call[c]
  BY <1>1, <1>2, CallFacts DEF Timed, Same, CallStates
<1>3. call' \in [Callers -> CallStates]
  BY <1>1, <1>2
<1>4. slot' \in [Slots -> SlotRows] /\ \A r \in Slots : r # s => slot'[r] = slot[r]
  BY <1>1 DEF SlotRows
<1>5. SlotsAreHeld'
  <2>1. ASSUME NEW c \in Callers, call'[c].pc \in {"guarding", "sending", "answering"}, ~call'[c].overdue
        PROVE  slot'[call'[c].slot] = [owner |-> c, live |-> TRUE]
    <3>1. slot[s].owner # c /\ call'[c] = call[c]
      BY <1>2, <2>1
    <3>2. slot[call[c].slot] = [owner |-> c, live |-> TRUE] /\ call[c].slot \in Slots
      BY <2>1, <3>1, CallFacts DEF CallsInv, SlotsAreHeld
    <3> QED BY <1>4, <3>1, <3>2
  <2> QED BY <2>1 DEF SlotsAreHeld
<1> QED BY <1>1, <1>2, <1>3, <1>4, <1>5, TimeStep

LEMMA UnitLeaseLapsesStep ==
  ASSUME CallsInv, CredentialsInv', NEW c \in Callers, UnitLeaseLapses(c)
  PROVE  CallsInv'
<1>1. /\ UNCHANGED <<slot, scan, leaving, around>> /\ SameSessions
      /\ SetCall(c, [call[c] EXCEPT !.lease = "lapsed"])
      /\ slot \in [Slots -> SlotRows] /\ call \in [Callers -> CallStates]
  BY DEF UnitLeaseLapses, SameSessions, CallsInv, TypeOK, SlotRows
<1>2. ASSUME NEW d \in Callers
      PROVE  /\ Timed(call[d], call'[d]) /\ call'[d] \in CallStates
             /\ call'[d].overdue = call[d].overdue
  BY <1>1, <1>2, CallFacts DEF SetCall, Timed, Same, CallStates
<1>3. call' \in [Callers -> CallStates]
  BY <1>1, <1>2 DEF SetCall
<1>4. SlotsAreHeld'
  BY <1>1, <1>2 DEF Timed, CallsInv, SlotsAreHeld
<1> QED BY <1>1, <1>2, <1>3, <1>4, TimeStep

\* A session that began while a unit held its lease began with the connection.
LEMMA ChangesMove ==
  ASSUME CredentialsInv, Switch \/ StartDisconnect \/ ConnectionChanges
  PROVE  SessionsMove /\ (~Switch => conn'.session \in {conn.session, 0} \/ conn.session = 0)
<1>1. conn \in Connections /\ issued \in [consent : [Kinds -> Nat \ {0}], serial : Nat, session : Nat]
  BY DEF CredentialsInv, CredentialsTypeOK
<1>2. CASE Switch
  BY <1>1, <1>2 DEF Switch, NewSession, SessionsMove, Connections
<1>3. CASE StartDisconnect
  <2>1. conn'.session = 0
    BY <1>1, <1>3 DEF StartDisconnect, Disconnect, Renewed, Connections
  <2> QED BY <1>3, <2>1 DEF StartDisconnect, Disconnect, SessionsMove
<1>4. CASE Connect
  <2>1. conn'.session = 0
    BY <1>1, <1>4 DEF Connect, Renewed, Connections
  <2>2. issued'.session = issued.session
    BY <1>1, <1>4 DEF Connect, Consent
  <2> QED BY <2>1, <2>2 DEF SessionsMove
<1>5. CASE ApproveImap
  <2>1. conn'.session = conn.session
    BY <1>1, <1>5 DEF ApproveImap, Connections
  <2>2. issued'.session = issued.session
    BY <1>1, <1>5 DEF ApproveImap, Consent
  <2> QED BY <2>1, <2>2 DEF SessionsMove
<1>6. CASE Activate
  BY <1>1, <1>6 DEF Activate, NewSession, SessionsMove, Connections
<1>7. CASE \E k \in Kinds : Expire(k)
  BY <1>1, <1>7 DEF Expire, SessionsMove, Connections
<1>8. CASE RefreshLeaseLapses
  BY <1>1, <1>8 DEF RefreshLeaseLapses, SessionsMove, Connections
<1> QED BY <1>2, <1>3, <1>4, <1>5, <1>6, <1>7, <1>8 DEF ConnectionChanges

LEMMA StaysMove ==
  ASSUME CallsInv, SameSessions
  PROVE  SessionsMove
BY DEF SameSessions, SessionsMove

LEMMA SurroundingsCalls ==
  ASSUME CallsInv, CredentialsInv, CredentialsInv', Surroundings
  PROVE  CallsInv'
<1>1. leaving \in BOOLEAN /\ scan \in BOOLEAN
  BY DEF CallsInv, TypeOK
<1>2. CASE Switch \/ ConnectionChanges
  <2>1. UNCHANGED <<call, slot, scan, leaving, around>>
    BY <1>2 DEF Switch, ConnectionChanges, access
  <2> QED BY <1>1, <1>2, <2>1, ChangesMove, AroundStep
<1>3. CASE StartDisconnect
  <2>1. UNCHANGED <<call, slot, scan, around>> /\ leaving' \in BOOLEAN
    BY <1>3 DEF StartDisconnect
  <2> QED BY <1>1, <1>3, <2>1, ChangesMove, AroundStep
<1>4. CASE EndDisconnect \/ DisconnectFails
  <2>1. UNCHANGED <<call, slot, around>> /\ leaving' \in BOOLEAN /\ scan' \in {scan, FALSE} /\ SameSessions
    BY <1>4 DEF EndDisconnect, DisconnectFails, SameSessions, credentials
  <2> QED BY <2>1, StaysMove, AroundStep
<1> QED BY <1>2, <1>3, <1>4, SlotLapsesStep, UnitLeaseLapsesStep DEF Surroundings

LEMMA StepCalls ==
  ASSUME CallsInv, CredentialsInv, CredentialsInv', NEW c \in Callers, Step(c)
  PROVE  CallsInv' /\ SameSessions
<1>1. CallsInv'
  BY BeginStep, LoadStep, RefreshUnauthorizedStep, FenceStep, ChooseStep, GuardStep, SendStep, AnswerStep,
     GiveStep, CallDiesStep DEF Step
<1>2. SameSessions
  <2>1. CASE Load(c) \/ RefreshUnauthorized(c)
    BY <2>1, RefreshSessions DEF Load, RefreshUnauthorized
  <2>2. CASE CallDies(c)
    BY <2>2 DEF CallDies, SameSessions
  <2>3. CASE Begin(c) \/ Fence(c) \/ Choose(c) \/ Guard(c) \/ Send(c) \/ Answer(c) \/ Give(c)
    BY <2>3, QuietCredentials DEF Begin, Fence, Choose, Guard, Send, Answer, Give
  <2> QED BY <2>1, <2>2, <2>3 DEF Step
<1> QED BY <1>1, <1>2

-----------------------------------------------------------------------------
(* The theorems about the calls.                                            *)

LEMMA InitCalls == Init => CallsInv
<1> SUFFICES ASSUME Init PROVE CallsInv
  OBVIOUS
<1>1. PICK s \in Scenarios : /\ call = [c \in Callers |-> NewCall(s.work[c])]
                             /\ around = s.around
  BY DEF Init
<1>2. s.work \in [Callers -> CallKinds] /\ s.around \subseteq Changes
  BY <1>1, AccessAssumption
<1>3. ASSUME NEW c \in Callers
      PROVE  /\ call[c] \in CallStates /\ call[c].pc = "idle" /\ call[c].sent = 0 /\ call[c].late = 0
             /\ call[c].session = 0 /\ call[c].retries = 0 /\ ~call[c].refreshed
  <2>1. call[c] = NewCall(s.work[c]) /\ s.work[c] \in CallKinds
    BY <1>1, <1>2, <1>3
  <2> QED BY <2>1, NewCallType DEF NewCall
<1>4. CredentialsInv
  BY InitInv DEF Init
<1>5. TypeOK
  <2>1. call \in [Callers -> CallStates]
    BY <1>1, <1>3
  <2>2. slot \in [Slots -> [owner : Callers \cup {NoOwner, Orphan}, live : BOOLEAN]]
    BY DEF Init
  <2> QED BY <1>1, <1>2, <1>4, <2>1, <2>2 DEF TypeOK, CredentialsInv, Init
<1>6. CallsFit
  <2>1. "idle" \in Before /\ "idle" \notin Ended \cup Sent
    BY DEF Before, Ended, Sent
  <2>2. ASSUME NEW c \in Callers
        PROVE  Paid(call[c]) /\ Fits(call[c])
    <3>1. 0 <= Bound(call[c]) /\ Spent(call[c]) = 0
      BY <1>3, <2>2, Limits DEF Bound, Spent, One
    <3>2. One(call[c].pc \in Sent) \in Nat /\ 0 <= MaxRetries + One(call[c].kind = "batch" /\ call[c].refreshed)
      BY Limits DEF One
    <3>3. Paid(call[c])
      <4>1. call[c].sent <= Spent(call[c]) + One(call[c].pc \in Sent)
        BY <1>3, <2>2, <3>1, <3>2
      <4>2. call[c].pc # "refreshing"
        BY <1>3, <2>2
      <4> QED BY <1>3, <2>2, <3>1, <3>2, <4>1, <4>2 DEF Paid
    <3> QED BY <1>3, <2>1, <2>2, <3>3 DEF Fits
  <2> QED BY <2>2 DEF CallsFit
<1>7. SessionsGiven
  BY <1>3 DEF SessionsGiven, Init, CredentialsInit
<1>8. SlotsAreHeld
  BY <1>3 DEF SlotsAreHeld
<1>9. \A c \in Callers : LateIsLast(c)
  BY <1>3 DEF LateIsLast
<1> QED BY <1>5, <1>6, <1>7, <1>8, <1>9 DEF CallsInv

\* What a switch may do to the units at work.
UnitsSpared ==
  \A c \in Callers :
    call[c].lease = "live" /\ call[c].session # 0 /\ call[c].session = conn.session
      => conn'.session \in {conn.session, 0}

LEMMA NextCalls == CallsInv /\ CredentialsInv /\ [Next]_vars => CallsInv' /\ CredentialsInv' /\ [UnitsSpared]_vars
<1> SUFFICES ASSUME CallsInv, CredentialsInv, [Next]_vars
             PROVE  CallsInv' /\ CredentialsInv' /\ [UnitsSpared]_vars
  OBVIOUS
<1>1. CredentialsInv'
  BY AccessInv
<1>2. CASE \E c \in Callers : Step(c)
  <2>1. CallsInv' /\ SameSessions
    BY <1>1, <1>2, StepCalls
  <2> QED BY <1>1, <2>1 DEF UnitsSpared, SameSessions
<1>3. CASE Surroundings
  <2>1. CallsInv'
    BY <1>1, <1>3, SurroundingsCalls
  <2>2. UnitsSpared
    <3>1. CASE Switch
      BY <3>1 DEF Switch, UnitsSpared
    <3>2. CASE StartDisconnect \/ ConnectionChanges
      BY <3>2, ChangesMove DEF UnitsSpared, Switch
    <3>3. CASE EndDisconnect \/ DisconnectFails \/ (\E s \in Slots : SlotLapses(s))
               \/ \E c \in Callers : UnitLeaseLapses(c)
      BY <3>3 DEF EndDisconnect, DisconnectFails, SlotLapses, UnitLeaseLapses, UnitsSpared, credentials
    <3> QED BY <1>3, <3>1, <3>2, <3>3 DEF Surroundings
  <2> QED BY <1>1, <2>1, <2>2
<1>4. CASE UNCHANGED vars
  <2>1. UNCHANGED <<call, slot, scan, leaving, around>> /\ SameSessions
    BY <1>4 DEF vars, access, credentials, SameSessions
  <2>2. leaving \in BOOLEAN
    BY DEF CallsInv, TypeOK
  <2>3. CallsInv'
    BY <1>1, <2>1, <2>2, StaysMove, AroundStep
  <2> QED BY <1>1, <1>4, <2>3
<1> QED BY <1>2, <1>3, <1>4 DEF Next

\* For any calls of any kinds over any slots: what is true of the calls, their
\* types included, is true in every state of every run (graph-client.ts:166,
\* provider-request-coordinator.ts:64).
THEOREM CallsCorrect == Spec => [](CallsInv /\ CredentialsInv)
<1>1. Init => CallsInv /\ CredentialsInv
  BY InitCalls, InitInv DEF Init
<1> QED BY <1>1, NextCalls, PTL DEF Spec

\* A call whose scan was cancelled or whose session ended sends at most the one
\* request whose fence had passed by then (provider-work-fence.ts:12, :31).
THEOREM FallSilent == Spec => []StoppedCallsFallSilent
<1>1. CallsInv => StoppedCallsFallSilent
  <2> SUFFICES ASSUME CallsInv, NEW c \in Callers, HasWork(c)
               PROVE  call[c].late <= 1
    BY DEF StoppedCallsFallSilent
  <2>1. call[c].late \in Nat
    BY CallFacts DEF CallStates
  <2> QED BY <2>1, CallFacts DEF LateIsLast
<1> QED BY <1>1, CallsCorrect, PTL

\* However calls take, lose and give back their slots, one at work has its own, and
\* none asks more often than its kind allows (provider-request-coordinator.ts:64,
\* graph-client.ts:226, :166, :279).
THEOREM WithinBounds == Spec => []RequestsAreBounded
<1>1. CallsInv => RequestsAreBounded
  <2>1. CallsInv => SentWithinBounds
    BY DEF CallsInv, CallsFit, Paid, Bound, SentWithinBounds
  <2> QED BY <2>1 DEF CallsInv, RequestsAreBounded
<1> QED BY <1>1, CallsCorrect, PTL

\* A switch to this inbox never ends a cleanup unit that holds its lease
\* (linked-inboxes.ts:90).
THEOREM UnitsAreSpared == Spec => SwitchSparesUnits
<1>1. CallsInv /\ CredentialsInv /\ [Next]_vars => [UnitsSpared]_vars
  BY NextCalls
<1>2. Spec => [][UnitsSpared]_vars
  BY <1>1, CallsCorrect, PTL DEF Spec
<1> QED BY <1>2 DEF SwitchSparesUnits, UnitsSpared
=============================================================================
