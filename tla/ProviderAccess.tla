-------------------------- MODULE ProviderAccess --------------------------
(***************************************************************************)
(* The calls that a scan and a cleanup unit make to the provider: each loads *)
(* its credentials, then sends requests through the slots that bound the     *)
(* requests of a connection, with the fence of its work around every slot,    *)
(* and repeats them as the kind of the call allows.                          *)
(*                                                                          *)
(* "scan" and "get" calls are getJson, "batch" is readBatchJson and          *)
(* "mutation" is postJson or a batchJson that moves. "get", "batch" and       *)
(* "mutation" are calls of a cleanup unit, which holds its job's lease.       *)
(* "imap" is a call that only wants IMAP credentials.                        *)
(***************************************************************************)
EXTENDS Credentials, FiniteSets

CONSTANTS
  Slots,       \* a set of numbers 0 .. n, n < 4
  Items,       \* the requests of a batch
  MaxRetries,  \* 3 in the code
  MaxRounds,   \* 200 in the code
  Scenarios    \* what the callers do and what happens around them

VARIABLES
  call,     \* the calls and the requests they send
  slot,     \* the ProviderRequestLease rows
  scan,     \* is the scan still running?
  leaving,  \* a disconnect has ended the connection but not yet its work
  around    \* what may happen around the calls

access == <<call, slot, scan, leaving, around>>
vars == <<credentials, access>>

CallKinds == {"scan", "get", "batch", "mutation", "imap", "nothing"}
CleanupKinds == {"get", "batch", "mutation"}
Ended == {"done", "failed", "stopped", "uncertain"}
CallPCs ==
  {"idle", "loading", "fencing", "choosing", "guarding", "sending", "answering", "giving",
   "refreshing"} \cup Ended
Answers == {"ok", "unauthorized", "busy", "refused"}
Changes == {"consent", "disconnect", "switch", "expiry", "lapse", "death"}
Outcomes == Answers \cup {"none", "stopped", "network"}

ASSUME AccessAssumption ==
  /\ Cardinality(Slots) \in 1 .. 4 /\ Slots = 0 .. Cardinality(Slots) - 1
  /\ {MaxRetries, MaxRounds} \subseteq Nat
  /\ Scenarios \subseteq [work : [Callers -> CallKinds], around : SUBSET Changes, events : 0 .. MaxEvents]

CallStates ==
  [pc : CallPCs, kind : CallKinds, lease : {"none", "live", "lapsed"}, session : Nat,
   slot : Slots, rounds : Nat, retries : Nat, refreshed : BOOLEAN, outcome : Outcomes,
   pending : SUBSET Items, answer : [Items -> Answers \cup {"none"}],
   sent : Nat, late : Nat, overdue : BOOLEAN]

NewCall(kind) ==
  [pc |-> "idle", kind |-> kind, lease |-> "none", session |-> 0, slot |-> 0, rounds |-> 0,
   retries |-> 0, refreshed |-> FALSE, outcome |-> "none", pending |-> Items,
   answer |-> [i \in Items |-> "none"], sent |-> 0, late |-> 0, overdue |-> FALSE]

TypeOK ==
  /\ CredentialsTypeOK
  /\ call \in [Callers -> CallStates]
  /\ slot \in [Slots -> [owner : Callers \cup {NoOwner, Orphan}, live : BOOLEAN]]
  /\ scan \in BOOLEAN /\ leaving \in BOOLEAN
  /\ around \subseteq Changes

Init ==
  /\ CredentialsInit
  /\ \E s \in Scenarios :
       /\ call = [c \in Callers |-> NewCall(s.work[c])]
       /\ around = s.around /\ events = s.events
  /\ slot = [s \in Slots |-> [owner |-> NoOwner, live |-> FALSE]]
  /\ scan = TRUE /\ leaving = FALSE

-----------------------------------------------------------------------------

SetCall(c, state) == call' = [call EXCEPT ![c] = state]
GotoCall(c, pc) == SetCall(c, [call[c] EXCEPT !.pc = pc])
AtCall(c, pc) == call[c].pc = pc

\* Mutant: the fence of a scan looks at the connection only.
AuthorizedByConnection(c) ==
  /\ Usable("graph")
  /\ call[c].kind = "scan" \/ conn.session = call[c].session

\* createScanRequestFence, createCleanupRequestFence
Authorized(c) ==
  /\ Usable("graph")
  /\ IF call[c].kind = "scan" THEN scan ELSE conn.session = call[c].session

\* The work of the call was ended for good.
Revoked(c) == IF call[c].kind = "scan" THEN ~scan ELSE conn.session # call[c].session

Purpose(c) == IF call[c].kind = "imap" THEN "imap" ELSE "use"

\* Where a request starts: a scan's omits the fence before the claim.
Start(state) ==
  [state EXCEPT !.pc = IF state.kind = "scan" THEN "choosing" ELSE "fencing",
                !.slot = 0, !.rounds = 0, !.outcome = "none", !.overdue = FALSE]

End(state, pc) ==
  [NewCall(state.kind) EXCEPT !.pc = pc, !.session = state.session, !.sent = state.sent,
                              !.late = state.late]

\* The process of the call is gone: its leases are left to run out.
Dead(state) == [End(state, "failed") EXCEPT !.lease = state.lease]

Repeat(state) == Start([state EXCEPT !.retries = @ + 1])

ConcludeRead(state) ==
  CASE state.outcome = "ok" -> End(state, "done")
    [] state.outcome = "stopped" -> End(state, "stopped")
    [] state.outcome = "refused" -> End(state, "failed")
    [] state.outcome = "unauthorized" ->
         IF state.refreshed THEN End(state, "failed") ELSE [state EXCEPT !.pc = "refreshing"]
    [] state.outcome \in {"busy", "network"} ->
         IF state.retries < MaxRetries THEN Repeat(state) ELSE End(state, "failed")

\* A batch that was answered: every item by itself.
ConcludeItems(state) ==
  LET Answered(answers) == {i \in state.pending : state.answer[i] \in answers}
      again == IF state.retries < MaxRetries THEN Answered({"busy"}) ELSE {} IN
  IF Answered({"unauthorized"}) # {} /\ ~state.refreshed
  THEN [state EXCEPT !.pc = "refreshing", !.pending = Answered({"unauthorized", "busy"})]
  ELSE IF again = {} THEN End(state, "done")
  ELSE Repeat([state EXCEPT !.pending = again])

\* A batch that was not: a fence that stops it looks like a lost request.
ConcludeBatch(state) ==
  IF state.outcome = "ok" THEN ConcludeItems(state)
  ELSE ConcludeRead([state EXCEPT !.outcome = IF @ = "stopped" THEN "network" ELSE @])

\* postJson tells a refusal from an unknown outcome, a batch of moves does not.
ConcludeMutation(state) ==
  {End(state, pc) : pc \in IF state.outcome = "ok" THEN {"done"}
                           ELSE IF state.outcome \in {"stopped", "network"} THEN {"uncertain"}
                           ELSE {"failed", "uncertain"}}

Conclude(state) ==
  CASE state.kind = "mutation" -> ConcludeMutation(state)
    [] state.kind = "batch" -> {ConcludeBatch(state)}
    [] OTHER -> {ConcludeRead(state)}

-----------------------------------------------------------------------------

\* A unit claims its job's lease before it loads the connection.
Begin(c) ==
  /\ AtCall(c, "idle") /\ call[c].kind # "nothing"
  /\ SetCall(c, [call[c] EXCEPT !.pc = "loading",
                                !.lease = IF call[c].kind \in CleanupKinds THEN "live" ELSE "none"])
  /\ UNCHANGED <<credentials, slot, scan, leaving, around>>

\* The rest of a step of the caller: what the call makes of its result.
Proceed(c, served) ==
  SetCall(c, CASE caller'[c].pc = "served" -> served
               [] caller'[c].pc = "refused" -> End(call[c], "failed")
               [] caller'[c].pc = "idle" -> Dead(call[c])
               [] OTHER -> call[c])

Load(c) ==
  /\ AtCall(c, "loading")
  /\ IF caller[c].pc = "idle" THEN Ask(c, Purpose(c)) ELSE Refresh(c)
  /\ Proceed(c, IF call[c].kind = "imap" THEN End(call[c], "done")
                ELSE Start([call[c] EXCEPT !.session = conn.session]))
  /\ UNCHANGED <<slot, scan, leaving, around>>

\* forceRefreshMicrosoftConnection after a 401; in a batch it counts as a try.
RefreshUnauthorized(c) ==
  /\ AtCall(c, "refreshing")
  /\ IF caller[c].pc = "served" THEN Ask(c, "force") ELSE Refresh(c)
  /\ Proceed(c, Start([call[c] EXCEPT !.refreshed = TRUE,
                                      !.retries = IF call[c].kind = "batch" THEN @ + 1 ELSE @]))
  /\ UNCHANGED <<slot, scan, leaving, around>>

Fence(c) ==
  /\ AtCall(c, "fencing")
  /\ IF Authorized(c) THEN GotoCall(c, "choosing")
     ELSE \E state \in Conclude([call[c] EXCEPT !.outcome = "stopped"]) : SetCall(c, state)
  /\ UNCHANGED <<credentials, slot, scan, leaving, around>>

\* No slot was free: the fence of a scan, a pause and another round, up to a limit.
NextRound(c) ==
  IF call[c].kind = "scan" /\ ~Authorized(c)
  THEN Conclude([call[c] EXCEPT !.outcome = "stopped"])
  ELSE IF call[c].rounds + 1 < MaxRounds
  THEN {[Start(call[c]) EXCEPT !.rounds = call[c].rounds + 1]}
  ELSE Conclude([call[c] EXCEPT !.outcome = "network"])

Choose(c) ==
  /\ AtCall(c, "choosing")
  /\ LET s == call[c].slot IN
     IF slot[s].owner = NoOwner \/ ~slot[s].live
     THEN slot' = [slot EXCEPT ![s] = [owner |-> c, live |-> TRUE]] /\ GotoCall(c, "guarding")
     ELSE /\ slot' = slot
          /\ IF s + 1 \in Slots THEN SetCall(c, [call[c] EXCEPT !.slot = s + 1])
             ELSE \E state \in NextRound(c) : SetCall(c, state)
  /\ UNCHANGED <<credentials, scan, leaving, around>>

Guard(c) ==
  /\ AtCall(c, "guarding")
  /\ SetCall(c, IF Authorized(c) THEN [call[c] EXCEPT !.pc = "sending"]
                ELSE [call[c] EXCEPT !.pc = "giving", !.outcome = "stopped"])
  /\ UNCHANGED <<credentials, slot, scan, leaving, around>>

Send(c) ==
  /\ AtCall(c, "sending")
  /\ SetCall(c, [call[c] EXCEPT !.pc = "answering", !.sent = @ + 1,
                                !.late = IF Revoked(c) THEN @ + 1 ELSE @])
  /\ UNCHANGED <<credentials, slot, scan, leaving, around>>

Answer(c) ==
  /\ AtCall(c, "answering")
  /\ \E outcome \in Answers \cup {"network"} :
       \E answers \in IF call[c].kind = "batch" /\ outcome = "ok"
                      THEN [call[c].pending -> Answers] ELSE {<<>>} :
         SetCall(c, [call[c] EXCEPT !.pc = "giving", !.outcome = outcome,
                                    !.answer = [i \in Items |-> IF i \in DOMAIN answers THEN answers[i] ELSE @[i]]])
  /\ UNCHANGED <<credentials, slot, scan, leaving, around>>

\* Mutant: the slot is given back whoever holds it by now.
GiveAny(c) ==
  /\ AtCall(c, "giving")
  /\ slot' = [slot EXCEPT ![call[c].slot] = [owner |-> NoOwner, live |-> FALSE]]
  /\ \E state \in Conclude(call[c]) : SetCall(c, state)
  /\ UNCHANGED <<credentials, scan, leaving, around>>

\* The slot goes back if it is still the call's own.
Give(c) ==
  /\ AtCall(c, "giving")
  /\ LET s == call[c].slot IN
     slot' = IF slot[s].owner = c THEN [slot EXCEPT ![s] = [owner |-> NoOwner, live |-> FALSE]] ELSE slot
  /\ \E state \in Conclude(call[c]) : SetCall(c, state)
  /\ UNCHANGED <<credentials, scan, leaving, around>>

\* The process ends in the middle of a request.
CallDies(c) ==
  /\ call[c].pc \in {"sending", "answering", "giving"} /\ "death" \in around /\ Event
  /\ LET s == call[c].slot IN
     slot' = IF slot[s].owner = c THEN [slot EXCEPT ![s].owner = Orphan] ELSE slot
  /\ SetCall(c, Dead(call[c]))
  /\ UNCHANGED <<conn, issued, caller, scan, leaving, around>>

Step(c) ==
  \/ Begin(c) \/ Load(c) \/ RefreshUnauthorized(c) \/ Fence(c) \/ Choose(c) \/ Guard(c)
  \/ Send(c) \/ Answer(c) \/ Give(c) \/ CallDies(c)

-----------------------------------------------------------------------------
(* The user, and time.                                                      *)

\* 60 seconds pass.
SlotLapses(s) ==
  /\ slot[s].owner # NoOwner /\ slot[s].live /\ "lapse" \in around /\ Event
  /\ slot' = [slot EXCEPT ![s].live = FALSE]
  /\ call' = [c \in Callers |-> IF slot[s].owner = c THEN [call[c] EXCEPT !.overdue = TRUE] ELSE call[c]]
  /\ UNCHANGED <<conn, issued, caller, scan, leaving, around>>

UnitLeaseLapses(c) ==
  /\ call[c].lease = "live" /\ "lapse" \in around /\ Event
  /\ SetCall(c, [call[c] EXCEPT !.lease = "lapsed"])
  /\ UNCHANGED <<conn, issued, caller, slot, scan, leaving, around>>

\* Mutant: the switch does not look for work in progress.
SwitchAtOnce ==
  /\ "switch" \in around /\ Event /\ NewSession
  /\ UNCHANGED <<caller, access>>

\* switchLinkedInbox: from another inbox to this one, unless a unit is at work.
Switch ==
  /\ \A c \in Callers : call[c].lease # "live"
  /\ "switch" \in around /\ Event /\ NewSession
  /\ UNCHANGED <<caller, access>>

\* disconnectCurrentProviderSession: the connection first ...
StartDisconnect ==
  /\ "disconnect" \in around /\ Disconnect
  /\ leaving' = TRUE
  /\ UNCHANGED <<call, slot, scan, around>>

\* ... then the scan, unless the statements before it failed.
EndDisconnect ==
  /\ leaving /\ leaving' = FALSE
  /\ scan' = FALSE
  /\ UNCHANGED <<credentials, call, slot, around>>

DisconnectFails ==
  /\ leaving /\ leaving' = FALSE /\ Event
  /\ UNCHANGED <<conn, issued, caller, call, slot, scan, around>>

ConnectionChanges ==
  /\ \/ "consent" \in around /\ (Connect \/ ApproveImap)
     \/ Activate
     \/ "expiry" \in around /\ \E k \in Kinds : Expire(k)
     \/ RefreshLeaseLapses
  /\ UNCHANGED access

Surroundings ==
  \/ (\E s \in Slots : SlotLapses(s)) \/ (\E c \in Callers : UnitLeaseLapses(c))
  \/ Switch \/ StartDisconnect \/ EndDisconnect \/ DisconnectFails \/ ConnectionChanges

Next == (\E c \in Callers : Step(c)) \/ Surroundings

Spec == Init /\ [][Next]_vars

-----------------------------------------------------------------------------

\* Is there anything whose end stops the call? A unit that loaded a connection between
\* its consent and its session is of no session, and the fence compares that null too.
HasWork(c) == call[c].kind = "scan" \/ call[c].session # 0

\* Once its scan was cancelled or its session ended, a call sends at most the
\* request whose fence had passed by then, whatever it repeats or refreshes and
\* whoever connects again (provider-work-fence.ts:12, :31).
StoppedCallsFallSilent == \A c \in Callers : HasWork(c) => call[c].late <= 1

\* A call at work in a slot has the slot for itself until its lease runs out: a
\* late return of another call never frees it (provider-request-coordinator.ts:64).
SlotsAreHeld ==
  \A c \in Callers :
    call[c].pc \in {"guarding", "sending", "answering"} /\ ~call[c].overdue =>
      slot[call[c].slot] = [owner |-> c, live |-> TRUE]

\* A mutation is sent once and a read a bounded number of times, refreshes
\* included (graph-client.ts:226, :166, :279).
SentWithinBounds ==
  \A c \in Callers : call[c].sent <= IF call[c].kind = "mutation" THEN 1 ELSE MaxRetries + 2

\* The provider is asked within its bounds: as many calls at once as there are slots, and each call as
\* often as its kind allows.
RequestsAreBounded == SlotsAreHeld /\ SentWithinBounds

\* A switch to this inbox does not end a cleanup unit that holds its lease: under
\* it the session only ends with the connection (linked-inboxes.ts:90).
SwitchSparesUnits ==
  [][\A c \in Callers :
       call[c].lease = "live" /\ call[c].session # 0 /\ call[c].session = conn.session
         => conn'.session \in {conn.session, 0}]_vars
=============================================================================
