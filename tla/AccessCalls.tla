---------------------------- MODULE AccessCalls ----------------------------
(***************************************************************************)
(* The inductive invariant of ProviderAccess: what the state of a call says   *)
(* of the requests it has sent, of the slot it works in and of the work it    *)
(* is done for.                                                             *)
(***************************************************************************)
EXTENDS ProviderAccess

Before == {"idle", "loading"}
Unsent == Before \cup {"fencing", "choosing", "guarding", "sending"}
Sent == {"answering", "giving", "refreshing"}
InSlot == {"guarding", "sending", "answering"}

One(condition) == IF condition THEN 1 ELSE 0

\* The repetitions a call has used up; the refresh of a batch is one of them.
Spent(state) == IF state.kind = "batch" THEN state.retries ELSE state.retries + One(state.refreshed)

Bound(state) == IF state.kind = "mutation" THEN 1 ELSE MaxRetries + 2

\* Each request but the first was paid for by a repetition or by the one refresh.
Paid(state) ==
  /\ state.sent <= Bound(state)
  /\ state.pc \notin Ended => state.sent <= Spent(state) + One(state.pc \in Sent)
  /\ state.retries <= MaxRetries + One(state.kind = "batch" /\ state.refreshed)
  /\ state.pc = "refreshing" => ~state.refreshed /\ state.kind # "mutation"
  /\ state.pc \in Unsent /\ state.kind = "mutation" => state.sent = 0

\* A call starts with nothing, and has a result to give back with its slot.
Fits(state) ==
  /\ state.pc \in Before => state.sent = 0 /\ state.late = 0 /\ state.session = 0
  /\ state.pc = "giving" => state.outcome # "none"

CallsFit == \A c \in Callers : Paid(call[c]) /\ Fits(call[c])

\* No session has a number yet to be given out.
SessionsGiven == conn.session <= issued.session /\ \A c \in Callers : call[c].session <= issued.session

\* A request after the end of its work is the last: its fence will not pass again.
LateIsLast(c) ==
  HasWork(c) /\ call[c].late # 0 =>
    call[c].late = 1 /\ Revoked(c) /\ call[c].pc \notin Before \cup {"sending"}

CallsInv == TypeOK /\ CallsFit /\ SessionsGiven /\ SlotsAreHeld /\ \A c \in Callers : LateIsLast(c)
=============================================================================
