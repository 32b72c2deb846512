----------------------------- MODULE DevProofs -----------------------------
(***************************************************************************)
(* The development cleanup for any jobs, messages, selections and faults:   *)
(* the proof that DevInv is inductive, and what follows from it.            *)
(***************************************************************************)
EXTENDS DevRecord, FiniteSetTheorems, TLAPS

-----------------------------------------------------------------------------
(* Records.                                                                 *)

\* Object spread: what the patch has, the rest from the record.
LEMMA PatchedIs ==
  ASSUME NEW b, NEW patch, NEW d, DOMAIN d = DOMAIN b, d = [f \in DOMAIN b |-> d[f]],
         \A f \in DOMAIN b : d[f] = IF f \in DOMAIN patch THEN patch[f] ELSE b[f]
  PROVE  Patched(b, patch) = d
BY DEF Patched

LEMMA StatusPatch ==
  ASSUME NEW b \in Jobs, NEW s \in Statuses
  PROVE  /\ Patched(b, [status |-> s]) = [b EXCEPT !.status = s]
         /\ Patched(b, [status |-> s]) \in Jobs
BY DEF Patched, Jobs

LEMMA ProofPatch ==
  ASSUME NEW b \in Jobs, NEW p \in {"none", "running", "failed", "success"}
  PROVE  /\ Patched(b, [proof |-> p]) = [b EXCEPT !.proof = p]
         /\ Patched(b, [proof |-> p]) \in Jobs
BY DEF Patched, Jobs

LEMMA StartPatch ==
  ASSUME NEW b \in Jobs, NEW v1 \in BOOLEAN, NEW v2 \in Nat
  PROVE  LET r == Patched(b, [started |-> v1, attempted |-> v2])
         IN r = [b EXCEPT !.started = v1, !.attempted = v2] /\ r \in Jobs
<1> DEFINE p == [started |-> v1, attempted |-> v2]
           d == [b EXCEPT !.started = v1, !.attempted = v2]
<1>1. DOMAIN p = {"started", "attempted"} /\ p["started"] = v1 /\ p["attempted"] = v2
  OBVIOUS
<1>2. {"started", "attempted"} \subseteq DOMAIN b
  BY DEF Jobs
<1>3. DOMAIN d = DOMAIN b /\ d = [f \in DOMAIN b |-> d[f]]
  BY <1>2
<1>4. \A f \in DOMAIN b : d[f] = IF f = "attempted" THEN v2 ELSE IF f = "started" THEN v1 ELSE b[f]
  BY <1>2
<1>5. d \in Jobs
  BY DEF Jobs
<1> HIDE DEF p, d
<1>6. \A f \in DOMAIN b : d[f] = IF f \in DOMAIN p THEN p[f] ELSE b[f]
  BY <1>1, <1>4
<1>7. Patched(b, p) = d
  BY <1>3, <1>6, PatchedIs
<1> QED BY <1>5, <1>7 DEF p, d

LEMMA LessPatch ==
  ASSUME NEW b \in Jobs, NEW v1 \in Statuses, NEW v2 \in Nat, NEW v3 \in SUBSET Letters
  PROVE  LET r == Patched(b, [status |-> v1, resolved |-> v2, picks |-> v3])
         IN r = [b EXCEPT !.status = v1, !.resolved = v2, !.picks = v3] /\ r \in Jobs
<1> DEFINE p == [status |-> v1, resolved |-> v2, picks |-> v3]
           d == [b EXCEPT !.status = v1, !.resolved = v2, !.picks = v3]
<1>1. DOMAIN p = {"status", "resolved", "picks"} /\ p["status"] = v1 /\ p["resolved"] = v2 /\ p["picks"] = v3
  OBVIOUS
<1>2. {"status", "resolved", "picks"} \subseteq DOMAIN b
  BY DEF Jobs
<1>3. DOMAIN d = DOMAIN b /\ d = [f \in DOMAIN b |-> d[f]]
  BY <1>2
<1>4. \A f \in DOMAIN b : d[f] = IF f = "picks" THEN v3 ELSE IF f = "resolved" THEN v2 ELSE IF f = "status" THEN v1 ELSE b[f]
  BY <1>2
<1>5. d \in Jobs
  BY DEF Jobs
<1> HIDE DEF p, d
<1>6. \A f \in DOMAIN b : d[f] = IF f \in DOMAIN p THEN p[f] ELSE b[f]
  BY <1>1, <1>4
<1>7. Patched(b, p) = d
  BY <1>3, <1>6, PatchedIs
<1> QED BY <1>5, <1>7 DEF p, d

LEMMA VerifiedPatch ==
  ASSUME NEW b \in Jobs, NEW v1 \in Statuses, NEW v2 \in Tallies, NEW v3 \in [Groups -> Nat]
  PROVE  LET r == Patched(b, [status |-> v1, tally |-> v2, moved |-> v3])
         IN r = [b EXCEPT !.status = v1, !.tally = v2, !.moved = v3] /\ r \in Jobs
<1> DEFINE p == [status |-> v1, tally |-> v2, moved |-> v3]
           d == [b EXCEPT !.status = v1, !.tally = v2, !.moved = v3]
<1>1. DOMAIN p = {"status", "tally", "moved"} /\ p["status"] = v1 /\ p["tally"] = v2 /\ p["moved"] = v3
  OBVIOUS
<1>2. {"status", "tally", "moved"} \subseteq DOMAIN b
  BY DEF Jobs
<1>3. DOMAIN d = DOMAIN b /\ d = [f \in DOMAIN b |-> d[f]]
  BY <1>2
<1>4. \A f \in DOMAIN b : d[f] = IF f = "moved" THEN v3 ELSE IF f = "tally" THEN v2 ELSE IF f = "status" THEN v1 ELSE b[f]
  BY <1>2
<1>5. d \in Jobs
  BY DEF Jobs
<1> HIDE DEF p, d
<1>6. \A f \in DOMAIN b : d[f] = IF f \in DOMAIN p THEN p[f] ELSE b[f]
  BY <1>1, <1>4
<1>7. Patched(b, p) = d
  BY <1>3, <1>6, PatchedIs
<1> QED BY <1>5, <1>7 DEF p, d

LEMMA UndoPatch ==
  ASSUME NEW b \in Jobs, NEW v1 \in Statuses, NEW v2 \in Tallies, NEW v3 \in [Groups -> Nat]
  PROVE  LET r == Patched(b, [status |-> v1, undo |-> v2, restored |-> v3])
         IN r = [b EXCEPT !.status = v1, !.undo = v2, !.restored = v3] /\ r \in Jobs
<1> DEFINE p == [status |-> v1, undo |-> v2, restored |-> v3]
           d == [b EXCEPT !.status = v1, !.undo = v2, !.restored = v3]
<1>1. DOMAIN p = {"status", "undo", "restored"} /\ p["status"] = v1 /\ p["undo"] = v2 /\ p["restored"] = v3
  OBVIOUS
<1>2. {"status", "undo", "restored"} \subseteq DOMAIN b
  BY DEF Jobs
<1>3. DOMAIN d = DOMAIN b /\ d = [f \in DOMAIN b |-> d[f]]
  BY <1>2
<1>4. \A f \in DOMAIN b : d[f] = IF f = "restored" THEN v3 ELSE IF f = "undo" THEN v2 ELSE IF f = "status" THEN v1 ELSE b[f]
  BY <1>2
<1>5. d \in Jobs
  BY DEF Jobs
<1> HIDE DEF p, d
<1>6. \A f \in DOMAIN b : d[f] = IF f \in DOMAIN p THEN p[f] ELSE b[f]
  BY <1>1, <1>4
<1>7. Patched(b, p) = d
  BY <1>3, <1>6, PatchedIs
<1> QED BY <1>5, <1>7 DEF p, d

Results == {"none", "running", "failed", "success"}

LEMMA ProofEndPatch ==
  ASSUME NEW b \in Jobs, NEW v1 \in Results, NEW v2 \in [Groups -> Nat]
  PROVE  LET r == Patched(b, [proof |-> v1, restored |-> v2])
         IN r = [b EXCEPT !.proof = v1, !.restored = v2] /\ r \in Jobs
<1> DEFINE p == [proof |-> v1, restored |-> v2]
           d == [b EXCEPT !.proof = v1, !.restored = v2]
<1>1. DOMAIN p = {"proof", "restored"} /\ p["proof"] = v1 /\ p["restored"] = v2
  OBVIOUS
<1>2. {"proof", "restored"} \subseteq DOMAIN b
  BY DEF Jobs
<1>3. DOMAIN d = DOMAIN b /\ d = [f \in DOMAIN b |-> d[f]]
  BY <1>2
<1>4. \A f \in DOMAIN b : d[f] = IF f = "restored" THEN v2 ELSE IF f = "proof" THEN v1 ELSE b[f]
  BY <1>2
<1>5. d \in Jobs
  BY DEF Jobs, Results
<1> HIDE DEF p, d
<1>6. \A f \in DOMAIN b : d[f] = IF f \in DOMAIN p THEN p[f] ELSE b[f]
  BY <1>1, <1>4
<1>7. Patched(b, p) = d
  BY <1>3, <1>6, PatchedIs
<1> QED BY <1>5, <1>7 DEF p, d

LEMMA ProvedPatch ==
  ASSUME NEW b \in Jobs, NEW v1 \in Statuses, NEW v2 \in [Groups -> Nat], NEW v3 \in Tallies, NEW v4 \in Results
  PROVE  LET r == Patched(b, [status |-> v1, restored |-> v2, undo |-> v3, proof |-> v4])
         IN r = [b EXCEPT !.status = v1, !.restored = v2, !.undo = v3, !.proof = v4] /\ r \in Jobs
<1> DEFINE p == [status |-> v1, restored |-> v2, undo |-> v3, proof |-> v4]
           d == [b EXCEPT !.status = v1, !.restored = v2, !.undo = v3, !.proof = v4]
<1>1. DOMAIN p = {"status", "restored", "undo", "proof"} /\ p["status"] = v1 /\ p["restored"] = v2 /\ p["undo"] = v3 /\ p["proof"] = v4
  OBVIOUS
<1>2. {"status", "restored", "undo", "proof"} \subseteq DOMAIN b
  BY DEF Jobs
<1>3. DOMAIN d = DOMAIN b /\ d = [f \in DOMAIN b |-> d[f]]
  BY <1>2
<1>4. \A f \in DOMAIN b : d[f] = IF f = "proof" THEN v4 ELSE IF f = "undo" THEN v3 ELSE IF f = "restored" THEN v2 ELSE IF f = "status" THEN v1 ELSE b[f]
  BY <1>2
<1>5. d \in Jobs
  BY DEF Jobs, Results
<1> HIDE DEF p, d
<1>6. \A f \in DOMAIN b : d[f] = IF f \in DOMAIN p THEN p[f] ELSE b[f]
  BY <1>1, <1>4
<1>7. Patched(b, p) = d
  BY <1>3, <1>6, PatchedIs
<1> QED BY <1>5, <1>7 DEF p, d
-----------------------------------------------------------------------------
(* Counts.                                                                  *)

LEMMA LettersCount ==
  ASSUME NEW S, S \subseteq Letters
  PROVE  IsFiniteSet(S) /\ Cardinality(S) \in Nat
BY DevAssumption, FS_Subset, FS_CardinalityType

LEMMA EmptyCount == Cardinality({}) = 0
BY FS_EmptySet

\* A part as large as the whole is the whole.
LEMMA SameSize ==
  ASSUME NEW T, T \subseteq Letters, NEW S, S \subseteq T, Cardinality(S) = Cardinality(T)
  PROVE  S = T
BY LettersCount, FS_Subset

LEMMA ThreeParts ==
  ASSUME NEW A, NEW B, NEW C, A \cup B \cup C \subseteq Letters, A \cap (B \cup C) = {}, B \cap C = {}
  PROVE  Cardinality(A \cup B \cup C) = Cardinality(A) + Cardinality(B) + Cardinality(C)
<1>1. IsFiniteSet(A) /\ IsFiniteSet(B) /\ IsFiniteSet(C) /\ IsFiniteSet(B \cup C) /\ IsFiniteSet(A \cup (B \cup C))
  BY LettersCount
<1>2. /\ Cardinality(A) \in Nat /\ Cardinality(B) \in Nat /\ Cardinality(C) \in Nat /\ Cardinality(B \cup C) \in Nat
      /\ Cardinality(A \cup (B \cup C)) \in Nat
  BY <1>1, FS_CardinalityType
<1>3. Cardinality(B \cup C) = Cardinality(B) + Cardinality(C) - Cardinality(B \cap C)
  BY <1>1, FS_Union
<1>4. Cardinality(A \cup (B \cup C)) = Cardinality(A) + Cardinality(B \cup C) - Cardinality(A \cap (B \cup C))
  BY <1>1, FS_Union
<1>5. Cardinality(B \cap C) = 0 /\ Cardinality(A \cap (B \cup C)) = 0
  BY EmptyCount
<1>6. Cardinality(A \cup (B \cup C)) = Cardinality(A) + Cardinality(B) + Cardinality(C)
  BY <1>2, <1>3, <1>4, <1>5
<1>7. A \cup B \cup C = A \cup (B \cup C)
  OBVIOUS
<1> QED BY <1>6, <1>7

LEMMA ByGroupType ==
  ASSUME NEW S, S \subseteq Letters
  PROVE  ByGroup(S) \in [Groups -> Nat]
<1>1. \A g \in Groups : Cardinality({m \in S : SenderOf[m] = g}) \in Nat
  BY LettersCount
<1> QED BY <1>1 DEF ByGroup

LEMMA NothingByGroup == ByGroup({}) = NoDelta
<1>1. \A g : {m \in {} : SenderOf[m] = g} = {}
  OBVIOUS
<1> QED BY <1>1, EmptyCount DEF ByGroup, NoDelta

LEMMA SmallerOf ==
  ASSUME NEW a \in Nat, NEW b \in Nat
  PROVE  Min({a, b}) \in Nat /\ Min({a, b}) <= a
<1>1. \E x \in {a, b} : \A y \in {a, b} : x <= y
  BY a <= b \/ b <= a
<1> QED BY <1>1 DEF Min

\* No group has more restored than moved.
LEMMA RestoredBounded ==
  ASSUME NEW job \in Jobs, NEW S, S \subseteq Letters
  PROVE  Restored(job, S) \in [Groups -> Nat] /\ \A g \in Groups : Restored(job, S)[g] <= job.moved[g]
<1>1. PICK more : more = ByGroup(S)
  OBVIOUS
<1>2. \A g \in Groups : job.moved[g] \in Nat /\ job.restored[g] + more[g] \in Nat
  BY <1>1, ByGroupType DEF Jobs
<1>3. Restored(job, S) = [g \in Groups |-> Min({job.moved[g], job.restored[g] + more[g]})]
  BY <1>1 DEF Restored
<1> QED BY <1>2, <1>3, SmallerOf

LEMMA TallyType ==
  ASSUME NEW kind, NEW o \in Operations(kind)
  PROVE  Tally(o) \in Tallies
BY LettersCount DEF Tally, Tallies, Operations

LEMMA NoTallyType == NoTally \in Tallies /\ NoDelta \in [Groups -> Nat]
BY DEF NoTally, Tallies, NoDelta
-----------------------------------------------------------------------------
(* Steps that concern one job.                                              *)

LEMMA JobNumbers ==
  /\ Cardinality(DevJobs) \in Nat
  /\ \A j \in DevJobs : j \in Nat
  /\ \A n \in Nat : n < Cardinality(DevJobs) => n + 1 \in DevJobs
<1>1. Cardinality(DevJobs) \in Nat
  BY DevAssumption, FS_CardinalityType
<1>2. PICK n \in Nat : n = Cardinality(DevJobs)
  BY <1>1
<1>3. DevJobs = 1..n
  BY <1>2, DevAssumption
<1>4. \A j \in 1..n : j \in Nat
  OBVIOUS
<1>5. \A i \in Nat : i < n => i + 1 \in 1..n
  OBVIOUS
<1> QED BY <1>2, <1>3, <1>4, <1>5

LEMMA KeyFacts ==
  /\ Resolution \in Keys
  /\ \A k \in Kinds, j \in DevJobs : <<k, j>> \in Keys /\ <<k, j>> # Resolution
BY DEF Keys, Kinds, Resolution

LEMMA Entered ==
  ASSUME DOMAIN op = Keys, NEW k \in Kinds, NEW j \in DevJobs, NEW r, Enter(<<k, j>>, r)
  PROVE  /\ DOMAIN op' = Keys /\ op'[<<k, j>>] = r /\ op'[Resolution] = op[Resolution]
         /\ \A l \in Kinds, i \in DevJobs : l # k \/ i # j => op'[<<l, i>>] = op[<<l, i>>]
<1>1. <<k, j>> \in Keys /\ <<k, j>> # Resolution /\ Resolution \in Keys
  BY KeyFacts
<1>2. op' = [op EXCEPT ![<<k, j>>] = r]
  BY DEF Enter
<1>3. ASSUME NEW l \in Kinds, NEW i \in DevJobs, l # k \/ i # j PROVE op'[<<l, i>>] = op[<<l, i>>]
  <2>1. <<l, i>> # <<k, j>> /\ <<l, i>> \in Keys
    BY <1>3, KeyFacts
  <2> QED BY <1>2, <2>1
<1> QED BY <1>1, <1>2, <1>3

LEMMA Left ==
  ASSUME DOMAIN op = Keys, NEW k \in Kinds, NEW j \in DevJobs, Leave(<<k, j>>)
  PROVE  /\ DOMAIN op' = Keys /\ op'[<<k, j>>] = NoOp /\ op'[Resolution] = op[Resolution]
         /\ \A l \in Kinds, i \in DevJobs : l # k \/ i # j => op'[<<l, i>>] = op[<<l, i>>]
BY Entered, ZenonT(40) DEF Enter, Leave

\* Nothing of a job changes.
Untouched(i) ==
  /\ jobs'[i] = jobs[i] /\ witness'[i] = witness[i] /\ (Posted(i) <=> Posted(i)')
  /\ \A k \in Kinds : op'[<<k, i>>] = op[<<k, i>>]

AllFit(j) == JobFits(j) /\ TrashFits(j) /\ UndoFits(j) /\ ProofFits(j)

LEMMA CopyUntouched ==
  ASSUME NEW i, NEW b, Untouched(i), CopyFits(i, b)
  PROVE  CopyFits(i, b)'
BY DEF Untouched, CopyFits, RecordFits, AnswersFit, Moved, Busy, Kinds

LEMMA HarmlessUntouched ==
  ASSUME NEW i, Untouched(i), Harmless(i)
  PROVE  Harmless(i)'
BY DEF Untouched, Harmless, Moved, Busy

LEMMA JobUntouched ==
  ASSUME NEW i \in DevJobs, Untouched(i), JobFits(i), i > made' => i > made, around'.faults = around.faults
  PROVE  JobFits(i)'
<1>1. PICK b : b = jobs[i]
  OBVIOUS
<1>2. /\ RecordFits(i, b) => RecordFits(i, b)'
      /\ Moved(i) /\ ~Busy("trash", i) /\ AnswersFit(i, b) => AnswersFit(i, b)'
      /\ (Moved(i) <=> Moved(i)') /\ (Busy("trash", i) <=> Busy("trash", i)')
  BY DEF Untouched, RecordFits, AnswersFit, Moved, Busy, Kinds
<1>3. jobs'[i] = b
  BY <1>1 DEF Untouched
<1>4. (jobs[i] # NoJob => RecordFits(i, jobs[i]) /\ (Moved(i) /\ ~Busy("trash", i) => AnswersFit(i, jobs[i])))'
  BY <1>1, <1>2, <1>3 DEF JobFits
<1>5. InHand(i)'
  BY DEF JobFits, InHand, Untouched, Busy, Kinds
<1>6. (Harmless(i) => Harmless(i)') /\ (witness[i].dropped => Harmless(i)) /\ witness'[i] = witness[i]
  BY HarmlessUntouched DEF JobFits, Untouched
<1>7. (i > made => jobs[i] = NoJob /\ witness[i] = Unasked /\ Harmless(i))'
  BY <1>6 DEF JobFits, Untouched
<1>8. (~Moved(i) => witness[i].in = {})' /\ (witness[i].dropped => Harmless(i))'
  BY <1>6 DEF JobFits, Moved
<1> QED BY <1>5, <1>4, <1>7, <1>8 DEF JobFits

LEMMA TrashUntouched ==
  ASSUME NEW i \in DevJobs, Untouched(i), TrashFits(i)
  PROVE  TrashFits(i)'
<1>1. PICK o : o = op[<<"trash", i>>]
  OBVIOUS
<1>2. op'[<<"trash", i>>] = o
  BY <1>1 DEF Untouched, Kinds
<1>3. RecordFits(i, o.job) => RecordFits(i, o.job)'
  BY DEF Untouched, RecordFits, Moved
<1> QED BY <1>1, <1>2, <1>3 DEF TrashFits, Untouched, Moved, Busy, Kinds

LEMMA UndoUntouched ==
  ASSUME NEW i \in DevJobs, Untouched(i), UndoFits(i)
  PROVE  UndoFits(i)'
<1>1. PICK o : o = op[<<"undo", i>>]
  OBVIOUS
<1>2. op'[<<"undo", i>>] = o
  BY <1>1 DEF Untouched, Kinds
<1>3. CopyFits(i, o.job) => CopyFits(i, o.job)'
  BY CopyUntouched
<1> QED BY <1>1, <1>2, <1>3 DEF UndoFits, Untouched

LEMMA ProofUntouched ==
  ASSUME NEW i \in DevJobs, Untouched(i), ProofFits(i)
  PROVE  ProofFits(i)'
<1>1. PICK o : o = op[<<"proof", i>>]
  OBVIOUS
<1>2. op'[<<"proof", i>>] = o
  BY <1>1 DEF Untouched, Kinds
<1>3. CopyFits(i, o.job) => CopyFits(i, o.job)'
  BY CopyUntouched
<1> QED BY <1>1, <1>2, <1>3 DEF ProofFits

LEMMA AllUntouched ==
  ASSUME NEW i \in DevJobs, Untouched(i), AllFit(i), i > made' => i > made, around'.faults = around.faults
  PROVE  AllFit(i)'
BY JobUntouched, TrashUntouched, UndoUntouched, ProofUntouched DEF AllFit

\* The copy of a benchmark fits a job as long as that is not moved.
LEMMA UnmovedRecord ==
  ASSUME NEW i, NEW b, RecordFits(i, b), ~Moved(i), (~Moved(i))'
  PROVE  RecordFits(i, b)'
BY DEF RecordFits, Moved

LEMMA ResolutionUntouched ==
  ASSUME ResolutionFits, op'[Resolution] = op[Resolution], made' = made,
         \A i \in DevJobs : Harmless(i) => Harmless(i)'
  PROVE  ResolutionFits'
<1>1. PICK o : o = op[Resolution]
  OBVIOUS
<1>2. ASSUME o.pc = "benchmark" PROVE Harmless(o.id)' /\ RecordFits(o.id, o.job)'
  <2>1. o.id \in DevJobs /\ Harmless(o.id) /\ RecordFits(o.id, o.job)
    BY <1>1, <1>2 DEF ResolutionFits
  <2>2. Harmless(o.id)' /\ ~Moved(o.id) /\ (~Moved(o.id))'
    BY <2>1 DEF Harmless
  <2>3. PICK i \in DevJobs : i = o.id
    BY <2>1
  <2>4. PICK b : b = o.job
    OBVIOUS
  <2> QED BY <2>1, <2>2, <2>3, <2>4, UnmovedRecord
<1> QED BY <1>1, <1>2 DEF ResolutionFits

LEMMA LocalStep ==
  ASSUME DevInv, NEW j \in DevJobs,
         Shapes', Surroundings', MailFits', around'.faults = around.faults, UNCHANGED <<made, posts>>,
         op'[Resolution] = op[Resolution], \A i \in DevJobs : i # j => Untouched(i),
         Harmless(j) => Harmless(j)', \A b : CopyFits(j, b) => CopyFits(j, b)', AllFit(j)'
  PROVE  DevInv'
<1>1. \A i \in DevJobs : AllFit(i)'
  <2>1. SUFFICES ASSUME NEW i \in DevJobs, i # j PROVE AllFit(i)'
    OBVIOUS
  <2>2. AllFit(i) /\ Untouched(i) /\ made' = made
    BY <2>1 DEF DevInv, AllFit
  <2> QED BY <2>2, AllUntouched
<1>2. ResolutionFits'
  <2>1. ASSUME NEW i \in DevJobs, Harmless(i) PROVE Harmless(i)'
    BY <2>1, HarmlessUntouched
  <2> QED BY <2>1, ResolutionUntouched DEF DevInv
<1>3. PostsFit'
  <2>1. ASSUME NEW i \in DevJobs, NEW b, CopyFits(i, b) PROVE CopyFits(i, b)'
    BY <2>1, CopyUntouched
  <2>2. PICK p : p = posts
    OBVIOUS
  <2>3. posts' = p
    BY <2>2
  <2>4. \A q \in 1..2 : p[q] # NoJob => p[q].id \in DevJobs /\ CopyFits(p[q].id, p[q].job)
    BY <2>2 DEF DevInv, PostsFit
  <2>5. \A q \in 1..2 : p[q] # NoJob => CopyFits(p[q].id, p[q].job)'
    BY <2>1, <2>4
  <2> QED BY <2>2, <2>3, <2>4, <2>5 DEF DevInv, PostsFit
<1> QED BY <1>1, <1>2, <1>3 DEF DevInv, AllFit

\* Only one operation and one job are written.
LEMMA OthersUntouched ==
  ASSUME Shapes, NEW j \in DevJobs, NEW k \in Kinds, NEW r, UNCHANGED <<made, posts>>,
         op' = [op EXCEPT ![<<k, j>>] = r],
         \A i \in DevJobs : i # j => jobs'[i] = jobs[i] /\ witness'[i] = witness[i],
         DOMAIN jobs' = DevJobs, witness' \in [DevJobs -> Witnesses]
  PROVE  /\ Shapes' /\ op'[Resolution] = op[Resolution] /\ \A i \in DevJobs : i # j => Untouched(i)
         /\ op'[<<k, j>>] = r /\ \A l \in Kinds : l # k => op'[<<l, j>>] = op[<<l, j>>]
         /\ Posted(j) <=> Posted(j)'
<1>1. /\ DOMAIN op' = Keys /\ op'[<<k, j>>] = r /\ op'[Resolution] = op[Resolution]
      /\ \A l \in Kinds, i \in DevJobs : l # k \/ i # j => op'[<<l, i>>] = op[<<l, i>>]
  <2>1. Enter(<<k, j>>, r) /\ DOMAIN op = Keys
    BY DEF Enter, Shapes
  <2> QED BY <2>1, Entered
<1>2. \A i \in DevJobs : Posted(i) <=> Posted(i)'
  BY DEF Posted
<1>3. \A i \in DevJobs : i # j => Untouched(i)
  BY <1>1, <1>2 DEF Untouched
<1>4. Shapes'
  BY <1>1 DEF Shapes
<1> QED BY <1>1, <1>2, <1>3, <1>4

\* An operation that is under way goes on.
LEMMA OperationStep ==
  ASSUME DevInv, NEW j \in DevJobs, NEW k \in Kinds, NEW r, Busy(k, j), UNCHANGED <<made, posts>>,
         op' = [op EXCEPT ![<<k, j>>] = r],
         \A i \in DevJobs : i # j => jobs'[i] = jobs[i] /\ witness'[i] = witness[i],
         DOMAIN jobs' = DevJobs, witness' \in [DevJobs -> Witnesses],
         Surroundings', MailFits', around'.faults = around.faults,
         \A b : CopyFits(j, b) => CopyFits(j, b)', AllFit(j)'
  PROVE  DevInv'
<1>1. Shapes
  BY DEF DevInv
<1>2. ~Harmless(j)
  BY DEF Harmless
<1> QED BY <1>1, <1>2, OthersUntouched, LocalStep

-----------------------------------------------------------------------------
(* Faults, requests to Gmail and what is known of a moved job.              *)

LEMMA FaultsFit ==
  ASSUME Surroundings, Free \/ Costs(1), report' = report
  PROVE  Surroundings' /\ around'.faults = around.faults /\ around'.jobs = around.jobs
BY DEF Surroundings, Free, Costs

LEMMA ReadsFit ==
  ASSUME Surroundings, NEW m, NEW reading, Reads(m, reading), report' = report
  PROVE  Surroundings' /\ around'.faults = around.faults
BY FaultsFit DEF Reads

LEMMA ContextFits ==
  ASSUME Surroundings, NEW good, ContextReads(good), report' = report
  PROVE  Surroundings' /\ around'.faults = around.faults
BY FaultsFit DEF ContextReads

LEMMA ConnectionFits ==
  ASSUME Surroundings, NEW good, ConnectionReads(good), report' = report
  PROVE  Surroundings' /\ around'.faults = around.faults
BY FaultsFit DEF ConnectionReads

\* What is starred stays starred or goes to Trash as starred.
LEMMA PutFits ==
  ASSUME Shapes, MailFits, NEW L, NEW change \in {ToTrash, OutOfTrash}, mail' \in {mail, Put(L, change)},
         \A j \in DevJobs : witness'[j].shield = witness[j].shield
  PROVE  MailFits'
<1>1. mail' \in [Letters -> Places] /\ \A m \in Letters : mail[m] \in {"kept", "binned"} => mail'[m] \in {"kept", "binned"}
  <2>1. CASE mail' = mail
    BY <2>1 DEF MailFits
  <2>2. CASE mail' = Put(L, ToTrash)
    BY <2>2 DEF MailFits, Put, ToTrash, Places
  <2>3. CASE mail' = Put(L, OutOfTrash)
    BY <2>3 DEF MailFits, Put, OutOfTrash, Places
  <2> QED BY <2>1, <2>2, <2>3
<1>2. ASSUME NEW j \in DevJobs, NEW m \in witness'[j].shield PROVE mail'[m] \in {"kept", "binned"}
  <2>1. mail[m] \in {"kept", "binned"}
    BY <1>2 DEF MailFits
  <2>2. m \in Letters
    BY <1>2 DEF Shapes, Witnesses
  <2> QED BY <1>1, <2>1, <2>2
<1> QED BY <1>1, <1>2 DEF MailFits

\* More messages are read outside Trash; nothing else is learnt of the job.
Ages(j) ==
  /\ witness'[j].batches = witness[j].batches /\ witness'[j].letters = witness[j].letters
  /\ witness'[j].in = witness[j].in /\ witness[j].out \subseteq witness'[j].out
  /\ op'[<<"trash", j>>] = op[<<"trash", j>>]

LEMMA RecordAges ==
  ASSUME NEW j, NEW b, Ages(j)
  PROVE  /\ RecordFits(j, b) => RecordFits(j, b)'
         /\ AnswersFit(j, b) => AnswersFit(j, b)'
         /\ CopyFits(j, b) => CopyFits(j, b)'
BY DEF RecordFits, AnswersFit, CopyFits, Moved, Busy, Ages

\* An operation on a job whose messages are in Trash goes on, and may write the job.
LEMMA AfterStep ==
  ASSUME DevInv, NEW j \in DevJobs, NEW k \in {"undo", "proof"}, NEW r, Busy(k, j), UNCHANGED <<made, posts>>,
         op' = [op EXCEPT ![<<k, j>>] = r],
         \A i \in DevJobs : i # j => jobs'[i] = jobs[i] /\ witness'[i] = witness[i],
         DOMAIN jobs' = DevJobs, witness' \in [DevJobs -> Witnesses],
         Surroundings', MailFits', around'.faults = around.faults,
         Ages(j), witness'[j].dropped = witness[j].dropped,
         (jobs[j] # NoJob => RecordFits(j, jobs[j]) /\ AnswersFit(j, jobs[j]) /\ InHand(j))',
         k = "undo" => UndoFits(j)',
         k = "proof" => ProofFits(j)' /\ (jobs'[j] = jobs[j] \/ jobs'[j].proof # "none")
  PROVE  DevInv'
<1>1. UndoFits(j) /\ ProofFits(j) /\ JobFits(j) /\ Shapes
  BY DEF DevInv
<1>2. PICK c : CopyFits(j, c)
  BY <1>1 DEF UndoFits, ProofFits, Busy
<1>3. Moved(j) /\ ~Busy("trash", j) /\ j <= made /\ ~witness[j].dropped
  <2>1. Moved(j) /\ ~Busy("trash", j)
    BY <1>2 DEF CopyFits
  <2>2. witness[j] # Unasked /\ ~Harmless(j)
    BY <2>1 DEF Moved, Unasked, Harmless
  <2> QED BY <1>1, <2>1, <2>2, JobNumbers DEF JobFits, Shapes
<1>4. TrashFits(j)' /\ Moved(j)' /\ (~Busy("trash", j))'
  BY <1>3 DEF TrashFits, Busy, Moved, Ages
<1>5. JobFits(j)'
  <2>1. (j <= made /\ ~witness[j].dropped)' /\ made \in Nat /\ j \in Nat
    BY <1>1, <1>3, JobNumbers DEF Shapes
  <2>2. (j > made => jobs[j] = NoJob /\ witness[j] = Unasked /\ Harmless(j))'
    BY <2>1
  <2>3. InHand(j)'
    BY DEF InHand
  <2> QED BY <1>4, <2>1, <2>2, <2>3 DEF JobFits
<1>6. /\ \A l \in Kinds : l # k => op'[<<l, j>>] = op[<<l, j>>]
  BY <1>1, OthersUntouched DEF Kinds
<1>7. CASE k = "undo"
  <2>1. ProofFits(j)'
    <3>1. PICK o : o = op[<<"proof", j>>]
      OBVIOUS
    <3>2. op'[<<"proof", j>>] = o
      BY <1>6, <1>7, <3>1 DEF Kinds
    <3>3. CopyFits(j, o.job) => CopyFits(j, o.job)'
      BY RecordAges
    <3> QED BY <1>1, <3>1, <3>2, <3>3 DEF ProofFits
  <2>2. AllFit(j)'
    BY <1>4, <1>5, <1>7, <2>1 DEF AllFit
  <2> QED BY <1>7, <2>2, RecordAges, OperationStep DEF Kinds
<1>8. CASE k = "proof"
  <2>1. UndoFits(j)'
    <3>1. PICK o : o = op[<<"undo", j>>]
      OBVIOUS
    <3>2. op'[<<"undo", j>>] = o
      BY <1>6, <1>8, <3>1 DEF Kinds
    <3>3. CopyFits(j, o.job) => CopyFits(j, o.job)'
      BY RecordAges
    <3> QED BY <1>1, <1>8, <3>1, <3>2, <3>3 DEF UndoFits, Ages
  <2>2. AllFit(j)'
    BY <1>4, <1>5, <1>8, <2>1 DEF AllFit
  <2> QED BY <1>8, <2>2, RecordAges, OperationStep DEF Kinds
<1> QED BY <1>7, <1>8

-----------------------------------------------------------------------------
(* Undo.                                                                    *)

\* What an update is applied to.
Base(j, copy) == IF jobs[j] = NoJob THEN copy ELSE jobs[j]

LEMMA BaseFits ==
  ASSUME DevInv, NEW j \in DevJobs, NEW c, CopyFits(j, c), NEW B, B = Base(j, c)
  PROVE  /\ B \in Jobs /\ RecordFits(j, B) /\ AnswersFit(j, B) /\ B.picks = c.picks /\ B.moved = c.moved
         /\ B.proof = "running" => Busy("proof", j)
         /\ \A patch : Updated(j, c, patch) = Patched(B, patch)
         /\ c \in Jobs /\ c.picks \subseteq witness[j].in /\ Moved(j)
<1>1. JobFits(j)
  BY DEF DevInv
<1>2. RecordFits(j, B) /\ AnswersFit(j, B) /\ (B.proof = "running" => Busy("proof", j))
  BY <1>1 DEF JobFits, CopyFits, InHand, Base
<1>3. B.picks = c.picks /\ B.moved = c.moved
  BY <1>2 DEF CopyFits, RecordFits, AnswersFit
<1>4. \A patch : Updated(j, c, patch) = Patched(B, patch)
  BY DEF Updated, Base
<1> QED BY <1>2, <1>3, <1>4 DEF CopyFits, RecordFits, AnswersFit

\* A job in Trash is written: its consent and its answers stay.
LEMMA MovedRecord ==
  ASSUME NEW j, NEW B, NEW b \in Jobs, RecordFits(j, B), AnswersFit(j, B), Moved(j),
         b.picks = B.picks, b.resolved = B.resolved, b.attempted = B.attempted, b.started = B.started,
         b.bench = B.bench, b.tally = B.tally, b.moved = B.moved,
         b.status \notin {"ready", "insufficient", "benchmark_complete"},
         b.status = "completed" => B.picks \subseteq witness[j].in,
         b.status = "undone" => B.picks \subseteq witness[j].out \/ b.proof # "none",
         \A g \in Groups : b.restored[g] <= b.moved[g]
  PROVE  RecordFits(j, b) /\ AnswersFit(j, b)
BY DEF RecordFits, AnswersFit

\* What an Undo goes on with.
Continues(j, r, job) ==
  r # NoOp =>
    /\ r \in Operations("undo") /\ r.job = job /\ r.todo \subseteq Letters
    /\ r.pc \in {"begin", "context"} => r.yes = {} /\ r.already = {}
    /\ r.pc = "reread" => job.proof # "none"
    /\ r.pc \in {"untrash", "fallback"} =>
         r.yes \subseteq witness[j].out /\ (r.already \subseteq witness[j].out \/ job.proof # "none")

\* Gmail's answer, if any, is that some messages are out of Trash.
Answered(j) == witness' = witness \/ \E L \in SUBSET Letters : Saw(j, "out", L)

LEMMA AnsweredFits ==
  ASSUME Shapes, NEW j \in DevJobs, Answered(j)
  PROVE  /\ witness' \in [DevJobs -> Witnesses] /\ \A i \in DevJobs : i # j => witness'[i] = witness[i]
         /\ witness'[j].batches = witness[j].batches /\ witness'[j].letters = witness[j].letters
         /\ witness'[j].in = witness[j].in /\ witness[j].out \subseteq witness'[j].out
         /\ witness'[j].dropped = witness[j].dropped /\ witness'[j].shield = witness[j].shield
         /\ \A L \in SUBSET Letters : Saw(j, "out", L) => L \subseteq witness'[j].out
<1>1. CASE witness' = witness
  <2>1. \A L \in SUBSET Letters : Saw(j, "out", L) => L \subseteq witness'[j].out
    BY <1>1 DEF Saw, Shapes, Witnesses
  <2> QED BY <1>1, <2>1 DEF Shapes
<1>2. CASE \E L \in SUBSET Letters : Saw(j, "out", L)
  BY <1>2 DEF Saw, Shapes, Witnesses
<1> QED BY <1>1, <1>2 DEF Answered

LEMMA UndoStep ==
  ASSUME DevInv, NEW j \in DevJobs, NEW o, o = op[<<"undo", j>>], o # NoOp, NEW r,
         op' = [op EXCEPT ![<<"undo", j>>] = r], UNCHANGED <<made, posts>>,
         Surroundings', around'.faults = around.faults, Answered(j),
         \E L : mail' \in {mail, Put(L, OutOfTrash)},
         Continues(j, r, o.job)',
         \/ jobs' = jobs /\ r # NoOp
         \/ \E b : /\ jobs' = [jobs EXCEPT ![j] = b] /\ RecordFits(j, b)' /\ AnswersFit(j, b)'
                   /\ b.status = "undoing" => r # NoOp
                   /\ b.status # "running" /\ b.proof = Base(j, o.job).proof
  PROVE  DevInv'
<1>1. UndoFits(j) /\ JobFits(j) /\ Shapes /\ MailFits
  BY DEF DevInv
<1>2. CopyFits(j, o.job) /\ (o.job.proof # "none" /\ jobs[j] # NoJob => jobs[j].proof # "none")
  BY <1>1 DEF UndoFits
<1>3. /\ op'[<<"undo", j>>] = r /\ \A l \in Kinds : l # "undo" => op'[<<l, j>>] = op[<<l, j>>]
  <2>1. "undo" \in Kinds
    BY DEF Kinds
  <2>2. Enter(<<"undo", j>>, r) /\ DOMAIN op = Keys
    BY <1>1 DEF Enter, Shapes
  <2> QED BY <2>1, <2>2, Entered
<1>4. Ages(j)
  BY <1>1, <1>3, AnsweredFits DEF Ages, Kinds
<1>5. PICK b : /\ jobs'[j] = b /\ DOMAIN jobs' = DevJobs /\ \A i \in DevJobs : i # j => jobs'[i] = jobs[i]
               /\ b # NoJob => /\ RecordFits(j, b)' /\ AnswersFit(j, b)' /\ b.proof = Base(j, o.job).proof
                               /\ b.status = "running" => jobs[j] # NoJob /\ jobs[j].status = "running"
                               /\ b.status = "undoing" => r # NoOp
  <2>1. CASE jobs' = jobs /\ r # NoOp
    <3>1. PICK b : b = jobs[j]
      OBVIOUS
    <3>2. DOMAIN jobs' = DevJobs /\ jobs'[j] = b
      BY <1>1, <2>1, <3>1 DEF Shapes
    <3>3. b = NoJob \/ (RecordFits(j, b) /\ AnswersFit(j, b))
      BY <1>1, <1>2, <3>1 DEF JobFits, CopyFits
    <3>4. b = NoJob \/ (RecordFits(j, b)' /\ AnswersFit(j, b)')
      BY <1>4, <3>3, RecordAges
    <3> QED BY <2>1, <3>1, <3>2, <3>4 DEF Base
  <2>2. ASSUME NEW b, jobs' = [jobs EXCEPT ![j] = b] PROVE jobs'[j] = b /\ DOMAIN jobs' = DevJobs /\ \A i \in DevJobs : i # j => jobs'[i] = jobs[i]
    BY <1>1, <2>2 DEF Shapes
  <2> QED BY <2>1, <2>2
<1>6. b # NoJob => (b.proof = "running" => Busy("proof", j)) /\ (o.job.proof # "none" => b.proof # "none")
  BY <1>1, <1>2, <1>5 DEF Base, JobFits, InHand, CopyFits
<1>7. (jobs[j] # NoJob => RecordFits(j, jobs[j]) /\ AnswersFit(j, jobs[j]) /\ InHand(j))'
  <2>1. (jobs[j] # NoJob => RecordFits(j, jobs[j]) /\ AnswersFit(j, jobs[j]))'
    BY <1>5
  <2>2. InHand(j)'
    BY <1>1, <1>3, <1>5, <1>6 DEF InHand, Busy, Kinds, JobFits
  <2> QED BY <2>1, <2>2
<1>8. UndoFits(j)'
  <2>1. PICK c : c = o.job
    OBVIOUS
  <2>2. CopyFits(j, c)'
    BY <1>2, <1>4, <2>1, RecordAges
  <2> QED BY <1>3, <1>5, <1>6, <2>1, <2>2 DEF UndoFits, Continues
<1>9. MailFits'
  <2>1. \A i \in DevJobs : witness'[i].shield = witness[i].shield
    BY <1>1, AnsweredFits
  <2> QED BY <1>1, <2>1, PutFits
<1> QED BY <1>1, <1>4, <1>5, <1>7, <1>8, <1>9, AnsweredFits, AfterStep, ZenonT(40) DEF Busy

LEMMA FiledFits ==
  ASSUME NEW kind, NEW o \in Operations(kind), NEW m \in Letters, NEW file, NEW f, f = Filed(o, m, file)
  PROVE  /\ f \in Operations(kind) /\ f.job = o.job /\ f.pc = o.pc /\ f.todo = o.todo \ {m}
         /\ f.already = o.already
<1>1. CASE file = "yes"
  BY <1>1 DEF Filed, Operations
<1>2. CASE file = "no"
  BY <1>2 DEF Filed, Operations
<1>3. CASE file = "unsure"
  BY <1>3 DEF Filed, Operations
<1>4. CASE file \notin {"yes", "no", "unsure"}
  BY <1>4 DEF Filed, Operations
<1> QED BY <1>1, <1>2, <1>3, <1>4

LEMMA FiledUnder ==
  ASSUME NEW kind, NEW o \in Operations(kind), NEW m \in Letters, NEW file, NEW f, f = Filed(o, m, file)
  PROVE  /\ f.yes = o.yes \cup {x \in {m} : file = "yes"}
         /\ f.no = o.no \cup {x \in {m} : file = "no"}
         /\ f.unsure = o.unsure \cup {x \in {m} : file = "unsure"}
<1>1. CASE file = "yes"
  BY <1>1 DEF Filed, Operations
<1>2. CASE file = "no"
  BY <1>2 DEF Filed, Operations
<1>3. CASE file = "unsure"
  BY <1>3 DEF Filed, Operations
<1>4. CASE file \notin {"yes", "no", "unsure"}
  BY <1>4 DEF Filed, Operations
<1> QED BY <1>1, <1>2, <1>3, <1>4

LEMMA StartedFits ==
  ASSUME NEW kind \in Kinds, NEW job \in Jobs
  PROVE  /\ Started(job) \in Operations(kind) /\ Started(job) # NoOp
         /\ Started(job).pc = "begin" /\ Started(job).job = job /\ Started(job).todo = {}
         /\ Started(job).yes = {} /\ Started(job).no = {} /\ Started(job).unsure = {} /\ Started(job).late = {}
         /\ Started(job).already = {} /\ Started(job).hazy = {}
BY DEF Started, Operations, Phases, Early, NoOp, Kinds

LEMMA RestorationFits ==
  ASSUME NEW o \in Operations("undo"), NEW B \in Jobs, B.moved = o.job.moved
  PROVE  LET b == Patched(B, Restoration(o))
             back == o.already \cup o.yes
         IN /\ b \in Jobs /\ b.status \in {"undone", "undo_failed", "undo_partial"}
            /\ b.status = "undone" => back = o.job.picks
            /\ \A g \in Groups : b.restored[g] <= b.moved[g]
            /\ b.picks = B.picks /\ b.resolved = B.resolved /\ b.attempted = B.attempted /\ b.started = B.started
            /\ b.bench = B.bench /\ b.tally = B.tally /\ b.moved = B.moved /\ b.proof = B.proof
<1> DEFINE back == o.already \cup o.yes
<1>1. o.job \in Jobs /\ back \subseteq Letters /\ o.hazy \subseteq Letters
  BY DEF Operations
<1>2. PICK t : t = Tally(o)
  OBVIOUS
<1>3. PICK undo : undo = [t EXCEPT !.verified = Cardinality(back), !.uncertain = @ + Cardinality(o.hazy)]
  OBVIOUS
<1>4. undo \in Tallies
  <2>1. t \in Tallies /\ Cardinality(back) \in Nat /\ Cardinality(o.hazy) \in Nat
    BY <1>1, <1>2, TallyType, LettersCount
  <2>2. PICK n \in Nat, h \in Nat : n = Cardinality(back) /\ h = Cardinality(o.hazy)
    BY <2>1
  <2>3. undo = [t EXCEPT !.verified = n, !.uncertain = @ + h]
    BY <1>3, <2>2
  <2>4. t.uncertain + h \in Nat
    BY <2>1 DEF Tallies
  <2> QED BY <2>1, <2>3, <2>4 DEF Tallies
<1>5. PICK restored : restored = Restored(o.job, back)
  OBVIOUS
<1>6. restored \in [Groups -> Nat] /\ \A g \in Groups : restored[g] <= o.job.moved[g]
  BY <1>1, <1>5, RestoredBounded
<1>7. PICK s \in {"undone", "undo_failed", "undo_partial"} :
        Restoration(o) = [status |-> s, undo |-> undo, restored |-> restored] /\ (s = "undone" => back = o.job.picks)
  <2>1. CASE back = o.job.picks
    BY <1>2, <1>3, <1>5, <2>1 DEF Restoration
  <2>2. CASE back # o.job.picks
    BY <1>2, <1>3, <1>5, <2>2 DEF Restoration
  <2> QED BY <2>1, <2>2
<1>8. PICK b : b = Patched(B, [status |-> s, undo |-> undo, restored |-> restored])
  OBVIOUS
<1>9. s \in Statuses
  BY DEF Statuses
<1> HIDE DEF back
<1>10. b = [B EXCEPT !.status = s, !.undo = undo, !.restored = restored] /\ b \in Jobs
  <2>1. LET r == Patched(B, [status |-> s, undo |-> undo, restored |-> restored])
        IN r = [B EXCEPT !.status = s, !.undo = undo, !.restored = restored] /\ r \in Jobs
    BY <1>4, <1>6, <1>9, UndoPatch, Zenon
  <2> QED BY <1>8, <2>1
<1>11. Patched(B, Restoration(o)) = b
  BY <1>7, <1>8
<1>12. /\ b.status = s /\ b.restored = restored
       /\ b.picks = B.picks /\ b.resolved = B.resolved /\ b.attempted = B.attempted /\ b.started = B.started
       /\ b.bench = B.bench /\ b.tally = B.tally /\ b.moved = B.moved /\ b.proof = B.proof
  BY <1>10 DEF Jobs
<1>13. /\ b \in Jobs /\ b.status \in {"undone", "undo_failed", "undo_partial"}
       /\ b.status = "undone" => back = o.job.picks
       /\ \A g \in Groups : b.restored[g] <= b.moved[g]
  BY <1>6, <1>7, <1>10, <1>12
<1> QED BY <1>11, <1>12, <1>13 DEF back

LEMMA UndoGoesOn ==
  ASSUME DevInv, NEW j \in DevJobs, NEW o, o = op[<<"undo", j>>], o # NoOp,
         UNCHANGED <<made, posts>>, Surroundings', around'.faults = around.faults, Answered(j),
         \E L : mail' \in {mail, Put(L, OutOfTrash)},
         NEW next \in Operations("undo"), UndoGoes(j, next), next.job = o.job, next.pc \in {"untrash", "fallback"},
         next.todo \subseteq Letters, next.yes \subseteq witness'[j].out,
         next.already \subseteq witness'[j].out \/ o.job.proof # "none"
  PROVE  DevInv'
<1>1. CopyFits(j, o.job) /\ Shapes
  BY DEF DevInv, UndoFits
<1>2. PICK B : B = Base(j, o.job)
  OBVIOUS
<1>3. /\ B \in Jobs /\ RecordFits(j, B) /\ AnswersFit(j, B) /\ B.picks = o.job.picks /\ B.moved = o.job.moved
      /\ Updated(j, o.job, Restoration(next)) = Patched(B, Restoration(next)) /\ Moved(j)
  BY <1>1, <1>2, BaseFits
<1>4. CASE next.todo = {} /\ next.late = {}
  <2>1. PICK b : b = Patched(B, Restoration(next))
    OBVIOUS
  <2>2. /\ b \in Jobs /\ b.status \in {"undone", "undo_failed", "undo_partial"}
        /\ b.status = "undone" => next.already \cup next.yes = o.job.picks
        /\ \A g \in Groups : b.restored[g] <= b.moved[g]
        /\ b.picks = B.picks /\ b.resolved = B.resolved /\ b.attempted = B.attempted /\ b.started = B.started
        /\ b.bench = B.bench /\ b.tally = B.tally /\ b.moved = B.moved /\ b.proof = B.proof
    BY <1>3, <2>1, RestorationFits
  <2>3. jobs' = [jobs EXCEPT ![j] = b] /\ op' = [op EXCEPT ![<<"undo", j>>] = NoOp]
    BY <1>3, <1>4, <2>1 DEF UndoGoes, Leave, Write
  <2>4. op'[<<"trash", j>>] = op[<<"trash", j>>]
    BY <1>1, <2>3, Entered DEF Enter, Shapes, Kinds
  <2>5. Ages(j)
    BY <1>1, <2>4, AnsweredFits DEF Ages
  <2>6. RecordFits(j, B)' /\ AnswersFit(j, B)' /\ Moved(j)'
    BY <1>3, <2>5, RecordAges DEF Ages, Moved
  <2>7. RecordFits(j, b)'
    BY <2>2, <2>6 DEF RecordFits
  <2>8. b.status = "undone" => B.picks \subseteq witness'[j].out \/ b.proof # "none"
    <3>1. o.job.proof # "none" => B.proof # "none"
      BY <1>2 DEF DevInv, UndoFits, Base
    <3> QED BY <1>3, <2>2, <3>1
  <2>9. AnswersFit(j, b)'
    BY <2>2, <2>6, <2>8 DEF AnswersFit
  <2>10. Continues(j, NoOp, o.job)'
    BY DEF Continues
  <2> QED BY <1>2, <2>2, <2>3, <2>7, <2>9, <2>10, UndoStep
<1>5. CASE ~(next.todo = {} /\ next.late = {})
  <2>1. PICK r : r = IF next.todo = {} THEN [next EXCEPT !.pc = "fallback", !.todo = next.late, !.late = {}] ELSE next
    OBVIOUS
  <2>2. op' = [op EXCEPT ![<<"undo", j>>] = r] /\ jobs' = jobs
    BY <1>5, <2>1 DEF UndoGoes, Enter
  <2>3. /\ r \in Operations("undo") /\ r.job = o.job /\ r.todo \subseteq Letters /\ r.pc \in {"untrash", "fallback"}
        /\ r.yes = next.yes /\ r.already = next.already
    BY <2>1 DEF Operations, Phases
  <2>4. r # NoOp
    BY <2>3 DEF NoOp
  <2>5. Continues(j, r, o.job)'
    BY <2>3 DEF Continues
  <2> QED BY <2>2, <2>4, <2>5, UndoStep
<1> QED BY <1>4, <1>5

LEMMA UndoBeginsFits == ASSUME DevInv, NEW j \in DevJobs, UndoBegins(j) PROVE DevInv'
<1>1. PICK o : o = op[<<"undo", j>>]
  OBVIOUS
<1>2. o # NoOp /\ o.pc = "begin" /\ UndoFits(j) /\ Shapes /\ Surroundings
  BY <1>1 DEF UndoBegins, NoOp, DevInv
<1>3. o \in Operations("undo") /\ o.todo \subseteq Letters /\ CopyFits(j, o.job) /\ o.yes = {} /\ o.already = {}
  BY <1>1, <1>2 DEF UndoFits
<1>4. PICK B : B = Base(j, o.job)
  OBVIOUS
<1>5. /\ B \in Jobs /\ RecordFits(j, B) /\ AnswersFit(j, B) /\ Moved(j)
      /\ Updated(j, o.job, [status |-> "undoing"]) = Patched(B, [status |-> "undoing"])
  BY <1>3, <1>4, BaseFits
<1>6. PICK b : b = Patched(B, [status |-> "undoing"])
  OBVIOUS
<1>7. b = [B EXCEPT !.status = "undoing"] /\ b \in Jobs
  BY <1>5, <1>6, StatusPatch DEF Statuses
<1>8. /\ b.status = "undoing" /\ b.proof = B.proof /\ b.picks = B.picks /\ b.resolved = B.resolved
      /\ b.attempted = B.attempted /\ b.started = B.started
      /\ b.bench = B.bench /\ b.tally = B.tally /\ b.moved = B.moved /\ b.restored = B.restored
  BY <1>5, <1>7 DEF Jobs
<1>9. RecordFits(j, b) /\ AnswersFit(j, b)
  BY <1>5, <1>7, <1>8 DEF RecordFits, AnswersFit
<1>10. PICK r : r = [o EXCEPT !.pc = "context"]
  OBVIOUS
<1>11. jobs' = [jobs EXCEPT ![j] = b] /\ op' = [op EXCEPT ![<<"undo", j>>] = r]
  BY <1>1, <1>5, <1>6, <1>10 DEF UndoBegins, Enter
<1>12. /\ r \in Operations("undo") /\ r.job = o.job /\ r.todo = o.todo /\ r.pc = "context"
       /\ r.yes = {} /\ r.already = {} /\ r # NoOp
  BY <1>3, <1>10 DEF Operations, Phases, NoOp
<1>13. UNCHANGED <<posts, mail, report, made, witness, around>>
  BY DEF UndoBegins
<1>14. Ages(j)
  BY <1>2, <1>11, <1>13, Entered DEF Ages, Enter, Shapes, Kinds
<1>15. RecordFits(j, b)' /\ AnswersFit(j, b)'
  BY <1>9, <1>14, RecordAges
<1>16. Continues(j, r, o.job)'
  BY <1>3, <1>12 DEF Continues
<1>17. Surroundings'
  BY <1>2, <1>13 DEF Surroundings
<1> QED BY <1>1, <1>2, <1>4, <1>8, <1>11, <1>12, <1>13, <1>15, <1>16, <1>17, UndoStep DEF Answered

LEMMA UndoContextFits == ASSUME DevInv, NEW j \in DevJobs, UndoContext(j) PROVE DevInv'
<1>1. PICK o : o = op[<<"undo", j>>]
  OBVIOUS
<1>2. o # NoOp /\ o.pc = "context" /\ UndoFits(j) /\ Shapes /\ Surroundings
  BY <1>1 DEF UndoContext, NoOp, DevInv
<1>3. o \in Operations("undo") /\ o.todo \subseteq Letters /\ CopyFits(j, o.job) /\ o.yes = {} /\ o.already = {}
  BY <1>1, <1>2 DEF UndoFits
<1>4. UNCHANGED <<posts, mail, report, made, witness>>
  BY DEF UndoContext
<1>5. Answered(j) /\ \E L : mail' \in {mail, Put(L, OutOfTrash)}
  BY <1>4 DEF Answered
<1>6. CASE /\ ContextReads(TRUE)
           /\ Enter(<<"undo", j>>, [o EXCEPT !.pc = IF o.job.proof = "failed" THEN "reread" ELSE "untrash",
                                             !.todo = o.job.picks])
           /\ UNCHANGED jobs
  <2>1. PICK p \in {"reread", "untrash"} : p = IF o.job.proof = "failed" THEN "reread" ELSE "untrash"
    OBVIOUS
  <2>2. PICK c : c = o.job.picks
    OBVIOUS
  <2>3. PICK r : r = [o EXCEPT !.pc = p, !.todo = c]
    OBVIOUS
  <2>4. op' = [op EXCEPT ![<<"undo", j>>] = r] /\ jobs' = jobs
    BY <1>6, <2>1, <2>2, <2>3 DEF Enter
  <2>5. c \subseteq Letters
    BY <1>3, <2>2 DEF CopyFits, RecordFits, Jobs
  <2>6. r \in Operations("undo") /\ r.job = o.job /\ r.todo = c /\ r.pc = p /\ r.yes = {} /\ r.already = {}
    BY <1>3, <2>3, <2>5 DEF Operations, Phases
  <2>7. p = "reread" => o.job.proof # "none"
    BY <2>1
  <2>8. Continues(j, r, o.job)'
    BY <2>5, <2>6, <2>7 DEF Continues
  <2>9. r # NoOp
    BY <2>6 DEF NoOp
  <2>10. Surroundings' /\ around'.faults = around.faults
    BY <1>2, <1>4, <1>6, ContextFits
  <2> QED BY <1>1, <1>2, <1>4, <1>5, <2>4, <2>8, <2>9, <2>10, UndoStep
<1>7. CASE ContextReads(FALSE) /\ Leave(<<"undo", j>>) /\ Write(j, o.job, [status |-> "completed"])
  <2>1. PICK B : B = Base(j, o.job)
    OBVIOUS
  <2>2. /\ B \in Jobs /\ RecordFits(j, B) /\ AnswersFit(j, B) /\ Moved(j)
        /\ B.picks = o.job.picks /\ o.job.picks \subseteq witness[j].in
        /\ Updated(j, o.job, [status |-> "completed"]) = Patched(B, [status |-> "completed"])
    BY <1>3, <2>1, BaseFits
  <2>3. PICK b : b = Patched(B, [status |-> "completed"])
    OBVIOUS
  <2>4. b = [B EXCEPT !.status = "completed"] /\ b \in Jobs
    BY <2>2, <2>3, StatusPatch DEF Statuses
  <2>5. /\ b.status = "completed" /\ b.proof = B.proof /\ b.picks = B.picks /\ b.resolved = B.resolved
        /\ b.attempted = B.attempted /\ b.started = B.started
        /\ b.bench = B.bench /\ b.tally = B.tally /\ b.moved = B.moved /\ b.restored = B.restored
    BY <2>2, <2>4 DEF Jobs
  <2>6. RecordFits(j, b) /\ AnswersFit(j, b)
    BY <2>2, <2>4, <2>5 DEF RecordFits, AnswersFit
  <2>7. jobs' = [jobs EXCEPT ![j] = b] /\ op' = [op EXCEPT ![<<"undo", j>>] = NoOp]
    BY <1>7, <2>2, <2>3 DEF Write, Leave
  <2>8. Ages(j)
    BY <1>2, <1>4, <2>7, Entered DEF Ages, Enter, Shapes, Kinds
  <2>9. RecordFits(j, b)' /\ AnswersFit(j, b)'
    BY <2>6, <2>8, RecordAges
  <2>10. Continues(j, NoOp, o.job)'
    BY DEF Continues
  <2>11. Surroundings' /\ around'.faults = around.faults
    BY <1>2, <1>4, <1>7, ContextFits
  <2> QED BY <1>1, <1>2, <1>4, <1>5, <2>1, <2>5, <2>7, <2>9, <2>10, <2>11, UndoStep
<1> QED BY <1>1, <1>6, <1>7 DEF UndoContext

\* A message that is read is one of those to be read.
LEMMA FirstIsOne == \A S, m : m \in FirstOf(S, 1) => m \in S
BY DEF FirstOf

LEMMA UndoRereadFits == ASSUME DevInv, NEW j \in DevJobs, UndoReread(j) PROVE DevInv'
<1>1. PICK o : o = op[<<"undo", j>>]
  OBVIOUS
<1>2. o # NoOp /\ o.pc = "reread" /\ UndoFits(j) /\ Shapes /\ Surroundings
  BY <1>1 DEF UndoReread, NoOp, DevInv
<1>3. o \in Operations("undo") /\ o.todo \subseteq Letters /\ CopyFits(j, o.job) /\ o.job.proof # "none"
  BY <1>1, <1>2 DEF UndoFits
<1>4. PICK m \in FirstOf(o.todo, 1), reading \in {"in", "out", "refused", "unclear"} :
        /\ Reads(m, reading)
        /\ IF reading = "out" THEN Saw(j, "out", {m}) ELSE UNCHANGED witness
        /\ IF Filed(o, m, InTrash(reading)).todo = {}
           THEN UndoGoes(j, [Started(o.job) EXCEPT !.pc = "untrash", !.todo = Filed(o, m, InTrash(reading)).yes,
                                                   !.already = Filed(o, m, InTrash(reading)).no,
                                                   !.hazy = Filed(o, m, InTrash(reading)).unsure])
           ELSE Enter(<<"undo", j>>, Filed(o, m, InTrash(reading))) /\ UNCHANGED jobs
  BY <1>1 DEF UndoReread
<1>5. PICK next : next = Filed(o, m, InTrash(reading))
  OBVIOUS
<1>6. m \in Letters
  BY <1>3, <1>4, FirstIsOne
<1>7. next \in Operations("undo") /\ next.job = o.job /\ next.pc = "reread" /\ next.todo \subseteq Letters
  <2>1. next \in Operations("undo") /\ next.job = o.job /\ next.pc = o.pc /\ next.todo = o.todo \ {m}
    BY <1>3, <1>5, <1>6, FiledFits, FiledUnder
  <2> QED BY <1>2, <1>3, <2>1
<1>8. UNCHANGED <<posts, mail, report, made>>
  BY DEF UndoReread
<1>9. Answered(j) /\ \E L : mail' \in {mail, Put(L, OutOfTrash)}
  BY <1>4, <1>6, <1>8 DEF Answered
<1>10. Surroundings' /\ around'.faults = around.faults
  BY <1>2, <1>4, <1>8, ReadsFit
<1>11. CASE next.todo = {}
  <2>1. PICK job : job = o.job
    OBVIOUS
  <2>2. PICK y, n, u : y = next.yes /\ n = next.no /\ u = next.unsure
    OBVIOUS
  <2>3. PICK s : s = Started(job)
    OBVIOUS
  <2>4. s \in Operations("undo") /\ s.job = job /\ s.yes = {}
    <3>1. job \in Jobs /\ "undo" \in Kinds
      BY <1>3, <2>1 DEF Operations, Kinds
    <3> QED BY <2>3, <3>1, StartedFits
  <2>5. PICK r : r = [s EXCEPT !.pc = "untrash", !.todo = y, !.already = n, !.hazy = u]
    OBVIOUS
  <2>6. UndoGoes(j, r)
    BY <1>4, <1>5, <1>11, <2>1, <2>2, <2>3, <2>5
  <2>7. y \subseteq Letters /\ n \subseteq Letters /\ u \subseteq Letters
    BY <1>7, <2>2 DEF Operations
  <2>8. r \in Operations("undo") /\ r.job = o.job /\ r.pc = "untrash" /\ r.todo \subseteq Letters /\ r.yes = {}
    BY <2>1, <2>4, <2>5, <2>7 DEF Operations, Phases
  <2> QED BY <1>1, <1>2, <1>3, <1>8, <1>9, <1>10, <2>6, <2>8, UndoGoesOn
<1>12. CASE next.todo # {}
  <2>1. op' = [op EXCEPT ![<<"undo", j>>] = next] /\ jobs' = jobs
    BY <1>4, <1>5, <1>12 DEF Enter
  <2>2. next # NoOp
    BY <1>7 DEF NoOp
  <2>3. Continues(j, next, o.job)'
    BY <1>3, <1>7 DEF Continues
  <2> QED BY <1>1, <1>2, <1>8, <1>9, <1>10, <2>1, <2>2, <2>3, UndoStep
<1> QED BY <1>11, <1>12

LEMMA UntrashFits == ASSUME DevInv, NEW j \in DevJobs, Untrash(j) PROVE DevInv'
<1>1. PICK o : o = op[<<"undo", j>>]
  OBVIOUS
<1>2. o # NoOp /\ o.pc = "untrash" /\ UndoFits(j) /\ Shapes /\ Surroundings
  BY <1>1 DEF Untrash, NoOp, DevInv
<1>3. /\ o \in Operations("undo") /\ o.todo \subseteq Letters /\ CopyFits(j, o.job)
      /\ o.yes \subseteq witness[j].out /\ (o.already \subseteq witness[j].out \/ o.job.proof # "none")
  BY <1>1, <1>2 DEF UndoFits
<1>4. PICK m \in FirstOf(o.todo, 1), answer \in {"yes", "no", "unsure", "late"} :
        /\ \/ mail' \in {mail, Put({m}, OutOfTrash)}
        /\ Free \/ Costs(1)
        /\ IF answer = "yes" THEN Saw(j, "out", {m}) ELSE UNCHANGED witness
        /\ UndoGoes(j, Filed(o, m, answer))
  BY <1>1 DEF Untrash
<1>5. PICK next : next = Filed(o, m, answer)
  OBVIOUS
<1>6. m \in Letters
  BY <1>3, <1>4, FirstIsOne
<1>7. /\ next \in Operations("undo") /\ next.job = o.job /\ next.pc = "untrash" /\ next.todo \subseteq Letters
      /\ next.already = o.already /\ next.yes = o.yes \cup {x \in {m} : answer = "yes"}
  <2>1. /\ next \in Operations("undo") /\ next.job = o.job /\ next.pc = o.pc /\ next.todo = o.todo \ {m}
        /\ next.already = o.already /\ next.yes = o.yes \cup {x \in {m} : answer = "yes"}
    BY <1>3, <1>5, <1>6, FiledFits, FiledUnder
  <2> QED BY <1>2, <1>3, <2>1
<1>8. UNCHANGED <<posts, report, made>>
  BY DEF Untrash
<1>9. Answered(j) /\ \E L : mail' \in {mail, Put(L, OutOfTrash)}
  BY <1>4, <1>6, <1>8 DEF Answered
<1>10. Surroundings' /\ around'.faults = around.faults
  BY <1>2, <1>4, <1>8, FaultsFit
<1>11. next.yes \subseteq witness'[j].out /\ (next.already \subseteq witness'[j].out \/ o.job.proof # "none")
  <2>1. witness[j].out \subseteq witness'[j].out /\ (answer = "yes" => {m} \subseteq witness'[j].out)
    BY <1>2, <1>4, <1>6, <1>9, AnsweredFits
  <2> QED BY <1>3, <1>7, <2>1
<1> QED BY <1>1, <1>2, <1>4, <1>5, <1>7, <1>8, <1>9, <1>10, <1>11, UndoGoesOn

LEMMA UndoFallbackFits == ASSUME DevInv, NEW j \in DevJobs, UndoFallback(j) PROVE DevInv'
<1>1. PICK o : o = op[<<"undo", j>>]
  OBVIOUS
<1>2. o # NoOp /\ o.pc = "fallback" /\ UndoFits(j) /\ Shapes /\ Surroundings
  BY <1>1 DEF UndoFallback, NoOp, DevInv
<1>3. /\ o \in Operations("undo") /\ o.todo \subseteq Letters /\ CopyFits(j, o.job)
      /\ o.yes \subseteq witness[j].out /\ (o.already \subseteq witness[j].out \/ o.job.proof # "none")
  BY <1>1, <1>2 DEF UndoFits
<1>4. PICK m \in FirstOf(o.todo, 1), reading \in {"in", "out", "refused", "unclear"} :
        /\ Reads(m, reading)
        /\ IF reading = "out" THEN Saw(j, "out", {m}) ELSE UNCHANGED witness
        /\ UndoGoes(j, Filed(o, m, CASE reading = "out" -> "yes" [] reading = "unclear" -> "unsure" [] OTHER -> "no"))
  BY <1>1 DEF UndoFallback
<1>5. PICK file : file = CASE reading = "out" -> "yes" [] reading = "unclear" -> "unsure" [] OTHER -> "no"
  OBVIOUS
<1>6. PICK next : next = Filed(o, m, file)
  OBVIOUS
<1>7. m \in Letters /\ (file = "yes" => reading = "out")
  BY <1>3, <1>4, <1>5, FirstIsOne
<1>8. /\ next \in Operations("undo") /\ next.job = o.job /\ next.pc = "fallback" /\ next.todo \subseteq Letters
      /\ next.already = o.already /\ next.yes = o.yes \cup {x \in {m} : file = "yes"}
  <2>1. /\ next \in Operations("undo") /\ next.job = o.job /\ next.pc = o.pc /\ next.todo = o.todo \ {m}
        /\ next.already = o.already /\ next.yes = o.yes \cup {x \in {m} : file = "yes"}
    BY <1>3, <1>6, <1>7, FiledFits, FiledUnder
  <2> QED BY <1>2, <1>3, <2>1
<1>9. UNCHANGED <<posts, mail, report, made>>
  BY DEF UndoFallback
<1>10. Answered(j) /\ \E L : mail' \in {mail, Put(L, OutOfTrash)}
  BY <1>4, <1>7, <1>9 DEF Answered
<1>11. Surroundings' /\ around'.faults = around.faults
  BY <1>2, <1>4, <1>9, ReadsFit
<1>12. next.yes \subseteq witness'[j].out /\ (next.already \subseteq witness'[j].out \/ o.job.proof # "none")
  <2>1. witness[j].out \subseteq witness'[j].out /\ (file = "yes" => {m} \subseteq witness'[j].out)
    BY <1>2, <1>4, <1>7, <1>10, AnsweredFits
  <2> QED BY <1>3, <1>8, <2>1
<1>13. UndoGoes(j, next)
  BY <1>4, <1>5, <1>6
<1> QED BY <1>1, <1>2, <1>8, <1>9, <1>10, <1>11, <1>12, <1>13, UndoGoesOn

\* A job that may be undone or proved is one whose messages were all read in Trash.
LEMMA CopyTaken ==
  ASSUME DevInv, NEW j \in DevJobs, jobs[j] # NoJob, FullyMoved(jobs[j]), jobs[j].proof # "running"
  PROVE  CopyFits(j, jobs[j]) /\ ~Harmless(j) /\ j <= made /\ ~witness[j].dropped
<1>1. PICK b : b = jobs[j]
  OBVIOUS
<1>2. JobFits(j) /\ TrashFits(j) /\ Shapes
  BY DEF DevInv
<1>3. b.status = "completed" /\ RecordFits(j, b) /\ b # NoJob
  BY <1>1, <1>2 DEF FullyMoved, JobFits
<1>4. Moved(j)
  BY <1>3 DEF RecordFits, Unmoved
<1>5. ~Busy("trash", j)
  <2>1. SUFFICES ASSUME Busy("trash", j) PROVE FALSE
    OBVIOUS
  <2>2. PICK o : o = op[<<"trash", j>>]
    OBVIOUS
  <2>3. Alike(b, o.job)
    BY <1>1, <1>2, <1>3, <2>1, <2>2 DEF TrashFits, Busy
  <2>4. o.job \in Jobs /\ o.job.status \in {"ready", "running"}
    BY <1>2, <2>1, <2>2 DEF TrashFits, Busy, RecordFits
  <2>5. b.status = o.job.status
    BY <2>3 DEF Alike
  <2> QED BY <1>3, <2>4, <2>5
<1>6. CopyFits(j, b)
  BY <1>1, <1>2, <1>3, <1>4, <1>5 DEF CopyFits, JobFits
<1>7. ~Harmless(j)
  BY <1>4 DEF Harmless
<1>8. j <= made /\ ~witness[j].dropped
  BY <1>2, <1>7, JobNumbers DEF JobFits, Shapes
<1> QED BY <1>1, <1>6, <1>7, <1>8

LEMMA UndoFitsIn == ASSUME DevInv, NEW j \in DevJobs, Undo(j) PROVE DevInv'
<1>1. PICK b : b = jobs[j]
  OBVIOUS
<1>2. PICK s : s = Started(b)
  OBVIOUS
<1>3. /\ b # NoJob /\ FullyMoved(b) /\ b.proof # "running" /\ Enter(<<"undo", j>>, s)
      /\ UNCHANGED <<jobs, posts, mail, report, made, witness, around>>
  BY <1>1, <1>2 DEF Undo, Findable
<1>4. CopyFits(j, b) /\ ~Harmless(j) /\ j <= made /\ ~witness[j].dropped
  BY <1>1, <1>3, CopyTaken
<1>5. b \in Jobs /\ b.status = "completed"
  BY <1>4 DEF CopyFits, RecordFits
<1>6. s \in Operations("undo") /\ s # NoOp /\ s.pc = "begin" /\ s.job = b /\ s.todo = {} /\ s.yes = {} /\ s.already = {}
  <2>1. "undo" \in Kinds
    BY DEF Kinds
  <2> QED BY <1>2, <1>5, <2>1, StartedFits
<1>7. Shapes /\ JobFits(j) /\ TrashFits(j) /\ UndoFits(j) /\ ProofFits(j) /\ Surroundings /\ MailFits
  BY DEF DevInv
<1>8. /\ Shapes' /\ op'[Resolution] = op[Resolution] /\ \A i \in DevJobs : i # j => Untouched(i)
      /\ op'[<<"undo", j>>] = s /\ \A l \in Kinds : l # "undo" => op'[<<l, j>>] = op[<<l, j>>]
      /\ Posted(j) <=> Posted(j)'
  <2>1. "undo" \in Kinds /\ DOMAIN jobs' = DevJobs /\ witness' \in [DevJobs -> Witnesses]
    BY <1>3, <1>7 DEF Kinds, Shapes
  <2>2. op' = [op EXCEPT ![<<"undo", j>>] = s]
    BY <1>3 DEF Enter
  <2> QED BY <1>3, <1>7, <2>1, <2>2, OthersUntouched
<1>9. Ages(j)
  BY <1>3, <1>8 DEF Ages, Kinds
<1>10. \A c : CopyFits(j, c) => CopyFits(j, c)'
  BY <1>9, RecordAges
<1>11. JobFits(j)'
  <2>1. PICK w : w = witness[j]
    OBVIOUS
  <2>2. RecordFits(j, b)' /\ AnswersFit(j, b)' /\ Moved(j)'
    BY <1>4, <1>10 DEF CopyFits
  <2>3. (jobs[j] # NoJob => RecordFits(j, jobs[j]) /\ AnswersFit(j, jobs[j]))'
    BY <1>1, <1>3, <2>2
  <2>4. InHand(j)'
    BY <1>1, <1>3, <1>5 DEF InHand
  <2>5. (j <= made /\ ~witness[j].dropped)' /\ made \in Nat /\ j \in Nat /\ made' = made
    BY <1>3, <1>4, <1>7, JobNumbers DEF Shapes
  <2> QED BY <2>2, <2>3, <2>4, <2>5 DEF JobFits
<1>12. (~Busy("trash", j))'
  BY <1>4, <1>8 DEF CopyFits, Busy, Kinds
<1>13. TrashFits(j)'
  BY <1>12 DEF TrashFits, Busy
<1>14. UndoFits(j)'
  <2>1. CopyFits(j, b)'
    BY <1>4, <1>10
  <2> QED BY <1>1, <1>3, <1>6, <1>8, <2>1 DEF UndoFits
<1>15. ProofFits(j)'
  <2>1. PICK o : o = op[<<"proof", j>>]
    OBVIOUS
  <2>2. op'[<<"proof", j>>] = o
    BY <1>8, <2>1 DEF Kinds
  <2> QED BY <1>7, <1>10, <2>1, <2>2 DEF ProofFits
<1>16. AllFit(j)'
  BY <1>11, <1>13, <1>14, <1>15 DEF AllFit
<1>17. Surroundings' /\ MailFits' /\ around'.faults = around.faults
  BY <1>3, <1>7 DEF Surroundings, MailFits
<1> QED BY <1>3, <1>4, <1>8, <1>10, <1>16, <1>17, LocalStep

-----------------------------------------------------------------------------
(* The bulk Undo proof.                                                     *)

\* What is known of the job's batch stays; the proof may have asked Gmail once more.
Learns(j) ==
  /\ witness' \in [DevJobs -> Witnesses] /\ \A i \in DevJobs : i # j => witness'[i] = witness[i]
  /\ witness'[j].batches = witness[j].batches /\ witness'[j].letters = witness[j].letters
  /\ witness'[j].in = witness[j].in /\ witness[j].out \subseteq witness'[j].out
  /\ witness'[j].dropped = witness[j].dropped /\ witness'[j].shield = witness[j].shield

LEMMA ProofStep ==
  ASSUME DevInv, NEW j \in DevJobs, NEW o, o = op[<<"proof", j>>], o # NoOp, NEW r,
         op' = [op EXCEPT ![<<"proof", j>>] = r], UNCHANGED <<made, posts>>,
         Surroundings', around'.faults = around.faults, Learns(j),
         \E L : mail' \in {mail, Put(L, OutOfTrash)},
         r # NoOp => r \in Operations("proof") /\ r.job = o.job /\ r.todo \subseteq Letters,
         \/ jobs' = jobs /\ r # NoOp
         \/ \E b : /\ jobs' = [jobs EXCEPT ![j] = b] /\ RecordFits(j, b)' /\ AnswersFit(j, b)'
                   /\ b.status \in {Base(j, o.job).status, "undone"}
                   /\ b.proof # "none" /\ (b.proof = "running" => r # NoOp)
  PROVE  DevInv'
<1>1. ProofFits(j) /\ JobFits(j) /\ Shapes /\ MailFits
  BY DEF DevInv
<1>2. CopyFits(j, o.job)
  BY <1>1 DEF ProofFits
<1>3. /\ op'[<<"proof", j>>] = r /\ \A l \in Kinds : l # "proof" => op'[<<l, j>>] = op[<<l, j>>]
  <2>1. "proof" \in Kinds
    BY DEF Kinds
  <2>2. Enter(<<"proof", j>>, r) /\ DOMAIN op = Keys
    BY <1>1 DEF Enter, Shapes
  <2> QED BY <2>1, <2>2, Entered
<1>4. Ages(j)
  BY <1>3 DEF Ages, Kinds, Learns
<1>5. PICK b : /\ jobs'[j] = b /\ DOMAIN jobs' = DevJobs /\ \A i \in DevJobs : i # j => jobs'[i] = jobs[i]
               /\ b # NoJob => /\ RecordFits(j, b)' /\ AnswersFit(j, b)'
                               /\ b.status = "running" => jobs[j] # NoJob /\ jobs[j].status = "running"
                               /\ b.status = "undoing" => jobs[j] # NoJob /\ jobs[j].status = "undoing"
                               /\ b.proof = "running" => r # NoOp
               /\ jobs'[j] = jobs[j] \/ b.proof # "none"
  <2>1. CASE jobs' = jobs /\ r # NoOp
    <3>1. PICK b : b = jobs[j]
      OBVIOUS
    <3>2. DOMAIN jobs' = DevJobs /\ jobs'[j] = b
      BY <1>1, <2>1, <3>1 DEF Shapes
    <3>3. b = NoJob \/ (RecordFits(j, b) /\ AnswersFit(j, b))
      BY <1>1, <1>2, <3>1 DEF JobFits, CopyFits
    <3>4. b = NoJob \/ (RecordFits(j, b)' /\ AnswersFit(j, b)')
      BY <1>4, <3>3, RecordAges
    <3> QED BY <2>1, <3>1, <3>2, <3>4
  <2>2. ASSUME NEW b, jobs' = [jobs EXCEPT ![j] = b], RecordFits(j, b)', AnswersFit(j, b)',
               b.status \in {Base(j, o.job).status, "undone"}, b.proof # "none", b.proof = "running" => r # NoOp
        PROVE  /\ jobs'[j] = b /\ DOMAIN jobs' = DevJobs /\ \A i \in DevJobs : i # j => jobs'[i] = jobs[i]
               /\ b.status = "running" => jobs[j] # NoJob /\ jobs[j].status = "running"
               /\ b.status = "undoing" => jobs[j] # NoJob /\ jobs[j].status = "undoing"
    BY <1>1, <1>2, <2>2 DEF Shapes, Base, CopyFits
  <2> QED BY <2>1, <2>2
<1>6. (jobs[j] # NoJob => RecordFits(j, jobs[j]) /\ AnswersFit(j, jobs[j]) /\ InHand(j))'
  <2>1. (jobs[j] # NoJob => RecordFits(j, jobs[j]) /\ AnswersFit(j, jobs[j]))'
    BY <1>5
  <2>2. InHand(j)'
    BY <1>1, <1>3, <1>5 DEF InHand, Busy, Kinds, JobFits
  <2> QED BY <2>1, <2>2
<1>7. ProofFits(j)'
  <2>1. PICK c : c = o.job
    OBVIOUS
  <2>2. CopyFits(j, c)'
    BY <1>2, <1>4, <2>1, RecordAges
  <2> QED BY <1>3, <2>1, <2>2 DEF ProofFits
<1>8. MailFits'
  <2>1. \A i \in DevJobs : witness'[i].shield = witness[i].shield
    BY DEF Learns
  <2> QED BY <1>1, <2>1, PutFits
<1> QED BY <1>1, <1>4, <1>5, <1>6, <1>7, <1>8, AfterStep DEF Busy, Learns

LEMMA LearnsAnswer ==
  ASSUME Shapes, NEW j \in DevJobs, Answered(j)
  PROVE  Learns(j)
BY AnsweredFits DEF Learns

\* No group has more restored than moved.
Bounded(b) == \A g \in Groups : b.restored[g] <= b.moved[g]

\* A record that a proof writes: other than its result it says what the last one said.
LEMMA ProofWrites ==
  ASSUME DevInv, NEW j \in DevJobs, NEW o, o = op[<<"proof", j>>], o # NoOp, Ages(j),
         NEW B, B = Base(j, o.job), NEW b \in Jobs, b.proof # "none",
         \/ b.status = B.status
         \/ b.status = "undone",
         b.picks = B.picks, b.resolved = B.resolved, b.attempted = B.attempted, b.started = B.started,
         b.bench = B.bench, b.tally = B.tally, b.moved = B.moved, Bounded(b)
  PROVE  RecordFits(j, b)' /\ AnswersFit(j, b)'
<1>1. CopyFits(j, o.job)
  BY DEF DevInv, ProofFits
<1>2. B \in Jobs /\ RecordFits(j, B) /\ AnswersFit(j, B) /\ Moved(j)
  BY <1>1, BaseFits
<1>3. RecordFits(j, b)
  BY <1>2 DEF RecordFits
<1>4. AnswersFit(j, b)
  BY <1>2 DEF AnswersFit, Bounded
<1> QED BY <1>3, <1>4, RecordAges

LEMMA ProofBeginsFits == ASSUME DevInv, NEW j \in DevJobs, ProofBegins(j) PROVE DevInv'
<1>1. PICK o : o = op[<<"proof", j>>]
  OBVIOUS
<1>2. o # NoOp /\ o.pc = "begin" /\ ProofFits(j) /\ Shapes /\ Surroundings
  BY <1>1 DEF ProofBegins, NoOp, DevInv
<1>3. o \in Operations("proof") /\ o.todo \subseteq Letters /\ CopyFits(j, o.job)
  BY <1>1, <1>2 DEF ProofFits
<1>4. UNCHANGED <<posts, mail, report, made, witness, around>>
  BY DEF ProofBegins
<1>5. PICK B : B = Base(j, o.job)
  OBVIOUS
<1>6. /\ B \in Jobs /\ AnswersFit(j, B)
      /\ Updated(j, o.job, [proof |-> "running"]) = Patched(B, [proof |-> "running"])
  BY <1>3, <1>5, BaseFits
<1>7. PICK r : r = [o EXCEPT !.pc = "checkpoint"]
  OBVIOUS
<1>8. r \in Operations("proof") /\ r.job = o.job /\ r.todo = o.todo /\ r # NoOp
  BY <1>3, <1>7 DEF Operations, Phases, NoOp
<1>9. op' = [op EXCEPT ![<<"proof", j>>] = r] /\ jobs' = [jobs EXCEPT ![j] = Patched(B, [proof |-> "running"])]
  BY <1>1, <1>6, <1>7 DEF ProofBegins, Enter, Write
<1>10. Ages(j)
  BY <1>2, <1>4, <1>9, Entered DEF Ages, Enter, Shapes, Kinds
<1>11. PICK b : b = Patched(B, [proof |-> "running"])
  OBVIOUS
<1>12. b = [B EXCEPT !.proof = "running"] /\ b \in Jobs
  BY <1>6, <1>11, ProofPatch
<1>13. /\ b \in Jobs /\ b.proof = "running" /\ b.status = B.status /\ b.picks = B.picks /\ b.resolved = B.resolved
       /\ b.attempted = B.attempted /\ b.started = B.started /\ b.bench = B.bench /\ b.tally = B.tally
       /\ b.moved = B.moved /\ b.restored = B.restored
  BY <1>6, <1>12 DEF Jobs
<1>14. Bounded(b)
  BY <1>6, <1>13 DEF AnswersFit, Bounded
<1>15. RecordFits(j, b)' /\ AnswersFit(j, b)'
  BY <1>1, <1>2, <1>5, <1>10, <1>13, <1>14, ProofWrites, SMTT(30)
<1>16. Learns(j) /\ \E L : mail' \in {mail, Put(L, OutOfTrash)}
  BY <1>2, <1>4, LearnsAnswer DEF Answered
<1>17. Surroundings'
  BY <1>2, <1>4 DEF Surroundings
<1> QED BY <1>1, <1>2, <1>3, <1>4, <1>5, <1>8, <1>9, <1>11, <1>13, <1>15, <1>16, <1>17, ProofStep

\* What every step of a proof starts from.
LEMMA ProofStarts ==
  ASSUME DevInv, NEW j \in DevJobs, NEW o, o = op[<<"proof", j>>], o # NoOp, NEW B, B = Base(j, o.job)
  PROVE  /\ Shapes /\ Surroundings /\ o \in Operations("proof") /\ o.todo \subseteq Letters
         /\ o.job \in Jobs /\ o.job.picks \subseteq Letters /\ o.job.moved = B.moved /\ Bounded(o.job)
         /\ B \in Jobs /\ Bounded(B) /\ \A patch : Updated(j, o.job, patch) = Patched(B, patch)
<1>1. o \in Operations("proof") /\ o.todo \subseteq Letters /\ CopyFits(j, o.job)
  BY DEF DevInv, ProofFits
<1>2. PICK c : c = o.job
  OBVIOUS
<1>3. c \in Jobs /\ AnswersFit(j, c)
  BY <1>1, <1>2 DEF CopyFits, RecordFits
<1>4. B \in Jobs /\ AnswersFit(j, B) /\ B.moved = c.moved /\ \A patch : Updated(j, c, patch) = Patched(B, patch)
  BY <1>1, <1>2, BaseFits
<1>5. c.picks \subseteq Letters
  BY <1>3 DEF Jobs
<1>6. Bounded(c) /\ Bounded(B)
  BY <1>3, <1>4 DEF AnswersFit, Bounded
<1> QED BY <1>1, <1>2, <1>3, <1>4, <1>5, <1>6 DEF DevInv

\* A proof that goes on writes nothing.
LEMMA ProofGoesOn ==
  ASSUME DevInv, NEW j \in DevJobs, NEW o, o = op[<<"proof", j>>], o # NoOp, NEW r,
         Enter(<<"proof", j>>, r), r \in Operations("proof"), r.job = o.job, r.todo \subseteq Letters,
         UNCHANGED <<made, posts, jobs>>, Surroundings', around'.faults = around.faults, Learns(j),
         \E L : mail' \in {mail, Put(L, OutOfTrash)}
  PROVE  DevInv'
<1>1. r # NoOp
  BY DEF Operations, NoOp
<1> QED BY <1>1, ProofStep DEF Enter

\* A proof ends with a result that is written.
LEMMA ProofEnds ==
  ASSUME DevInv, NEW j \in DevJobs, NEW o, o = op[<<"proof", j>>], o # NoOp,
         Leave(<<"proof", j>>), UNCHANGED <<made, posts>>, Surroundings', around'.faults = around.faults, Learns(j),
         \E L : mail' \in {mail, Put(L, OutOfTrash)},
         NEW B, B = Base(j, o.job), NEW b \in Jobs, jobs' = [jobs EXCEPT ![j] = b],
         b.proof # "none", b.proof # "running", b.status = B.status \/ b.status = "undone",
         b.picks = B.picks, b.resolved = B.resolved, b.attempted = B.attempted, b.started = B.started,
         b.bench = B.bench, b.tally = B.tally, b.moved = B.moved, Bounded(b)
  PROVE  DevInv'
<1>1. Shapes
  BY DEF DevInv
<1>2. op' = [op EXCEPT ![<<"proof", j>>] = NoOp]
  BY DEF Leave
<1>3. Ages(j)
  BY <1>1, <1>2, Entered DEF Ages, Enter, Shapes, Kinds, Learns
<1>4. RecordFits(j, b)' /\ AnswersFit(j, b)'
  BY <1>3, ProofWrites
<1> QED BY <1>2, <1>4, ProofStep

LEMMA ProofCheckpointFits == ASSUME DevInv, NEW j \in DevJobs, ProofCheckpoint(j) PROVE DevInv'
<1>1. PICK o : o = op[<<"proof", j>>]
  OBVIOUS
<1>2. o # NoOp /\ o.pc = "checkpoint"
  BY <1>1 DEF ProofCheckpoint, NoOp
<1>3. PICK B : B = Base(j, o.job)
  OBVIOUS
<1>4. /\ Shapes /\ Surroundings /\ o \in Operations("proof") /\ o.job.picks \subseteq Letters
      /\ B \in Jobs /\ Bounded(B) /\ Updated(j, o.job, [proof |-> "failed"]) = Patched(B, [proof |-> "failed"])
  BY <1>1, <1>2, <1>3, ProofStarts
<1>5. UNCHANGED <<posts, mail, report, made, witness>>
  BY DEF ProofCheckpoint
<1>6. Learns(j) /\ \E L : mail' \in {mail, Put(L, OutOfTrash)}
  BY <1>4, <1>5, LearnsAnswer DEF Answered
<1>7. Surroundings' /\ around'.faults = around.faults
  BY <1>4, <1>5, FaultsFit DEF ProofCheckpoint
<1>8. CASE Enter(<<"proof", j>>, [o EXCEPT !.pc = "remove", !.todo = o.job.picks]) /\ UNCHANGED jobs
  <2>1. PICK c : c = o.job.picks
    OBVIOUS
  <2>2. PICK r : r = [o EXCEPT !.pc = "remove", !.todo = c]
    OBVIOUS
  <2>3. r \in Operations("proof") /\ r.job = o.job /\ r.todo \subseteq Letters
    BY <1>4, <2>1, <2>2 DEF Operations, Phases
  <2>4. Enter(<<"proof", j>>, r)
    BY <1>8, <2>1, <2>2
  <2> QED BY <1>1, <1>2, <1>5, <1>6, <1>7, <1>8, <2>3, <2>4, ProofGoesOn
<1>9. CASE Leave(<<"proof", j>>) /\ Write(j, o.job, [proof |-> "failed"])
  <2>1. PICK b : b = Patched(B, [proof |-> "failed"])
    OBVIOUS
  <2>2. b = [B EXCEPT !.proof = "failed"] /\ b \in Jobs
    BY <1>4, <2>1, ProofPatch
  <2>3. /\ b \in Jobs /\ b.proof # "none" /\ b.proof # "running" /\ b.status = B.status
        /\ b.picks = B.picks /\ b.resolved = B.resolved
        /\ b.attempted = B.attempted /\ b.started = B.started /\ b.bench = B.bench /\ b.tally = B.tally
        /\ b.moved = B.moved /\ b.restored = B.restored
    BY <1>4, <2>2 DEF Jobs
  <2>4. Bounded(b)
    BY <1>4, <2>3 DEF Bounded
  <2>5. jobs' = [jobs EXCEPT ![j] = b]
    BY <1>4, <1>9, <2>1 DEF Write
  <2> QED BY <1>1, <1>2, <1>3, <1>5, <1>6, <1>7, <1>9, <2>3, <2>4, <2>5, ProofEnds, ZenonT(60)
<1> QED BY <1>1, <1>8, <1>9 DEF ProofCheckpoint

LEMMA ProofRemoveFits == ASSUME DevInv, NEW j \in DevJobs, ProofRemove(j) PROVE DevInv'
<1>1. PICK o : o = op[<<"proof", j>>]
  OBVIOUS
<1>2. o # NoOp /\ o.pc = "remove"
  BY <1>1 DEF ProofRemove, NoOp
<1>3. PICK B : B = Base(j, o.job)
  OBVIOUS
<1>4. PICK t : t = o.job.restored
  OBVIOUS
<1>5. PICK b : b = Patched(B, [proof |-> "failed", restored |-> t])
  OBVIOUS
<1>6. /\ Shapes /\ Surroundings /\ o \in Operations("proof") /\ o.todo \subseteq Letters
      /\ o.job \in Jobs /\ o.job.moved = B.moved /\ Bounded(o.job) /\ B \in Jobs
      /\ Updated(j, o.job, [proof |-> "failed", restored |-> t]) = b
  BY <1>1, <1>2, <1>3, <1>5, ProofStarts
<1>7. PICK answered \in BOOLEAN :
        /\ Applied(o.todo, OutOfTrash, answered)
        /\ IF answered THEN Enter(<<"proof", j>>, [o EXCEPT !.pc = "check"]) /\ UNCHANGED jobs
           ELSE Leave(<<"proof", j>>) /\ Write(j, o.job, [proof |-> "failed", restored |-> t])
  BY <1>1, <1>4 DEF ProofRemove
<1>8. UNCHANGED <<posts, report, made>> /\ witness' = [witness EXCEPT ![j].removes = @ + 1]
  BY DEF ProofRemove
<1>9. (Free \/ Costs(1)) /\ \E L : mail' \in {mail, Put(L, OutOfTrash)}
  BY <1>7 DEF Applied
<1>10. Learns(j)
  <2>1. \A n \in Nat : n + 1 \in Nat
    OBVIOUS
  <2> QED BY <1>6, <1>8, <2>1 DEF Learns, Shapes, Witnesses
<1>11. Surroundings' /\ around'.faults = around.faults
  BY <1>6, <1>8, <1>9, FaultsFit
<1>12. CASE answered
  <2>1. PICK r : r = [o EXCEPT !.pc = "check"]
    OBVIOUS
  <2>2. r \in Operations("proof") /\ r.job = o.job /\ r.todo \subseteq Letters
    BY <1>6, <2>1 DEF Operations, Phases
  <2>3. Enter(<<"proof", j>>, r) /\ UNCHANGED jobs
    BY <1>7, <1>12, <2>1
  <2> QED BY <1>1, <1>2, <1>8, <1>9, <1>10, <1>11, <2>2, <2>3, ProofGoesOn
<1>13. CASE ~answered
  <2>1. t \in [Groups -> Nat]
    BY <1>4, <1>6 DEF Jobs
  <2>2. b = [B EXCEPT !.proof = "failed", !.restored = t] /\ b \in Jobs
    <3>1. PICK p \in Results : p = "failed"
      BY DEF Results
    <3>2. LET r == Patched(B, [proof |-> p, restored |-> t])
          IN r = [B EXCEPT !.proof = p, !.restored = t] /\ r \in Jobs
      BY <1>6, <2>1, ProofEndPatch, Zenon
    <3> QED BY <1>5, <3>1, <3>2
  <2>3. /\ b \in Jobs /\ b.proof # "none" /\ b.proof # "running" /\ b.status = B.status
        /\ b.picks = B.picks /\ b.resolved = B.resolved
        /\ b.attempted = B.attempted /\ b.started = B.started /\ b.bench = B.bench /\ b.tally = B.tally
        /\ b.moved = B.moved /\ b.restored = t
    BY <1>6, <2>2 DEF Jobs
  <2>4. Bounded(b)
    BY <1>4, <1>6, <2>3 DEF Bounded
  <2>5. jobs' = [jobs EXCEPT ![j] = b] /\ Leave(<<"proof", j>>)
    BY <1>6, <1>7, <1>13 DEF Write
  <2> QED BY <1>1, <1>2, <1>3, <1>8, <1>9, <1>10, <1>11, <2>3, <2>4, <2>5, ProofEnds
<1> QED BY <1>12, <1>13

LEMMA ProofCheckFits == ASSUME DevInv, NEW j \in DevJobs, ProofCheck(j) PROVE DevInv'
<1>1. PICK o : o = op[<<"proof", j>>]
  OBVIOUS
<1>2. o # NoOp /\ o.pc = "check"
  BY <1>1 DEF ProofCheck, NoOp
<1>3. PICK B : B = Base(j, o.job)
  OBVIOUS
<1>4. Shapes /\ Surroundings /\ o \in Operations("proof") /\ o.todo \subseteq Letters
  BY <1>1, <1>2, <1>3, ProofStarts
<1>5. PICK m \in FirstOf(o.todo, 1), reading \in {"in", "out", "refused", "unclear"} :
        LET next == Filed(o, m, CASE reading = "out" -> "yes" [] reading = "in" -> "no" [] OTHER -> "unsure")
        IN /\ Reads(m, reading)
           /\ IF reading = "out" THEN Saw(j, "out", {m}) ELSE UNCHANGED witness
           /\ Enter(<<"proof", j>>, IF next.todo = {} THEN [next EXCEPT !.pc = "shadow"] ELSE next)
  BY <1>1, ZenonT(60) DEF ProofCheck
<1>6. PICK file : file = CASE reading = "out" -> "yes" [] reading = "in" -> "no" [] OTHER -> "unsure"
  OBVIOUS
<1>7. PICK next : next = Filed(o, m, file)
  OBVIOUS
<1>8. m \in Letters
  BY <1>4, <1>5, FirstIsOne
<1>9. next \in Operations("proof") /\ next.job = o.job /\ next.todo \subseteq Letters
  <2>1. next \in Operations("proof") /\ next.job = o.job /\ next.todo = o.todo \ {m}
    BY <1>4, <1>7, <1>8, FiledFits
  <2> QED BY <1>4, <2>1
<1>10. UNCHANGED <<jobs, posts, mail, report, made>>
  BY DEF ProofCheck
<1>11. Learns(j) /\ \E L : mail' \in {mail, Put(L, OutOfTrash)}
  <2>1. Answered(j)
    BY <1>5, <1>8 DEF Answered
  <2> QED BY <1>4, <1>10, <2>1, LearnsAnswer
<1>12. Surroundings' /\ around'.faults = around.faults
  BY <1>4, <1>5, <1>10, ReadsFit
<1>13. PICK r : r = IF next.todo = {} THEN [next EXCEPT !.pc = "shadow"] ELSE next
  OBVIOUS
<1>14. r \in Operations("proof") /\ r.job = o.job /\ r.todo \subseteq Letters
  BY <1>9, <1>13 DEF Operations, Phases
<1>15. Enter(<<"proof", j>>, r)
  BY <1>5, <1>6, <1>7, <1>13
<1> QED BY <1>1, <1>2, <1>10, <1>11, <1>12, <1>14, <1>15, ProofGoesOn

LEMMA ProofShadowFits == ASSUME DevInv, NEW j \in DevJobs, ProofShadow(j) PROVE DevInv'
<1>1. PICK o : o = op[<<"proof", j>>]
  OBVIOUS
<1>2. o # NoOp /\ o.pc = "shadow"
  BY <1>1 DEF ProofShadow, NoOp
<1>3. PICK B : B = Base(j, o.job)
  OBVIOUS
<1>4. /\ Shapes /\ Surroundings /\ o \in Operations("proof") /\ o.job \in Jobs /\ o.job.moved = B.moved
      /\ B \in Jobs /\ \A patch : Updated(j, o.job, patch) = Patched(B, patch)
  BY <1>1, <1>2, <1>3, ProofStarts
<1>5. PICK t : t = Restored(o.job, o.yes)
  OBVIOUS
<1>6. PICK u : u = Tally(o)
  OBVIOUS
<1>7. PICK agrees \in BOOLEAN :
        /\ IF agrees THEN Free ELSE Possible("read") /\ Costs(1)
        /\ Write(j, o.job, IF o.yes = o.job.picks
                           THEN [status |-> "undone", restored |-> t, undo |-> u, proof |-> ProofState(o, agrees)]
                           ELSE [proof |-> ProofState(o, agrees), restored |-> t])
  BY <1>1, <1>5, <1>6 DEF ProofShadow
<1>8. PICK p \in Results : p = ProofState(o, agrees) /\ p # "none" /\ p # "running"
  BY DEF ProofState, Results
<1>9. UNCHANGED <<posts, mail, report, made, witness>> /\ Leave(<<"proof", j>>)
  BY DEF ProofShadow
<1>10. Learns(j) /\ \E L : mail' \in {mail, Put(L, OutOfTrash)}
  BY <1>4, <1>9, LearnsAnswer DEF Answered
<1>11. Surroundings' /\ around'.faults = around.faults
  BY <1>4, <1>7, <1>9, FaultsFit
<1>12. t \in [Groups -> Nat] /\ (\A g \in Groups : t[g] <= B.moved[g]) /\ u \in Tallies
  <2>1. o.yes \subseteq Letters
    BY <1>4 DEF Operations
  <2> QED BY <1>4, <1>5, <1>6, <2>1, RestoredBounded, TallyType
<1>13. PICK b \in Jobs :
         /\ jobs' = [jobs EXCEPT ![j] = b] /\ b.proof = p /\ b.restored = t /\ (b.status = B.status \/ b.status = "undone")
         /\ b.picks = B.picks /\ b.resolved = B.resolved
         /\ b.attempted = B.attempted /\ b.started = B.started /\ b.bench = B.bench /\ b.tally = B.tally
         /\ b.moved = B.moved
  <2>1. CASE o.yes = o.job.picks
    <3>1. PICK s \in Statuses : s = "undone"
      BY DEF Statuses
    <3>2. PICK b : b = Patched(B, [status |-> s, restored |-> t, undo |-> u, proof |-> p])
      OBVIOUS
    <3>3. LET r == Patched(B, [status |-> s, restored |-> t, undo |-> u, proof |-> p])
          IN r = [B EXCEPT !.status = s, !.restored = t, !.undo = u, !.proof = p] /\ r \in Jobs
      BY <1>4, <1>12, ProvedPatch, Zenon
    <3>4. b = [B EXCEPT !.status = s, !.restored = t, !.undo = u, !.proof = p] /\ b \in Jobs
      BY <3>2, <3>3
    <3>5. jobs' = [jobs EXCEPT ![j] = b]
      BY <1>4, <1>7, <1>8, <2>1, <3>1, <3>2 DEF Write
    <3>6. /\ b.proof = p /\ b.restored = t /\ b.status = s
          /\ b.picks = B.picks /\ b.resolved = B.resolved
          /\ b.attempted = B.attempted /\ b.started = B.started /\ b.bench = B.bench /\ b.tally = B.tally
          /\ b.moved = B.moved
      BY <1>4, <3>4 DEF Jobs
    <3> QED BY <3>1, <3>4, <3>5, <3>6
  <2>2. CASE o.yes # o.job.picks
    <3>1. PICK b : b = Patched(B, [proof |-> p, restored |-> t])
      OBVIOUS
    <3>2. LET r == Patched(B, [proof |-> p, restored |-> t])
          IN r = [B EXCEPT !.proof = p, !.restored = t] /\ r \in Jobs
      BY <1>4, <1>12, ProofEndPatch, Zenon
    <3>3. b = [B EXCEPT !.proof = p, !.restored = t] /\ b \in Jobs
      BY <3>1, <3>2
    <3>4. jobs' = [jobs EXCEPT ![j] = b]
      BY <1>4, <1>7, <1>8, <2>2, <3>1 DEF Write
    <3>5. /\ b.proof = p /\ b.restored = t /\ b.status = B.status
          /\ b.picks = B.picks /\ b.resolved = B.resolved
          /\ b.attempted = B.attempted /\ b.started = B.started /\ b.bench = B.bench /\ b.tally = B.tally
          /\ b.moved = B.moved
      BY <1>4, <3>3 DEF Jobs
    <3> QED BY <3>3, <3>4, <3>5
  <2> QED BY <2>1, <2>2
<1>14. Bounded(b)
  BY <1>12, <1>13 DEF Bounded
<1>15. b.proof # "none" /\ b.proof # "running"
  BY <1>8, <1>13
<1> QED BY <1>1, <1>2, <1>3, <1>9, <1>10, <1>11, <1>13, <1>14, <1>15, ProofEnds, ZenonT(90)

\* A request for a proof comes or goes.
LEMMA PostsStep ==
  ASSUME DevInv, NEW j \in DevJobs,
         Shapes', Surroundings', MailFits', PostsFit', around'.faults = around.faults, made' = made,
         op'[Resolution] = op[Resolution], \A i \in DevJobs : i # j => Untouched(i),
         ~Harmless(j), AllFit(j)'
  PROVE  DevInv'
<1>1. \A i \in DevJobs : AllFit(i)'
  <2>1. SUFFICES ASSUME NEW i \in DevJobs, i # j PROVE AllFit(i)'
    OBVIOUS
  <2>2. AllFit(i) /\ Untouched(i) /\ made' = made
    BY <2>1 DEF DevInv, AllFit
  <2> QED BY <2>2, AllUntouched
<1>2. ResolutionFits'
  <2>1. ASSUME NEW i \in DevJobs, Harmless(i) PROVE Harmless(i)'
    BY <2>1, HarmlessUntouched
  <2> QED BY <2>1, ResolutionUntouched DEF DevInv
<1> QED BY <1>1, <1>2 DEF DevInv, AllFit

LEMMA PostProofFits == ASSUME DevInv, NEW j \in DevJobs, PostProof(j) PROVE DevInv'
<1>1. PICK b : b = jobs[j]
  OBVIOUS
<1>2. PICK n : n = [id |-> j, job |-> b]
  OBVIOUS
<1>3. PICK p \in DOMAIN posts : posts[p] = NoJob /\ posts' = [posts EXCEPT ![p] = n]
  BY <1>1, <1>2 DEF PostProof
<1>4. /\ b # NoJob /\ FullyMoved(b) /\ b.proof # "running"
      /\ UNCHANGED <<jobs, op, mail, report, made, witness, around>>
  BY <1>1 DEF PostProof, MayProve, Findable
<1>5. CopyFits(j, b) /\ ~Harmless(j) /\ j <= made /\ ~witness[j].dropped
  BY <1>1, <1>4, CopyTaken
<1>6. n.id = j /\ n.job = b
  BY <1>2
<1>7. Shapes /\ Surroundings /\ MailFits /\ PostsFit /\ JobFits(j) /\ TrashFits(j) /\ UndoFits(j) /\ ProofFits(j)
  BY DEF DevInv
<1>8. DOMAIN posts = 1..2 /\ DOMAIN posts' = 1..2 /\ posts'[p] = n /\ \A q \in 1..2 : q # p => posts'[q] = posts[q]
  BY <1>3, <1>7 DEF PostsFit
<1>9. Shapes' /\ Surroundings' /\ MailFits' /\ around'.faults = around.faults
  BY <1>4, <1>7 DEF Shapes, Surroundings, MailFits
<1>10. \A i \in DevJobs : i # j => Untouched(i)
  <2>1. SUFFICES ASSUME NEW i \in DevJobs, i # j PROVE Untouched(i)
    OBVIOUS
  <2>2. Posted(i) <=> Posted(i)'
    BY <1>3, <1>6, <1>8, <2>1 DEF Posted
  <2> QED BY <1>4, <2>2 DEF Untouched
<1>11. \A i, c : CopyFits(i, c) => CopyFits(i, c)'
  BY <1>4 DEF CopyFits, RecordFits, AnswersFit, Moved, Busy
<1>12. PostsFit'
  <2>1. \A q \in 1..2 : q # p /\ posts'[q] # NoJob => posts'[q].id \in DevJobs /\ CopyFits(posts[q].id, posts[q].job)'
    BY <1>7, <1>8, <1>11 DEF PostsFit
  <2>2. ASSUME NEW q \in 1..2, posts'[q] # NoJob PROVE posts'[q].id \in DevJobs /\ CopyFits(posts[q].id, posts[q].job)'
    <3>1. PICK r : r = posts'[q]
      OBVIOUS
    <3>2. r.id \in DevJobs /\ CopyFits(r.id, r.job)'
      <4>1. CASE q = p
        BY <1>5, <1>6, <1>8, <1>11, <3>1, <4>1
      <4>2. CASE q # p
        <5>1. r = posts[q] /\ r # NoJob
          BY <1>8, <2>2, <3>1, <4>2
        <5>2. r.id \in DevJobs /\ CopyFits(r.id, r.job)
          BY <1>7, <5>1 DEF PostsFit
        <5> QED BY <1>11, <5>2
      <4> QED BY <4>1, <4>2
    <3> QED BY <3>1, <3>2
  <2> QED BY <1>8, <2>2 DEF PostsFit
<1>13. JobFits(j)'
  <2>1. RecordFits(j, b)' /\ AnswersFit(j, b)' /\ Moved(j)' /\ jobs'[j] = b
    BY <1>1, <1>4, <1>5, <1>11 DEF CopyFits
  <2>2. (jobs[j] # NoJob => RecordFits(j, jobs[j]) /\ AnswersFit(j, jobs[j]))'
    BY <2>1
  <2>3. InHand(j)'
    BY <1>4, <1>7 DEF InHand, JobFits, Busy
  <2>4. (j <= made /\ ~witness[j].dropped)' /\ made \in Nat /\ j \in Nat /\ made' = made
    BY <1>4, <1>5, <1>7, JobNumbers DEF Shapes
  <2> QED BY <2>1, <2>2, <2>3, <2>4 DEF JobFits
<1>14. TrashFits(j)'
  <2>1. (~Busy("trash", j))'
    BY <1>4, <1>5 DEF CopyFits, Busy
  <2> QED BY <2>1 DEF TrashFits, Busy
<1>15. UndoFits(j)' /\ ProofFits(j)'
  <2>1. PICK u, o : u = op[<<"undo", j>>] /\ o = op[<<"proof", j>>]
    OBVIOUS
  <2>2. op'[<<"undo", j>>] = u /\ op'[<<"proof", j>>] = o /\ jobs'[j] = b /\ witness' = witness
    BY <1>1, <1>4, <2>1
  <2>3. (CopyFits(j, u.job) => CopyFits(j, u.job)') /\ (CopyFits(j, o.job) => CopyFits(j, o.job)')
    BY <1>11
  <2>4. UndoFits(j)'
    BY <1>1, <1>7, <2>1, <2>2, <2>3 DEF UndoFits
  <2> QED BY <1>7, <2>1, <2>2, <2>3, <2>4 DEF ProofFits
<1>16. AllFit(j)'
  BY <1>13, <1>14, <1>15 DEF AllFit
<1> QED BY <1>4, <1>5, <1>9, <1>10, <1>12, <1>16, PostsStep

LEMMA PostConnectsFits == ASSUME DevInv, NEW p \in DOMAIN posts, PostConnects(p) PROVE DevInv'
<1>1. PICK r : r = posts[p]
  OBVIOUS
<1>2. PICK b : b = r.job
  OBVIOUS
<1>3. /\ Shapes /\ Surroundings /\ MailFits /\ PostsFit /\ DOMAIN posts = 1..2
      /\ r # NoJob /\ posts' = [posts EXCEPT ![p] = NoJob] /\ UNCHANGED <<jobs, mail, report, made, witness>>
  BY <1>1 DEF PostConnects, DevInv, PostsFit
<1>4. PICK j \in DevJobs : j = r.id
  BY <1>1, <1>3 DEF PostsFit
<1>5. CopyFits(j, b)
  BY <1>1, <1>2, <1>3, <1>4 DEF PostsFit
<1>6. /\ b \in Jobs /\ ~Harmless(j)
      /\ JobFits(j) /\ TrashFits(j) /\ UndoFits(j) /\ ProofFits(j)
  BY <1>5 DEF CopyFits, RecordFits, Harmless, DevInv
<1>7. PICK s : s = Started(b)
  OBVIOUS
<1>8. s \in Operations("proof") /\ s # NoOp /\ s.job = b /\ s.todo = {}
  <2>1. "proof" \in Kinds
    BY DEF Kinds
  <2> QED BY <1>6, <1>7, <2>1, StartedFits
<1>9. op' = op \/ (op[<<"proof", j>>] = NoOp /\ op' = [op EXCEPT ![<<"proof", j>>] = s])
  BY <1>1, <1>2, <1>4, <1>7 DEF PostConnects
<1>10. Surroundings' /\ around'.faults = around.faults
  BY <1>3, ConnectionFits DEF PostConnects
<1>11. /\ DOMAIN op' = Keys /\ op'[Resolution] = op[Resolution]
       /\ \A l \in Kinds, i \in DevJobs : l # "proof" \/ i # j => op'[<<l, i>>] = op[<<l, i>>]
       /\ op'[<<"proof", j>>] \in {op[<<"proof", j>>], s}
  <2>1. CASE op' = op
    BY <1>3, <2>1 DEF Shapes
  <2>2. CASE op' = [op EXCEPT ![<<"proof", j>>] = s]
    <3>1. "proof" \in Kinds
      BY DEF Kinds
    <3>2. Enter(<<"proof", j>>, s) /\ DOMAIN op = Keys
      BY <1>3, <2>2 DEF Enter, Shapes
    <3>3. /\ DOMAIN op' = Keys /\ op'[<<"proof", j>>] = s /\ op'[Resolution] = op[Resolution]
          /\ \A l \in Kinds, i \in DevJobs : l # "proof" \/ i # j => op'[<<l, i>>] = op[<<l, i>>]
      BY <3>1, <3>2, Entered
    <3> QED BY <3>3
  <2> QED BY <1>9, <2>1, <2>2
<1>12. (op[<<"proof", j>>] # NoOp => op'[<<"proof", j>>] # NoOp)
  BY <1>8, <1>11
<1>13. Shapes' /\ MailFits'
  BY <1>3, <1>11 DEF Shapes, MailFits
<1>14. /\ DOMAIN posts' = 1..2 /\ posts'[p] = NoJob /\ \A q \in 1..2 : q # p => posts'[q] = posts[q]
  BY <1>3
<1>15. \A i \in DevJobs : i # j => Untouched(i)
  <2>1. SUFFICES ASSUME NEW i \in DevJobs, i # j PROVE Untouched(i)
    OBVIOUS
  <2>2. Posted(i) <=> Posted(i)'
    BY <1>1, <1>3, <1>4, <1>14, <2>1 DEF Posted
  <2> QED BY <1>3, <1>11, <2>1, <2>2 DEF Untouched
<1>16. \A i \in DevJobs : \A c : CopyFits(i, c) => CopyFits(i, c)'
  <2>1. "trash" \in Kinds /\ "trash" # "proof"
    BY DEF Kinds
  <2>2. \A i \in DevJobs : op'[<<"trash", i>>] = op[<<"trash", i>>]
    BY <1>11, <2>1
  <2> QED BY <1>3, <2>2 DEF CopyFits, RecordFits, AnswersFit, Moved, Busy
<1>17. PostsFit'
  <2>1. ASSUME NEW q \in 1..2, posts'[q] # NoJob PROVE posts'[q].id \in DevJobs /\ CopyFits(posts[q].id, posts[q].job)'
    <3>1. PICK c : c = posts'[q]
      OBVIOUS
    <3>2. c = posts[q] /\ c # NoJob
      BY <1>14, <2>1, <3>1
    <3>3. c.id \in DevJobs /\ CopyFits(c.id, c.job)
      BY <1>3, <3>2 DEF PostsFit
    <3>4. CopyFits(c.id, c.job)'
      BY <1>16, <3>3
    <3> QED BY <3>1, <3>3, <3>4
  <2> QED BY <1>14, <2>1 DEF PostsFit
<1>18. JobFits(j)'
  <2>1. PICK a : a = jobs[j]
    OBVIOUS
  <2>2. jobs'[j] = a /\ Moved(j)' /\ (~Busy("trash", j))' /\ Moved(j) /\ ~Busy("trash", j)
    <3>1. CopyFits(j, b)'
      BY <1>5, <1>16
    <3> QED BY <1>3, <1>5, <2>1, <3>1 DEF CopyFits
  <2>3. a # NoJob => RecordFits(j, a) /\ AnswersFit(j, a)
    BY <1>6, <2>1, <2>2 DEF JobFits
  <2>4. a # NoJob => RecordFits(j, a)' /\ AnswersFit(j, a)'
    BY <1>3, <2>3 DEF RecordFits, AnswersFit, Moved
  <2>5. InHand(j)'
    BY <1>3, <1>6, <1>10, <1>11, <1>12 DEF InHand, JobFits, Busy, Kinds
  <2>6. (j > made => FALSE) /\ ~witness[j].dropped
    BY <1>6 DEF JobFits
  <2>7. (j > made => FALSE)' /\ (~witness[j].dropped)'
    BY <1>3, <2>6
  <2> QED BY <2>2, <2>4, <2>5, <2>7 DEF JobFits
<1>19. TrashFits(j)'
  <2>1. (~Busy("trash", j))'
    BY <1>5, <1>11 DEF CopyFits, Busy, Kinds
  <2> QED BY <2>1 DEF TrashFits, Busy
<1>20. UndoFits(j)'
  <2>1. PICK u : u = op[<<"undo", j>>]
    OBVIOUS
  <2>2. op'[<<"undo", j>>] = u
    BY <1>11, <2>1 DEF Kinds
  <2>3. CopyFits(j, u.job) => CopyFits(j, u.job)'
    BY <1>16
  <2> QED BY <1>3, <1>6, <2>1, <2>2, <2>3 DEF UndoFits
<1>21. ProofFits(j)'
  <2>1. PICK u : u = op'[<<"proof", j>>]
    OBVIOUS
  <2>2. u = NoOp \/ (u \in Operations("proof") /\ u.todo \subseteq Letters /\ CopyFits(j, u.job))
    BY <1>5, <1>6, <1>8, <1>11, <2>1 DEF ProofFits
  <2>3. CopyFits(j, u.job) => CopyFits(j, u.job)'
    BY <1>16
  <2> QED BY <2>1, <2>2, <2>3 DEF ProofFits
<1>22. AllFit(j)'
  BY <1>18, <1>19, <1>20, <1>21 DEF AllFit
<1> QED BY <1>3, <1>6, <1>10, <1>11, <1>13, <1>15, <1>17, <1>22, PostsStep, SMTT(30)

-----------------------------------------------------------------------------
(* The Trash operation.                                                     *)

\* What a Trash operation starts from at every step.
LEMMA TrashBase ==
  ASSUME DevInv, NEW j \in DevJobs, NEW o, o = op[<<"trash", j>>], o # NoOp, NEW B, B = Base(j, o.job)
  PROVE  /\ Shapes /\ Surroundings /\ MailFits /\ JobFits(j) /\ o \in Operations("trash") /\ o.job \in Jobs
         /\ B \in Jobs /\ Alike(B, o.job) /\ RecordFits(j, B) /\ RecordFits(j, o.job)
         /\ \A patch : Updated(j, o.job, patch) = Patched(B, patch)
         /\ ~Busy("undo", j) /\ ~Busy("proof", j) /\ ~Posted(j) /\ ~witness[j].dropped
         /\ Cardinality(o.job.picks) = o.job.wanted /\ ~o.job.bench
         /\ o.job.status = (IF o.pc = "begin" THEN "ready" ELSE "running") /\ o.job.proof = "none"
         /\ o.job.tally = NoTally /\ o.job.moved = NoDelta /\ o.job.restored = NoDelta
         /\ o.job.picks \subseteq Letters
<1>1. TrashFits(j) /\ JobFits(j)
  BY DEF DevInv
<1>2. PICK c : c = o.job
  OBVIOUS
<1>3. c \in Jobs /\ RecordFits(j, c)
  BY <1>1, <1>2 DEF TrashFits, RecordFits
<1>4. B \in Jobs /\ Alike(B, c) /\ RecordFits(j, B)
  <2>1. CASE jobs[j] = NoJob
    BY <1>2, <1>3, <2>1 DEF Base, Alike
  <2>2. CASE jobs[j] # NoJob
    <3>1. RecordFits(j, B)
      BY <1>1, <2>2 DEF JobFits, Base
    <3>2. Alike(B, c)
      BY <1>1, <1>2, <2>2 DEF TrashFits, Base
    <3> QED BY <3>1, <3>2 DEF RecordFits
  <2> QED BY <2>1, <2>2
<1>5. \A patch : Updated(j, c, patch) = Patched(B, patch)
  BY <1>2 DEF Updated, Base
<1>6. c.picks \subseteq Letters
  BY <1>3 DEF Jobs
<1> QED BY <1>1, <1>2, <1>3, <1>4, <1>5, <1>6 DEF DevInv, TrashFits

\* The job as the operation leaves it for its next step, or for good.
Outcome(j, b, r) ==
  b # NoJob =>
    /\ RecordFits(j, b) /\ (r = NoOp /\ Moved(j) => AnswersFit(j, b))
    /\ b.status # "undoing" /\ b.proof # "running"
    /\ b.status = "running" => r # NoOp \/ "stale" \in around.faults

LEMMA TrashStep ==
  ASSUME DevInv, NEW j \in DevJobs, NEW o, o = op[<<"trash", j>>], o # NoOp, NEW r,
         op' = [op EXCEPT ![<<"trash", j>>] = r], UNCHANGED <<made, posts>>,
         Surroundings', MailFits', around'.faults = around.faults,
         witness' \in [DevJobs -> Witnesses], \A i \in DevJobs : i # j => witness'[i] = witness[i],
         witness'[j].dropped = witness[j].dropped, (~Moved(j) => witness[j].in = {})',
         NEW b, DOMAIN jobs' = DevJobs, jobs'[j] = b, \A i \in DevJobs : i # j => jobs'[i] = jobs[i],
         Outcome(j, b, r)', r # NoOp => TrashFits(j)'
  PROVE  DevInv'
<1>1. /\ Shapes /\ JobFits(j) /\ ~Busy("undo", j) /\ ~Busy("proof", j) /\ ~witness[j].dropped
  BY TrashBase
<1>2. /\ op'[<<"trash", j>>] = r /\ \A l \in Kinds : l # "trash" => op'[<<l, j>>] = op[<<l, j>>]
  <2>1. "trash" \in Kinds
    BY DEF Kinds
  <2>2. Enter(<<"trash", j>>, r) /\ DOMAIN op = Keys
    BY <1>1 DEF Enter, Shapes
  <2> QED BY <2>1, <2>2, Entered
<1>3. \A c : ~CopyFits(j, c)
  BY DEF CopyFits, Busy
<1>4. TrashFits(j)'
  BY <1>2 DEF TrashFits
<1>5. UndoFits(j)' /\ ProofFits(j)'
  BY <1>1, <1>2 DEF UndoFits, ProofFits, Busy, Kinds
<1>6. JobFits(j)'
  <2>1. j <= made
    <3>1. ~Harmless(j)
      BY DEF Harmless, Busy, Kinds
    <3> QED BY <1>1, <3>1, JobNumbers DEF JobFits, Shapes
  <2>2. (jobs[j] # NoJob => RecordFits(j, jobs[j]) /\ (Moved(j) /\ ~Busy("trash", j) => AnswersFit(j, jobs[j])))'
    BY <1>2 DEF Busy, Outcome
  <2>3. InHand(j)'
    BY <1>2 DEF InHand, Busy, Outcome
  <2>4. (j <= made /\ ~witness[j].dropped)' /\ made \in Nat /\ j \in Nat /\ made' = made
    BY <1>1, <2>1, JobNumbers DEF Shapes
  <2> QED BY <2>2, <2>3, <2>4 DEF JobFits
<1>7. AllFit(j)'
  BY <1>4, <1>5, <1>6 DEF AllFit
<1> QED BY <1>3, <1>7, OperationStep DEF Busy, Kinds

LEMMA TrashBeginsFits == ASSUME DevInv, NEW j \in DevJobs, TrashBegins(j) PROVE DevInv'
<1>1. PICK o : o = op[<<"trash", j>>]
  OBVIOUS
<1>2. o # NoOp /\ o.pc = "begin"
  BY <1>1 DEF TrashBegins, NoOp
<1>3. PICK B : B = Base(j, o.job)
  OBVIOUS
<1>4. PICK b : b = Patched(B, [status |-> "running"])
  OBVIOUS
<1>5. /\ Shapes /\ Surroundings /\ MailFits /\ JobFits(j) /\ o \in Operations("trash") /\ o.job \in Jobs
      /\ B \in Jobs /\ Alike(B, o.job) /\ RecordFits(j, B)
      /\ Updated(j, o.job, [status |-> "running"]) = b
      /\ ~Busy("undo", j) /\ ~Busy("proof", j) /\ ~Posted(j) /\ ~witness[j].dropped
      /\ Cardinality(o.job.picks) = o.job.wanted /\ ~o.job.bench
      /\ o.job.status = "ready" /\ o.job.proof = "none"
      /\ o.job.tally = NoTally /\ o.job.moved = NoDelta /\ o.job.restored = NoDelta
  BY <1>1, <1>2, <1>3, <1>4, TrashBase
<1>6. /\ ~Moved(j) /\ ~o.job.started /\ o.yes \cup o.late \subseteq o.job.picks /\ o.yes \cap witness[j].shield = {}
      /\ o.no = {} /\ o.unsure = {} /\ witness[j].in = {}
  BY <1>1, <1>2 DEF DevInv, TrashFits, Early
<1>7. b = [B EXCEPT !.status = "running"] /\ b \in Jobs
  BY <1>4, <1>5, StatusPatch DEF Statuses, Unmoved
<1>8. /\ b \in Jobs /\ b.status = "running" /\ b.picks = B.picks /\ b.resolved = B.resolved /\ b.wanted = B.wanted
      /\ b.bench = B.bench /\ b.started = B.started /\ b.attempted = B.attempted /\ b.tally = B.tally
      /\ b.proof = B.proof /\ b.moved = B.moved /\ b.restored = B.restored
  BY <1>5, <1>7 DEF Jobs
<1>9. /\ Cardinality(b.picks) = b.wanted /\ ~b.bench /\ b.proof = "none" /\ b.picks = o.job.picks /\ ~b.started
      /\ b.tally = NoTally /\ b.moved = NoDelta /\ b.restored = NoDelta /\ b.resolved = Cardinality(b.picks)
  BY <1>5, <1>6, <1>8 DEF Alike, RecordFits
<1>10. PICK r : r = [o EXCEPT !.pc = "context", !.job = b]
  OBVIOUS
<1>11. /\ r \in Operations("trash") /\ r # NoOp /\ r.job = b /\ r.pc = "context" /\ r.yes = o.yes /\ r.no = o.no
       /\ r.unsure = o.unsure /\ r.late = o.late
  BY <1>5, <1>8, <1>10 DEF Operations, Phases, Early, NoOp
<1>12. op' = [op EXCEPT ![<<"trash", j>>] = r] /\ jobs' = [jobs EXCEPT ![j] = b]
  BY <1>1, <1>5, <1>10 DEF TrashBegins, Enter
<1>13. UNCHANGED <<posts, mail, report, made, witness, around>>
  BY DEF TrashBegins
<1>14. RecordFits(j, b)'
  BY <1>6, <1>8, <1>9, <1>13 DEF RecordFits, Moved, Unmoved
<1>15. Alike(b, b)
  BY DEF Alike
<1>16. DOMAIN jobs' = DevJobs /\ jobs'[j] = b /\ \A i \in DevJobs : i # j => jobs'[i] = jobs[i]
  BY <1>5, <1>12 DEF Shapes
<1>17. /\ op'[<<"trash", j>>] = r /\ (~Busy("undo", j) /\ ~Busy("proof", j) /\ ~Posted(j))'
  <2>1. "trash" \in Kinds /\ "undo" \in Kinds /\ "proof" \in Kinds
    BY DEF Kinds
  <2>2. Enter(<<"trash", j>>, r) /\ DOMAIN op = Keys
    BY <1>5, <1>12 DEF Enter, Shapes
  <2>3. op'[<<"trash", j>>] = r /\ op'[<<"undo", j>>] = op[<<"undo", j>>] /\ op'[<<"proof", j>>] = op[<<"proof", j>>]
    BY <2>1, <2>2, Entered
  <2> QED BY <1>5, <1>13, <2>3 DEF Busy, Posted
<1>18. TrashFits(j)'
  <2>1. (~Moved(j))' /\ witness' = witness
    BY <1>6, <1>13 DEF Moved
  <2> QED BY <1>5, <1>6, <1>8, <1>9, <1>11, <1>14, <1>15, <1>16, <1>17, <2>1 DEF TrashFits, Early
<1>19. Surroundings' /\ MailFits' /\ around'.faults = around.faults
  BY <1>5, <1>13 DEF Surroundings, MailFits
<1>20. witness' \in [DevJobs -> Witnesses] /\ (~Moved(j) => witness[j].in = {})' /\ witness' = witness
  BY <1>5, <1>6, <1>13 DEF Shapes
<1>21. Outcome(j, b, r)'
  BY <1>8, <1>9, <1>11, <1>14 DEF Outcome
<1> QED BY <1>1, <1>2, <1>12, <1>13, <1>16, <1>18, <1>19, <1>20, <1>21, TrashStep, ZenonT(90)

\* Nobody else is on the job before or after.
LEMMA TrashAlone ==
  ASSUME DevInv, NEW j \in DevJobs, NEW o, o = op[<<"trash", j>>], o # NoOp, NEW r,
         op' = [op EXCEPT ![<<"trash", j>>] = r], posts' = posts
  PROVE  op'[<<"trash", j>>] = r /\ (~Busy("undo", j) /\ ~Busy("proof", j) /\ ~Posted(j))'
<1>1. Shapes /\ ~Busy("undo", j) /\ ~Busy("proof", j) /\ ~Posted(j)
  BY TrashBase
<1>2. "trash" \in Kinds /\ "undo" \in Kinds /\ "proof" \in Kinds
  BY DEF Kinds
<1>3. Enter(<<"trash", j>>, r) /\ DOMAIN op = Keys
  BY <1>1 DEF Enter, Shapes
<1>4. op'[<<"trash", j>>] = r /\ op'[<<"undo", j>>] = op[<<"undo", j>>] /\ op'[<<"proof", j>>] = op[<<"proof", j>>]
  BY <1>2, <1>3, Entered
<1> QED BY <1>1, <1>4 DEF Busy, Posted

\* What is known before the batch.
LEMMA TrashEarly ==
  ASSUME DevInv, NEW j \in DevJobs, NEW o, o = op[<<"trash", j>>], o # NoOp, o.pc \in Early
  PROVE  /\ ~Moved(j) /\ ~o.job.started /\ o.yes \cup o.late \subseteq o.job.picks /\ o.yes \cap witness[j].shield = {}
         /\ o.no = {} /\ o.unsure = {} /\ witness[j].in = {}
BY DEF DevInv, TrashFits, Early

LEMMA TrashGoesOn ==
  ASSUME DevInv, NEW j \in DevJobs, NEW o, o = op[<<"trash", j>>], o # NoOp, o.pc \in Early, o.pc # "begin",
         NEW r, r \in Operations("trash"), op' = [op EXCEPT ![<<"trash", j>>] = r],
         UNCHANGED <<made, posts, jobs, mail, witness>>, Surroundings', around'.faults = around.faults,
         r.pc \in {"context", "recheck"}, r.job = o.job, r.no = {}, r.unsure = {},
         r.yes \cup r.late \subseteq o.job.picks, r.yes \cap witness[j].shield = {}
  PROVE  DevInv'
<1>1. PICK c : c = o.job
  OBVIOUS
<1>2. /\ Shapes /\ MailFits /\ JobFits(j) /\ c \in Jobs /\ RecordFits(j, c) /\ ~witness[j].dropped
      /\ Cardinality(c.picks) = c.wanted /\ ~c.bench /\ c.status = "running" /\ c.proof = "none"
      /\ c.tally = NoTally /\ c.moved = NoDelta /\ c.restored = NoDelta
  BY <1>1, TrashBase
<1>3. ~Moved(j) /\ ~c.started /\ witness[j].in = {}
  BY <1>1, TrashEarly
<1>4. op'[<<"trash", j>>] = r /\ (~Busy("undo", j) /\ ~Busy("proof", j) /\ ~Posted(j))'
  BY TrashAlone
<1>5. PICK b : b = jobs[j]
  OBVIOUS
<1>6. b # NoJob => Alike(b, c)
  BY <1>1, <1>5 DEF DevInv, TrashFits
<1>7. b # NoJob => RecordFits(j, b)
  BY <1>2, <1>5 DEF JobFits
<1>8. r # NoOp
  BY DEF Operations, NoOp
<1>9. b # NoJob => b.status = "running" /\ b.proof = "none"
  BY <1>2, <1>6 DEF Alike
<1>10. Outcome(j, b, r)'
  <2>1. (RecordFits(j, b) => RecordFits(j, b)') /\ (~Moved(j))'
    BY <1>3 DEF RecordFits, Moved
  <2> QED BY <1>7, <1>8, <1>9, <2>1 DEF Outcome
<1>11. RecordFits(j, c)' /\ (~Moved(j))' /\ witness' = witness
  BY <1>2, <1>3 DEF RecordFits, Moved
<1>12. TrashFits(j)'
  BY <1>1, <1>2, <1>3, <1>4, <1>5, <1>6, <1>11 DEF TrashFits, Early
<1>13. DOMAIN jobs' = DevJobs /\ jobs'[j] = b /\ \A i \in DevJobs : i # j => jobs'[i] = jobs[i]
  BY <1>2, <1>5 DEF Shapes
<1>14. /\ witness' \in [DevJobs -> Witnesses] /\ (~Moved(j) => witness[j].in = {})' /\ witness' = witness
       /\ MailFits' /\ UNCHANGED <<made, posts>>
  BY <1>2, <1>3 DEF Shapes, MailFits
<1> QED BY <1>10, <1>12, <1>13, <1>14, TrashStep

\* An operation ends before the batch, with a job that moved nothing.
LEMMA TrashEndsEarly ==
  ASSUME DevInv, NEW j \in DevJobs, NEW o, o = op[<<"trash", j>>], o # NoOp, o.pc \in Early,
         Leave(<<"trash", j>>), UNCHANGED <<made, posts, mail, witness>>, Surroundings', around'.faults = around.faults,
         NEW b \in Jobs, jobs' = [jobs EXCEPT ![j] = b],
         b.status \in Unmoved, b.status # "running", b.resolved = Cardinality(b.picks), b.proof = "none",
         b.tally = NoTally, b.moved = NoDelta, b.restored = NoDelta, ~b.started
  PROVE  DevInv'
<1>1. Shapes /\ MailFits
  BY TrashBase
<1>2. ~Moved(j) /\ witness[j].in = {}
  BY TrashEarly
<1>3. RecordFits(j, b)
  BY <1>2 DEF RecordFits
<1>4. RecordFits(j, b)' /\ (~Moved(j))'
  BY <1>2, <1>3 DEF RecordFits, Moved
<1>5. b.status # "undoing"
  BY DEF Unmoved
<1>6. Outcome(j, b, NoOp)'
  BY <1>4, <1>5 DEF Outcome
<1>7. op' = [op EXCEPT ![<<"trash", j>>] = NoOp]
  BY DEF Leave
<1>8. DOMAIN jobs' = DevJobs /\ jobs'[j] = b /\ \A i \in DevJobs : i # j => jobs'[i] = jobs[i]
  BY <1>1 DEF Shapes
<1>9. /\ witness' \in [DevJobs -> Witnesses] /\ (~Moved(j) => witness[j].in = {})' /\ witness' = witness
      /\ MailFits' /\ UNCHANGED <<made, posts>>
  BY <1>1, <1>2 DEF Shapes, MailFits
<1> QED BY <1>6, <1>7, <1>8, <1>9, TrashStep, ZenonT(90)

\* The fields of what a status is written over.
LEMMA StatusWrites ==
  ASSUME NEW B \in Jobs, NEW s \in Statuses, NEW b, b = Patched(B, [status |-> s])
  PROVE  /\ b \in Jobs /\ b.status = s /\ b.scan = B.scan /\ b.picks = B.picks /\ b.resolved = B.resolved
         /\ b.wanted = B.wanted /\ b.bench = B.bench /\ b.started = B.started /\ b.attempted = B.attempted
         /\ b.tally = B.tally /\ b.proof = B.proof /\ b.moved = B.moved /\ b.restored = B.restored
<1>1. b = [B EXCEPT !.status = s] /\ b \in Jobs
  BY StatusPatch
<1> QED BY <1>1 DEF Jobs

\* The check ends the operation with a status of its own.
LEMMA TrashGivesUp ==
  ASSUME DevInv, NEW j \in DevJobs, NEW o, o = op[<<"trash", j>>], o # NoOp, o.pc \in Early,
         Leave(<<"trash", j>>), UNCHANGED <<made, posts, mail, witness>>, Surroundings', around'.faults = around.faults,
         NEW s \in Unmoved, s # "running", Write(j, o.job, [status |-> s])
  PROVE  DevInv'
<1>1. PICK B : B = Base(j, o.job)
  OBVIOUS
<1>2. PICK b : b = Patched(B, [status |-> s])
  OBVIOUS
<1>3. /\ B \in Jobs /\ Alike(B, o.job) /\ RecordFits(j, B) /\ Updated(j, o.job, [status |-> s]) = b
      /\ o.job.proof = "none" /\ o.job.tally = NoTally /\ o.job.moved = NoDelta /\ o.job.restored = NoDelta
  BY <1>1, <1>2, TrashBase
<1>4. s \in Statuses
  BY DEF Statuses
<1>5. /\ b \in Jobs /\ b.status = s /\ b.picks = B.picks /\ b.resolved = B.resolved /\ b.started = B.started
      /\ b.tally = B.tally /\ b.proof = B.proof /\ b.moved = B.moved /\ b.restored = B.restored
  BY <1>2, <1>3, <1>4, StatusWrites
<1>6. ~o.job.started
  BY TrashEarly
<1>7. b.resolved = Cardinality(b.picks) /\ b.proof = "none" /\ b.tally = NoTally /\ b.moved = NoDelta /\ b.restored = NoDelta /\ ~b.started
  BY <1>3, <1>5, <1>6 DEF Alike, RecordFits
<1>8. jobs' = [jobs EXCEPT ![j] = b]
  BY <1>3 DEF Write
<1>9. b \in Jobs /\ b.status \in Unmoved /\ b.status # "running"
  BY <1>5
<1> QED BY <1>7, <1>8, <1>9, TrashEndsEarly

LEMMA TrashContextFits == ASSUME DevInv, NEW j \in DevJobs, TrashContext(j) PROVE DevInv'
<1>1. PICK o : o = op[<<"trash", j>>]
  OBVIOUS
<1>2. o # NoOp /\ o.pc = "context" /\ o.pc \in Early
  BY <1>1 DEF TrashContext, NoOp, Early
<1>3. Surroundings /\ o \in Operations("trash") /\ o.job \in Jobs /\ o.job.picks \subseteq Letters
  BY <1>1, <1>2, TrashBase
<1>4. UNCHANGED <<posts, mail, report, made, witness>>
  BY DEF TrashContext
<1>5. Surroundings' /\ around'.faults = around.faults
  BY <1>3, <1>4, ContextFits DEF TrashContext
<1>6. CASE Enter(<<"trash", j>>, [o EXCEPT !.pc = "recheck", !.todo = GroupsOf(o.job.picks)]) /\ UNCHANGED jobs
  <2>1. PICK g : g = GroupsOf(o.job.picks)
    OBVIOUS
  <2>2. g \subseteq Letters \cup Groups
    BY <1>3, <2>1, DevAssumption DEF GroupsOf
  <2>3. PICK r : r = [o EXCEPT !.pc = "recheck", !.todo = g]
    OBVIOUS
  <2>4. /\ r \in Operations("trash") /\ r.job = o.job /\ r.pc = "recheck" /\ r.yes = o.yes /\ r.late = o.late
        /\ r.no = o.no /\ r.unsure = o.unsure
    BY <1>3, <2>2, <2>3 DEF Operations, Phases, Early
  <2>5. /\ o.yes \cup o.late \subseteq o.job.picks /\ o.yes \cap witness[j].shield = {} /\ o.no = {} /\ o.unsure = {}
    BY <1>1, <1>2, TrashEarly
  <2>6. op' = [op EXCEPT ![<<"trash", j>>] = r]
    BY <1>6, <2>1, <2>3 DEF Enter
  <2>7. r.pc \in {"context", "recheck"} /\ r.no = {} /\ r.unsure = {} /\ r.yes \cup r.late \subseteq o.job.picks /\ r.yes \cap witness[j].shield = {}
    BY <2>4, <2>5
  <2>8. o.pc # "begin" /\ r \in Operations("trash") /\ r.job = o.job
    BY <1>2, <2>4
  <2> QED BY <1>1, <1>2, <1>4, <1>5, <1>6, <2>6, <2>7, <2>8, TrashGoesOn
<1>7. CASE Leave(<<"trash", j>>) /\ Write(j, o.job, [status |-> "ready"])
  <2>1. PICK s \in Unmoved : s = "ready" /\ s # "running"
    BY DEF Unmoved
  <2>2. Write(j, o.job, [status |-> s])
    BY <1>7, <2>1
  <2> QED BY <1>1, <1>2, <1>4, <1>5, <1>7, <2>1, <2>2, TrashGivesUp, SMTT(30)
<1> QED BY <1>1, <1>6, <1>7 DEF TrashContext

\* A recheck lets only messages of the job pass, and only those it finds in the inbox.
Passes(o, next) ==
  \E t, l, y : /\ next = [o EXCEPT !.todo = t, !.late = l, !.yes = y]
               /\ t \subseteq o.todo /\ l \cup y \subseteq o.job.picks
               /\ \A m \in y : m \in o.yes \/ mail[m] = "inbox"

LEMMA RecheckedIs ==
  ASSUME NEW o, {"todo", "late", "yes", "job"} \subseteq DOMAIN o,
         o.yes \cup o.late \subseteq o.job.picks, o.job.picks \subseteq Letters, NEW next \in Rechecked(o)
  PROVE  Passes(o, next)
<1>1. CASE \E g \in o.todo : next = LET listed == {m \in o.job.picks : SenderOf[m] = g} \cap SafeNow(g)
             IN [o EXCEPT !.todo = @ \ {g}, !.late = @ \cup (listed \cap Changeable), !.yes = @ \cup (listed \ Changeable)]
  <2>1. PICK g \in o.todo : next = LET listed == {m \in o.job.picks : SenderOf[m] = g} \cap SafeNow(g)
          IN [o EXCEPT !.todo = @ \ {g}, !.late = @ \cup (listed \cap Changeable), !.yes = @ \cup (listed \ Changeable)]
    BY <1>1
  <2>2. PICK listed : listed = {m \in o.job.picks : SenderOf[m] = g} \cap SafeNow(g)
    OBVIOUS
  <2>3. listed \subseteq o.job.picks /\ \A m \in listed : mail[m] = "inbox"
    BY <2>2 DEF SafeNow
  <2>4. PICK t, l, y : t = o.todo \ {g} /\ l = o.late \cup (listed \cap Changeable) /\ y = o.yes \cup (listed \ Changeable)
    OBVIOUS
  <2>5. next = [o EXCEPT !.todo = t, !.late = l, !.yes = y]
    BY <2>1, <2>2, <2>4
  <2>6. t \subseteq o.todo /\ l \cup y \subseteq o.job.picks /\ \A x \in y : x \in o.yes \/ mail[x] = "inbox"
    BY <2>3, <2>4
  <2> QED BY <2>5, <2>6 DEF Passes
<1>2. CASE \E m \in o.late : next = [o EXCEPT !.late = @ \ {m}, !.yes = IF mail[m] = "inbox" THEN @ \cup {m} ELSE @]
  <2>1. PICK m \in o.late : next = [o EXCEPT !.late = @ \ {m}, !.yes = IF mail[m] = "inbox" THEN @ \cup {m} ELSE @]
    BY <1>2
  <2>2. PICK t, l, y : t = o.todo /\ l = o.late \ {m} /\ y = IF mail[m] = "inbox" THEN o.yes \cup {m} ELSE o.yes
    OBVIOUS
  <2>3. next = [o EXCEPT !.todo = t, !.late = l, !.yes = y]
    BY <2>1, <2>2
  <2>4. t \subseteq o.todo /\ l \cup y \subseteq o.job.picks /\ \A x \in y : x \in o.yes \/ mail[x] = "inbox"
    BY <2>2
  <2> QED BY <2>3, <2>4 DEF Passes
<1> QED BY <1>1, <1>2 DEF Rechecked

LEMMA TrashRecheckFits == ASSUME DevInv, NEW j \in DevJobs, TrashRecheck(j) PROVE DevInv'
<1>1. PICK o : o = op[<<"trash", j>>]
  OBVIOUS
<1>2. o # NoOp /\ o.pc = "recheck" /\ o.pc \in Early
  <2>1. o.pc = "recheck"
    BY <1>1 DEF TrashRecheck
  <2> QED BY <2>1 DEF NoOp, Early
<1>3. PICK B : B = Base(j, o.job)
  OBVIOUS
<1>4. PICK c : c = o.job
  OBVIOUS
<1>5. /\ Shapes /\ Surroundings /\ MailFits /\ o \in Operations("trash") /\ c \in Jobs
      /\ B \in Jobs /\ Alike(B, c) /\ RecordFits(j, B) /\ \A patch : Updated(j, c, patch) = Patched(B, patch)
      /\ Cardinality(c.picks) = c.wanted /\ ~c.bench /\ c.status = "running" /\ c.proof = "none"
      /\ c.tally = NoTally /\ c.moved = NoDelta /\ c.restored = NoDelta /\ c.picks \subseteq Letters
      /\ ~witness[j].dropped
  BY <1>1, <1>2, <1>3, <1>4, TrashBase
<1>6. /\ ~Moved(j) /\ ~c.started /\ o.yes \cup o.late \subseteq c.picks /\ o.yes \cap witness[j].shield = {}
      /\ o.no = {} /\ o.unsure = {} /\ witness[j].in = {}
  BY <1>1, <1>2, <1>4, TrashEarly
<1>7. UNCHANGED <<posts, mail, report, made, witness>>
  BY DEF TrashRecheck
<1>8. Surroundings' /\ around'.faults = around.faults
  BY <1>5, <1>7, FaultsFit DEF TrashRecheck, FailsTheCheck
<1>9. CASE FailsTheCheck /\ Leave(<<"trash", j>>) /\ Write(j, o.job, [status |-> "failed"])
  <2>1. PICK s \in Unmoved : s = "failed" /\ s # "running"
    BY DEF Unmoved
  <2>2. Write(j, o.job, [status |-> s])
    BY <1>9, <2>1
  <2> QED BY <1>1, <1>2, <1>7, <1>8, <1>9, <2>1, <2>2, TrashGivesUp
<1>10. ASSUME NEW next \in Rechecked(o),
              IF Settled(next)
              THEN /\ jobs' = [jobs EXCEPT ![j] = Updated(j, o.job, RecheckEnds(next))]
                   /\ IF jobs'[j].started
                      THEN Enter(<<"trash", j>>, [next EXCEPT !.pc = "batch", !.job = jobs'[j], !.todo = next.yes])
                      ELSE Leave(<<"trash", j>>)
              ELSE Enter(<<"trash", j>>, next) /\ UNCHANGED jobs
       PROVE  DevInv'
  <2>1. Passes(o, next)
    <3>1. {"todo", "late", "yes", "job"} \subseteq DOMAIN o /\ o = [f \in DOMAIN o |-> o[f]]
      BY <1>5 DEF Operations
    <3>2. o.yes \cup o.late \subseteq o.job.picks /\ o.job.picks \subseteq Letters
      BY <1>4, <1>5, <1>6
    <3> QED BY <3>1, <3>2, RecheckedIs
  <2>2. PICK t, l, y : /\ next = [o EXCEPT !.todo = t, !.late = l, !.yes = y]
                       /\ t \subseteq o.todo /\ l \cup y \subseteq o.job.picks
                       /\ \A m \in y : m \in o.yes \/ mail[m] = "inbox"
    BY <2>1, Zenon DEF Passes
  <2>3. /\ next = [o EXCEPT !.todo = t, !.late = l, !.yes = y]
        /\ t \subseteq o.todo /\ l \cup y \subseteq c.picks
        /\ \A m \in y : m \in o.yes \/ mail[m] = "inbox"
    BY <1>4, <2>2
  <2>4. /\ next \in Operations("trash") /\ next.job = c /\ next.pc = "recheck" /\ next.todo = t /\ next.late = l
        /\ next.yes = y /\ next.no = {} /\ next.unsure = {}
    BY <1>2, <1>4, <1>5, <1>6, <2>3 DEF Operations
  <2>5. y \cap witness[j].shield = {} /\ y \subseteq Letters
    <3>1. \A m \in witness[j].shield : mail[m] \in {"kept", "binned"}
      BY <1>5 DEF MailFits
    <3> QED BY <1>5, <1>6, <2>3, <3>1
  <2>6. CASE ~Settled(next)
    <3>1. op' = [op EXCEPT ![<<"trash", j>>] = next] /\ UNCHANGED jobs
      BY <1>10, <2>6 DEF Enter
    <3>2. next.pc \in {"context", "recheck"} /\ next.yes \cup next.late \subseteq o.job.picks /\ next.yes \cap witness[j].shield = {}
      BY <1>4, <2>3, <2>4, <2>5
    <3>3. next \in Operations("trash") /\ next.job = o.job /\ next.no = {} /\ next.unsure = {} /\ o.pc # "begin"
      BY <1>2, <1>4, <2>4
    <3> QED BY <1>1, <1>2, <1>7, <1>8, <3>1, <3>2, <3>3, TrashGoesOn
  <2>7. CASE Settled(next) /\ Cardinality(y) # c.wanted
    <3>1. PICK n \in Nat : n = Cardinality(y)
      BY <2>5, LettersCount
    <3>2. RecheckEnds(next) = [status |-> "insufficient", resolved |-> n, picks |-> y]
      BY <2>4, <2>7, <3>1 DEF RecheckEnds
    <3>3. PICK s \in Statuses : s = "insufficient" /\ s \in Unmoved /\ s # "running"
      BY DEF Statuses, Unmoved
    <3>4. PICK b : b = Patched(B, [status |-> s, resolved |-> n, picks |-> y])
      OBVIOUS
    <3>5. LET r == Patched(B, [status |-> s, resolved |-> n, picks |-> y])
          IN r = [B EXCEPT !.status = s, !.resolved = n, !.picks = y] /\ r \in Jobs
      BY <1>5, <2>5, LessPatch, Zenon
    <3>6. b = [B EXCEPT !.status = s, !.resolved = n, !.picks = y] /\ b \in Jobs
      BY <3>4, <3>5
    <3>7. /\ b \in Jobs /\ b.status = s /\ b.resolved = n /\ b.picks = y /\ b.started = B.started /\ b.proof = B.proof
          /\ b.tally = B.tally /\ b.moved = B.moved /\ b.restored = B.restored
      BY <1>5, <3>6 DEF Jobs
    <3>8. /\ b.status \in Unmoved /\ b.status # "running" /\ b.resolved = Cardinality(b.picks) /\ b.proof = "none"
          /\ b.tally = NoTally /\ b.moved = NoDelta /\ b.restored = NoDelta /\ ~b.started
      BY <1>5, <1>6, <3>1, <3>3, <3>7 DEF Alike
    <3>9. jobs' = [jobs EXCEPT ![j] = b] /\ Leave(<<"trash", j>>)
      <4>1. jobs' = [jobs EXCEPT ![j] = b]
        BY <1>4, <1>5, <1>10, <2>7, <3>2, <3>3, <3>4
      <4>2. jobs'[j] = b
        BY <1>5, <4>1 DEF Shapes
      <4> QED BY <1>10, <2>7, <3>8, <4>1, <4>2
    <3> QED BY <1>1, <1>2, <1>7, <1>8, <3>7, <3>8, <3>9, TrashEndsEarly
  <2>8. CASE Settled(next) /\ Cardinality(y) = c.wanted
    <3>1. PICK n \in Nat : n = Cardinality(y)
      BY <2>5, LettersCount
    <3>2. PICK v \in BOOLEAN : v = TRUE
      OBVIOUS
    <3>3. RecheckEnds(next) = [started |-> v, attempted |-> n]
      BY <2>4, <2>8, <3>1, <3>2 DEF RecheckEnds
    <3>4. PICK b : b = Patched(B, [started |-> v, attempted |-> n])
      OBVIOUS
    <3>5. LET r == Patched(B, [started |-> v, attempted |-> n])
          IN r = [B EXCEPT !.started = v, !.attempted = n] /\ r \in Jobs
      BY <1>5, StartPatch, Zenon
    <3>6. b = [B EXCEPT !.started = v, !.attempted = n] /\ b \in Jobs
      BY <3>4, <3>5
    <3>7. /\ b \in Jobs /\ b.status = B.status /\ b.resolved = B.resolved /\ b.picks = B.picks /\ b.started
          /\ b.attempted = n /\ b.wanted = B.wanted /\ b.bench = B.bench /\ b.proof = B.proof
          /\ b.tally = B.tally /\ b.moved = B.moved /\ b.restored = B.restored
      BY <1>5, <3>2, <3>6 DEF Jobs
    <3>8. y = c.picks
      BY <1>5, <2>3, <2>8, SameSize
    <3>9. /\ b.status = "running" /\ b.resolved = Cardinality(b.picks) /\ b.proof = "none" /\ b.picks = y
          /\ b.tally = NoTally /\ b.moved = NoDelta /\ b.restored = NoDelta /\ ~b.bench
          /\ b.attempted = Cardinality(b.picks) /\ Cardinality(b.picks) = b.wanted
      BY <1>5, <2>8, <3>1, <3>7, <3>8 DEF Alike, RecordFits
    <3>10. PICK r : r = [next EXCEPT !.pc = "batch", !.job = b, !.todo = y]
      OBVIOUS
    <3>11. /\ r \in Operations("trash") /\ r.pc = "batch" /\ r.job = b /\ r.todo = y /\ r.yes = y /\ r.no = {}
           /\ r.unsure = {} /\ r # NoOp
      BY <2>4, <2>5, <3>7, <3>10 DEF Operations, Phases, NoOp
    <3>12. jobs' = [jobs EXCEPT ![j] = b]
      BY <1>4, <1>5, <1>10, <2>8, <3>3, <3>4
    <3>13. DOMAIN jobs' = DevJobs /\ jobs'[j] = b /\ \A i \in DevJobs : i # j => jobs'[i] = jobs[i]
      BY <1>5, <3>12 DEF Shapes
    <3>14. op' = [op EXCEPT ![<<"trash", j>>] = r]
      BY <1>10, <2>4, <2>8, <3>7, <3>10, <3>13 DEF Enter
    <3>15. op'[<<"trash", j>>] = r /\ (~Busy("undo", j) /\ ~Busy("proof", j) /\ ~Posted(j))'
      BY <1>1, <1>2, <1>7, <3>14, TrashAlone
    <3>16. RecordFits(j, b)' /\ (~Moved(j))'
      BY <1>6, <1>7, <3>7, <3>9 DEF RecordFits, Moved, Unmoved
    <3>17. Alike(b, b)
      BY DEF Alike
    <3>18. y \cap witness'[j].shield = {} /\ witness'[j].in = {} /\ ~witness'[j].dropped
      BY <1>5, <1>6, <1>7, <2>5
    <3>19. TrashFits(j)'
      BY <3>7, <3>9, <3>11, <3>13, <3>15, <3>16, <3>17, <3>18 DEF TrashFits, Early
    <3>20. Outcome(j, b, r)'
      BY <3>9, <3>11, <3>16 DEF Outcome
    <3>21. /\ witness' \in [DevJobs -> Witnesses] /\ (~Moved(j) => witness[j].in = {})' /\ witness' = witness
           /\ MailFits' /\ UNCHANGED <<made, posts>>
      BY <1>5, <1>6, <1>7 DEF Shapes, MailFits
    <3> QED BY <1>1, <1>2, <1>8, <3>13, <3>14, <3>19, <3>20, <3>21, TrashStep
  <2> QED BY <2>6, <2>7, <2>8
<1> QED BY <1>1, <1>9, <1>10 DEF TrashRecheck

\* The n-th attempt to send the batch: no earlier one was answered.
Sending(j, n) ==
  LET o == op[<<"trash", j>>]
  IN (o.pc = "batch" /\ n = 1) \/ (o.pc = "resend" /\ n = o.tries + 1)

LEMMA SendingFits ==
  ASSUME DevInv, NEW j \in DevJobs, NEW n, Sending(j, n), NEW o, o = op[<<"trash", j>>]
  PROVE  /\ o # NoOp /\ o.pc \notin {"begin", "verify"} /\ n \in Nat /\ n # 0 /\ n <= RetryAttempts
         /\ witness[j].batches = n - 1
         /\ n # 1 => ~witness[j].answered /\ witness[j].letters = o.job.picks
         /\ o.no = {} /\ o.unsure = {} /\ witness[j].in = {} /\ o.todo = o.job.picks
         /\ o.job.started /\ o.job.attempted = Cardinality(o.job.picks) /\ o.job.picks \cap witness[j].shield = {}
         /\ jobs[j] # NoJob => Alike(jobs[j], o.job)
<1>1. o.pc \in {"batch", "resend"}
  BY DEF Sending
<1>2. o # NoOp
  BY <1>1 DEF NoOp
<1>3. TrashFits(j) /\ witness \in [DevJobs -> Witnesses]
  BY DEF DevInv, Shapes
<1>4. /\ o.no = {} /\ o.unsure = {} /\ witness[j].in = {} /\ o.todo = o.job.picks
      /\ o.job.started /\ o.job.attempted = Cardinality(o.job.picks) /\ o.job.picks \cap witness[j].shield = {}
      /\ jobs[j] # NoJob => Alike(jobs[j], o.job)
      /\ RecordFits(j, o.job) /\ o \in Operations("trash") /\ (Moved(j) <=> o.pc = "resend")
      /\ o.pc = "resend" => ~witness[j].answered /\ witness[j].batches = o.tries /\ o.tries < RetryAttempts
  BY <1>1, <1>2, <1>3 DEF TrashFits
<1>5. CASE o.pc = "batch"
  <2>1. n = 1 /\ witness[j].batches = 0
    BY <1>4, <1>5 DEF Sending, Moved
  <2> QED BY <1>2, <1>4, <1>5, <2>1, DevAssumption
<1>6. CASE o.pc = "resend"
  <2>1. n = o.tries + 1 /\ o.tries \in Nat /\ witness[j].batches = o.tries
    BY <1>4, <1>6 DEF Sending, Operations
  <2>2. witness[j].letters = o.job.picks
    BY <1>4, <1>6 DEF RecordFits
  <2> QED BY <1>2, <1>4, <1>6, <2>1, <2>2, DevAssumption
<1> QED BY <1>1, <1>5, <1>6

LEMMA TrashAttemptFits ==
  ASSUME DevInv, NEW j \in DevJobs, NEW n, Sending(j, n), TrashAttempt(j, n)
  PROVE  DevInv'
<1>1. PICK o : o = op[<<"trash", j>>]
  OBVIOUS
<1>2. o.pc # "begin" /\ n \in Nat /\ n # 0 /\ witness[j].batches = n - 1
  BY <1>1, SendingFits
<1>3. o # NoOp
  BY <1>1, SendingFits
<1>4. PICK c : c = o.job
  OBVIOUS
<1>5. /\ Shapes /\ Surroundings /\ MailFits /\ JobFits(j) /\ o \in Operations("trash") /\ c \in Jobs
      /\ RecordFits(j, c) /\ ~witness[j].dropped
      /\ Cardinality(c.picks) = c.wanted /\ ~c.bench /\ c.status = "running" /\ c.proof = "none"
      /\ c.tally = NoTally /\ c.moved = NoDelta /\ c.restored = NoDelta /\ c.picks \subseteq Letters
  BY <1>1, <1>2, <1>3, <1>4, TrashBase
<1>6. /\ o.no = {} /\ o.unsure = {} /\ witness[j].in = {} /\ o.todo = c.picks
      /\ c.started /\ c.attempted = Cardinality(c.picks) /\ c.picks \cap witness[j].shield = {}
      /\ jobs[j] # NoJob => Alike(jobs[j], c)
  BY <1>1, <1>4, SendingFits
<1>7. PICK r, answered :
        /\ answered \in BOOLEAN /\ op' = [op EXCEPT ![<<"trash", j>>] = r]
        /\ \/ r = [o EXCEPT !.pc = "stale"]
           \/ ~answered /\ n < RetryAttempts /\ r = [o EXCEPT !.pc = "resend", !.tries = n]
        /\ witness' = [witness EXCEPT ![j].batches = @ + 1, ![j].letters = c.picks, ![j].answered = answered]
        /\ Applied(o.todo, ToTrash, answered)
  BY <1>1, <1>6 DEF TrashAttempt, Enter
<1>8. UNCHANGED <<jobs, posts, report, made>>
  BY DEF TrashAttempt
<1>9. (Free \/ Costs(1)) /\ mail' \in {mail, Put(o.todo, ToTrash)}
  BY <1>7 DEF Applied
<1>10. Surroundings' /\ around'.faults = around.faults
  BY <1>5, <1>8, <1>9, FaultsFit
<1>11. /\ witness' \in [DevJobs -> Witnesses] /\ \A i \in DevJobs : i # j => witness'[i] = witness[i]
       /\ witness'[j].batches = n /\ witness'[j].batches # 0
       /\ witness'[j].letters = c.picks /\ witness'[j].answered = answered /\ witness'[j].in = {}
       /\ witness'[j].dropped = witness[j].dropped /\ witness'[j].shield = witness[j].shield
  <2>1. PICK w, v : w = witness[j] /\ v = [w EXCEPT !.batches = n, !.letters = c.picks, !.answered = answered]
    OBVIOUS
  <2>2. w \in Witnesses /\ w.batches + 1 = n /\ answered \in BOOLEAN
    BY <1>2, <1>5, <1>7, <2>1 DEF Shapes
  <2>3. witness' = [witness EXCEPT ![j] = v]
    BY <1>5, <1>7, <2>1, <2>2 DEF Shapes
  <2>4. /\ v \in Witnesses /\ v.batches = n /\ v.letters = c.picks /\ v.answered = answered
        /\ v.in = w.in /\ v.dropped = w.dropped /\ v.shield = w.shield
    BY <1>2, <1>5, <2>1, <2>2 DEF Witnesses
  <2> QED BY <1>2, <1>5, <1>6, <2>1, <2>3, <2>4 DEF Shapes
<1>12. MailFits'
  <2>1. \A i \in DevJobs : witness'[i].shield = witness[i].shield
    BY <1>11
  <2> QED BY <1>5, <1>9, <2>1, PutFits
<1>13. /\ r \in Operations("trash") /\ r # NoOp /\ r.job = c /\ r.todo = c.picks /\ r.no = {} /\ r.unsure = {}
       /\ r.pc = "stale" \/ (r.pc = "resend" /\ r.tries = n /\ n < RetryAttempts /\ ~answered)
  BY <1>2, <1>4, <1>5, <1>6, <1>7 DEF Operations, Phases, NoOp
<1>14. PICK b : b = jobs[j]
  OBVIOUS
<1>15. b # NoJob => Alike(b, c) /\ RecordFits(j, b)
  BY <1>5, <1>6, <1>14 DEF JobFits
<1>16. Moved(j)'
  BY <1>11 DEF Moved
<1>17. RecordFits(j, c)'
  BY <1>5, <1>6, <1>11, <1>16 DEF RecordFits
<1>18. b # NoJob => RecordFits(j, b)' /\ b.status = "running" /\ b.proof = "none"
  BY <1>5, <1>6, <1>11, <1>15, <1>16 DEF RecordFits, Alike
<1>19. op'[<<"trash", j>>] = r /\ (~Busy("undo", j) /\ ~Busy("proof", j) /\ ~Posted(j))'
  BY <1>1, <1>3, <1>7, <1>8, TrashAlone
<1>20. TrashFits(j)'
  <2>1. jobs'[j] = b /\ ~witness'[j].dropped
    BY <1>5, <1>8, <1>11, <1>14
  <2> QED BY <1>5, <1>6, <1>11, <1>13, <1>15, <1>16, <1>17, <1>19, <2>1 DEF TrashFits, Early
<1>21. Outcome(j, b, r)'
  BY <1>13, <1>18 DEF Outcome
<1>22. DOMAIN jobs' = DevJobs /\ jobs'[j] = b /\ \A i \in DevJobs : i # j => jobs'[i] = jobs[i]
  BY <1>5, <1>8, <1>14 DEF Shapes
<1>23. (~Moved(j) => witness[j].in = {})' /\ UNCHANGED <<made, posts>>
  BY <1>8, <1>16
<1> QED BY <1>1, <1>3, <1>7, <1>8, <1>10, <1>11, <1>12, <1>20, <1>21, <1>22, <1>23, TrashStep

LEMMA TrashBatchFits == ASSUME DevInv, NEW j \in DevJobs, TrashBatch(j) \/ TrashResend(j) PROVE DevInv'
<1>1. PICK n : Sending(j, n) /\ TrashAttempt(j, n)
  BY DEF TrashBatch, TrashResend, Sending
<1> QED BY <1>1, TrashAttemptFits

LEMMA TrashStaleFits == ASSUME DevInv, NEW j \in DevJobs, TrashStale(j) PROVE DevInv'
<1>1. PICK o : o = op[<<"trash", j>>]
  OBVIOUS
<1>2. o.pc = "stale"
  BY <1>1 DEF TrashStale
<1>3. o # NoOp
  BY <1>2 DEF NoOp
<1>4. PICK c : c = o.job
  OBVIOUS
<1>5. /\ Shapes /\ Surroundings /\ MailFits /\ JobFits(j) /\ o \in Operations("trash") /\ c \in Jobs
      /\ RecordFits(j, c) /\ ~witness[j].dropped
      /\ Cardinality(c.picks) = c.wanted /\ ~c.bench /\ c.status = "running" /\ c.proof = "none"
      /\ c.tally = NoTally /\ c.moved = NoDelta /\ c.restored = NoDelta /\ c.picks \subseteq Letters
  BY <1>1, <1>2, <1>3, <1>4, TrashBase
<1>6. /\ o.no = {} /\ o.unsure = {} /\ witness[j].in = {} /\ o.todo = c.picks /\ Moved(j)
      /\ jobs[j] # NoJob => Alike(jobs[j], c)
  BY <1>1, <1>2, <1>3, <1>4 DEF DevInv, TrashFits
<1>7. PICK b : b = jobs[j]
  OBVIOUS
<1>8. UNCHANGED <<jobs, posts, mail, made, witness>>
  BY DEF TrashStale
<1>9. /\ DOMAIN jobs' = DevJobs /\ jobs'[j] = b /\ \A i \in DevJobs : i # j => jobs'[i] = jobs[i]
      /\ witness' \in [DevJobs -> Witnesses] /\ witness' = witness /\ MailFits' /\ UNCHANGED <<made, posts>>
  BY <1>5, <1>7, <1>8 DEF Shapes, MailFits
<1>10. Moved(j)' /\ (~Moved(j) => witness[j].in = {})'
  BY <1>6, <1>8 DEF Moved
<1>11. RecordFits(j, c)' /\ (b # NoJob => RecordFits(j, b)' /\ Alike(b, c))
  BY <1>5, <1>6, <1>7, <1>8 DEF RecordFits, Moved, JobFits
<1>12. b # NoJob => b.status = "running" /\ b.proof = "none"
  BY <1>5, <1>11 DEF Alike
<1>13. CASE Free /\ report' = [report EXCEPT !.stale = TRUE] /\ Enter(<<"trash", j>>, [o EXCEPT !.pc = "verify", !.yes = {}])
  <2>1. PICK r : r = [o EXCEPT !.pc = "verify", !.yes = {}]
    OBVIOUS
  <2>2. op' = [op EXCEPT ![<<"trash", j>>] = r]
    BY <1>13, <2>1 DEF Enter
  <2>3. /\ r \in Operations("trash") /\ r # NoOp /\ r.pc = "verify" /\ r.job = c /\ r.todo = c.picks
        /\ r.yes = {} /\ r.no = {} /\ r.unsure = {}
    BY <1>4, <1>5, <1>6, <2>1 DEF Operations, Phases, NoOp
  <2>4. Surroundings' /\ around'.faults = around.faults
    BY <1>5, <1>13 DEF Surroundings, Free
  <2>5. op'[<<"trash", j>>] = r /\ (~Busy("undo", j) /\ ~Busy("proof", j) /\ ~Posted(j))'
    BY <1>1, <1>3, <1>9, <2>2, TrashAlone
  <2>6. TrashFits(j)'
    <3>1. witness'[j].in = {} /\ ~witness'[j].dropped
      BY <1>5, <1>6, <1>9
    <3> QED BY <1>5, <1>9, <1>10, <1>11, <2>3, <2>5, <3>1 DEF TrashFits, Early
  <2>7. Outcome(j, b, r)'
    BY <1>11, <1>12, <2>3 DEF Outcome
  <2> QED BY <1>1, <1>3, <1>9, <1>10, <2>2, <2>4, <2>6, <2>7, TrashStep
<1>14. CASE Possible("stale") /\ Costs(1) /\ UNCHANGED report /\ Leave(<<"trash", j>>)
  <2>1. Surroundings' /\ around'.faults = around.faults /\ "stale" \in around.faults
    BY <1>5, <1>14, FaultsFit DEF Possible
  <2>2. op' = [op EXCEPT ![<<"trash", j>>] = NoOp]
    BY <1>14 DEF Leave
  <2>3. b # NoJob => AnswersFit(j, b)'
    <3>1. SUFFICES ASSUME b # NoJob PROVE AnswersFit(j, b)'
      OBVIOUS
    <3>2. b.moved = NoDelta /\ b.restored = NoDelta /\ b.tally = NoTally /\ b.status = "running" /\ b \in Jobs
      BY <1>5, <1>11, <3>1 DEF Alike, RecordFits
    <3>3. b.moved = ByGroup(witness'[j].in)
      BY <1>6, <1>9, <3>2, NothingByGroup
    <3>4. \A g \in Groups : b.restored[g] <= b.moved[g]
      BY <3>2 DEF NoDelta
    <3> QED BY <3>2, <3>3, <3>4 DEF AnswersFit
  <2>4. Outcome(j, b, NoOp)'
    BY <1>11, <1>12, <2>1, <2>3 DEF Outcome
  <2> QED BY <1>1, <1>3, <1>9, <1>10, <2>1, <2>2, <2>4, TrashStep
<1> QED BY <1>1, <1>13, <1>14 DEF TrashStale

\* The counts of a verification are the messages it was about.
LEMMA VerifiedFits ==
  ASSUME NEW o \in Operations("trash"), o.job.moved = NoDelta,
         o.yes \cup o.no \cup o.unsure = o.job.picks, o.yes \cap (o.no \cup o.unsure) = {}, o.no \cap o.unsure = {}
  PROVE  \E s \in Statuses, t \in Tallies :
           /\ Verified(o) = [status |-> s, tally |-> t, moved |-> ByGroup(o.yes)]
           /\ s \in {"completed", "failed", "partial"} /\ (s = "completed" => o.yes = o.job.picks)
           /\ t.verified + t.failed + t.uncertain = Cardinality(o.job.picks)
           /\ t.verified = Cardinality(o.yes)
<1>1. PICK t : t = Tally(o)
  OBVIOUS
<1>2. o.yes \subseteq Letters /\ o.no \subseteq Letters /\ o.unsure \subseteq Letters
  BY DEF Operations
<1>3. t \in Tallies
  BY <1>1, TallyType
<1>4. /\ t.verified = Cardinality(o.yes) /\ t.failed = Cardinality(o.no) /\ t.uncertain = Cardinality(o.unsure)
  BY <1>1 DEF Tally
<1>5. Cardinality(o.yes \cup o.no \cup o.unsure) = Cardinality(o.yes) + Cardinality(o.no) + Cardinality(o.unsure)
  BY <1>2, ThreeParts
<1>6. PICK more : more = ByGroup(o.yes)
  OBVIOUS
<1>7. [g \in Groups |-> o.job.moved[g] + more[g]] = more
  <2>1. more \in [Groups -> Nat]
    BY <1>2, <1>6, ByGroupType
  <2>2. \A g \in Groups : o.job.moved[g] + more[g] = more[g]
    BY <2>1 DEF NoDelta
  <2> QED BY <2>1, <2>2
<1>8. PICK s : s = CASE o.yes = o.job.picks -> "completed" [] o.no = o.job.picks -> "failed" [] OTHER -> "partial"
  OBVIOUS
<1>9. s \in {"completed", "failed", "partial"} /\ (s = "completed" => o.yes = o.job.picks)
  <2>1. CASE o.yes = o.job.picks
    <3>1. CASE o.no = o.job.picks
      BY <1>8, <2>1, <3>1
    <3>2. CASE o.no # o.job.picks
      BY <1>8, <2>1, <3>2
    <3> QED BY <3>1, <3>2
  <2>2. CASE o.yes # o.job.picks
    BY <1>8, <2>2
  <2> QED BY <2>1, <2>2
<1>10. s \in Statuses
  BY <1>9 DEF Statuses, Unmoved
<1>11. Verified(o) = [status |-> s, tally |-> t, moved |-> more]
  BY <1>1, <1>6, <1>7, <1>8 DEF Verified
<1> QED BY <1>3, <1>4, <1>5, <1>6, <1>9, <1>10, <1>11

LEMMA TrashVerifyFits == ASSUME DevInv, NEW j \in DevJobs, TrashVerify(j) PROVE DevInv'
<1>1. PICK o : o = op[<<"trash", j>>]
  OBVIOUS
<1>2. o.pc = "verify"
  BY <1>1 DEF TrashVerify
<1>3. o # NoOp
  BY <1>2 DEF NoOp
<1>4. PICK c : c = o.job
  OBVIOUS
<1>5. PICK B : B = Base(j, c)
  OBVIOUS
<1>6. /\ Shapes /\ Surroundings /\ MailFits /\ JobFits(j) /\ o \in Operations("trash") /\ c \in Jobs
      /\ B \in Jobs /\ Alike(B, c) /\ RecordFits(j, B) /\ \A patch : Updated(j, c, patch) = Patched(B, patch)
      /\ RecordFits(j, c) /\ ~witness[j].dropped
      /\ Cardinality(c.picks) = c.wanted /\ ~c.bench /\ c.status = "running" /\ c.proof = "none"
      /\ c.tally = NoTally /\ c.moved = NoDelta /\ c.restored = NoDelta /\ c.picks \subseteq Letters
  BY <1>1, <1>2, <1>3, <1>4, <1>5, TrashBase
<1>7. /\ Moved(j) /\ o.yes = witness[j].in /\ o.todo \cup o.yes \cup o.no \cup o.unsure = c.picks
      /\ o.todo \cap (o.yes \cup o.no \cup o.unsure) = {}
      /\ o.yes \cap (o.no \cup o.unsure) = {} /\ o.no \cap o.unsure = {}
      /\ jobs[j] # NoJob => Alike(jobs[j], c)
  BY <1>1, <1>2, <1>3, <1>4 DEF DevInv, TrashFits, Early
<1>8. PICK m \in FirstOf(o.todo, 1), reading \in {"in", "out", "refused", "unclear"} :
        LET next == Filed(o, m, InTrash(reading))
        IN /\ Reads(m, reading)
           /\ IF reading = "in" THEN Saw(j, "in", {m}) ELSE UNCHANGED witness
           /\ IF next.todo = {}
              THEN Leave(<<"trash", j>>) /\ Write(j, c, Verified(next))
              ELSE Enter(<<"trash", j>>, next) /\ UNCHANGED jobs
  BY <1>1, <1>4 DEF TrashVerify
<1>9. PICK file : file = InTrash(reading)
  OBVIOUS
<1>10. file \in {"yes", "no", "unsure"} /\ (file = "yes" <=> reading = "in")
  BY <1>9 DEF InTrash
<1>11. PICK next : next = Filed(o, m, file)
  OBVIOUS
<1>12. m \in o.todo /\ m \in Letters
  BY <1>6, <1>7, <1>8, FirstIsOne
<1>13. next \in Operations("trash") /\ next.job = o.job /\ next.pc = o.pc /\ next.todo = o.todo \ {m}
  BY <1>6, <1>11, <1>12, FiledFits
<1>14. /\ next.yes = o.yes \cup {x \in {m} : file = "yes"}
       /\ next.no = o.no \cup {x \in {m} : file = "no"}
       /\ next.unsure = o.unsure \cup {x \in {m} : file = "unsure"}
  BY <1>6, <1>11, <1>12, FiledUnder
<1>15. /\ next.todo \cup next.yes \cup next.no \cup next.unsure = c.picks
       /\ next.todo \cap (next.yes \cup next.no \cup next.unsure) = {}
       /\ next.yes \cap (next.no \cup next.unsure) = {} /\ next.no \cap next.unsure = {}
  <2>1. CASE file = "yes"
    BY <1>7, <1>12, <1>13, <1>14, <2>1
  <2>2. CASE file = "no"
    BY <1>7, <1>12, <1>13, <1>14, <2>2
  <2>3. CASE file = "unsure"
    BY <1>7, <1>12, <1>13, <1>14, <2>3
  <2> QED BY <1>10, <2>1, <2>2, <2>3
<1>16. UNCHANGED <<posts, mail, report, made>>
  BY DEF TrashVerify
<1>17. Surroundings' /\ around'.faults = around.faults
  BY <1>6, <1>8, <1>16, ReadsFit
<1>18. /\ witness' \in [DevJobs -> Witnesses] /\ \A i \in DevJobs : i # j => witness'[i] = witness[i]
       /\ witness'[j].batches = witness[j].batches /\ witness'[j].letters = witness[j].letters
       /\ witness'[j].in = next.yes /\ witness'[j].out = witness[j].out
       /\ witness'[j].dropped = witness[j].dropped /\ witness'[j].shield = witness[j].shield
  <2>1. CASE reading = "in"
    <3>1. witness' = [witness EXCEPT ![j].in = next.yes]
      <4>1. witness' = [witness EXCEPT ![j].in = @ \cup {m}]
        BY <1>8, <2>1 DEF Saw
      <4>2. next.yes = witness[j].in \cup {m}
        BY <1>7, <1>10, <1>14, <2>1
      <4> QED BY <4>1, <4>2
    <3>2. next.yes \subseteq Letters
      BY <1>13 DEF Operations
    <3> QED BY <1>6, <3>1, <3>2 DEF Shapes, Witnesses
  <2>2. CASE reading # "in"
    <3>1. witness' = witness
      BY <1>8, <2>2
    <3>2. next.yes = o.yes
      BY <1>10, <1>14, <2>2
    <3> QED BY <1>6, <1>7, <3>1, <3>2 DEF Shapes
  <2> QED BY <2>1, <2>2
<1>19. MailFits'
  BY <1>6, <1>16, <1>18 DEF MailFits
<1>20. Moved(j)' /\ (~Moved(j) => witness[j].in = {})' /\ UNCHANGED <<made, posts>>
  BY <1>7, <1>16, <1>18 DEF Moved
<1>21. RecordFits(j, c)' /\ RecordFits(j, B)'
  BY <1>6, <1>7, <1>18 DEF RecordFits, Moved
<1>22. CASE next.todo # {}
  <2>1. op' = [op EXCEPT ![<<"trash", j>>] = next] /\ jobs' = jobs
    BY <1>8, <1>9, <1>11, <1>22 DEF Enter
  <2>2. PICK b : b = jobs[j]
    OBVIOUS
  <2>3. b # NoJob => b = B /\ Alike(b, c)
    BY <1>5, <1>7, <2>2 DEF Base
  <2>4. DOMAIN jobs' = DevJobs /\ jobs'[j] = b /\ \A i \in DevJobs : i # j => jobs'[i] = jobs[i]
    BY <1>6, <2>1, <2>2 DEF Shapes
  <2>5. next # NoOp
    BY <1>13 DEF Operations, NoOp
  <2>6. b # NoJob => b.status = "running" /\ b.proof = "none" /\ RecordFits(j, b)'
    BY <1>6, <1>21, <2>3 DEF Alike
  <2>7. Outcome(j, b, next)'
    BY <2>5, <2>6 DEF Outcome
  <2>8. op'[<<"trash", j>>] = next /\ (~Busy("undo", j) /\ ~Busy("proof", j) /\ ~Posted(j))'
    BY <1>1, <1>3, <1>16, <2>1, TrashAlone
  <2>9. next.pc = "verify" /\ next.job = c /\ next \in Operations("trash") /\ next # NoOp
    BY <1>2, <1>4, <1>13, <2>5
  <2>10. TrashFits(j)'
    BY <1>6, <1>15, <1>18, <1>20, <1>21, <2>3, <2>4, <2>8, <2>9 DEF TrashFits, Early
  <2> QED BY <1>1, <1>3, <1>17, <1>18, <1>19, <1>20, <2>1, <2>4, <2>7, <2>10, TrashStep
<1>23. CASE next.todo = {}
  <2>1. Leave(<<"trash", j>>) /\ Write(j, c, Verified(next))
    BY <1>8, <1>9, <1>11, <1>23
  <2>2. op' = [op EXCEPT ![<<"trash", j>>] = NoOp]
    BY <2>1 DEF Leave
  <2>3. PICK y : y = next.yes
    OBVIOUS
  <2>4. PICK more : more = ByGroup(y)
    OBVIOUS
  <2>5. y \subseteq Letters /\ more \in [Groups -> Nat]
    <3>1. y \subseteq Letters
      BY <1>13, <2>3 DEF Operations
    <3> QED BY <2>4, <3>1, ByGroupType
  <2>6. PICK s \in Statuses, t \in Tallies :
          /\ Verified(next) = [status |-> s, tally |-> t, moved |-> more]
          /\ s \in {"completed", "failed", "partial"} /\ (s = "completed" => y = c.picks)
          /\ t.verified + t.failed + t.uncertain = Cardinality(c.picks)
          /\ t.verified = Cardinality(y)
    <3>1. next.job = c /\ next.job.moved = NoDelta /\ next.yes \cup next.no \cup next.unsure = next.job.picks
      BY <1>4, <1>6, <1>13, <1>15, <1>23
    <3> QED BY <1>13, <1>15, <2>3, <2>4, <3>1, VerifiedFits
  <2>7. PICK b : b = Patched(B, [status |-> s, tally |-> t, moved |-> more])
    OBVIOUS
  <2>8. LET r == Patched(B, [status |-> s, tally |-> t, moved |-> more])
        IN r = [B EXCEPT !.status = s, !.tally = t, !.moved = more] /\ r \in Jobs
    BY <1>6, <2>5, VerifiedPatch, Zenon
  <2>9. b = [B EXCEPT !.status = s, !.tally = t, !.moved = more] /\ b \in Jobs
    BY <2>7, <2>8
  <2>10. /\ b \in Jobs /\ b.status = s /\ b.tally = t /\ b.moved = more /\ b.picks = B.picks /\ b.resolved = B.resolved
         /\ b.started = B.started /\ b.attempted = B.attempted /\ b.bench = B.bench /\ b.proof = B.proof
         /\ b.restored = B.restored
    BY <1>6, <2>9 DEF Jobs
  <2>11. b.proof = "none" /\ b.restored = NoDelta /\ b.picks = c.picks /\ b.attempted = Cardinality(c.picks)
    BY <1>6, <1>7, <2>10 DEF Alike, RecordFits
  <2>12. RecordFits(j, b)'
    BY <1>20, <1>21, <2>6, <2>10 DEF RecordFits
  <2>13. AnswersFit(j, b)'
    <3>1. \A g \in Groups : b.restored[g] <= b.moved[g]
      BY <2>5, <2>10, <2>11 DEF NoDelta
    <3>2. b.moved = ByGroup(witness'[j].in)
      BY <1>18, <2>3, <2>4, <2>10
    <3>3. b.tally.verified + b.tally.failed + b.tally.uncertain = b.attempted /\ b.tally.verified = Cardinality(witness'[j].in)
      BY <1>18, <2>3, <2>6, <2>10, <2>11
    <3>4. (b.status = "completed" => b.picks \subseteq witness'[j].in) /\ b.status # "undone"
      BY <1>18, <2>3, <2>6, <2>10, <2>11
    <3> QED BY <3>1, <3>2, <3>3, <3>4 DEF AnswersFit
  <2>14. Outcome(j, b, NoOp)'
    <3>1. b.status # "undoing" /\ b.status # "running" /\ b.proof # "running"
      BY <2>6, <2>10, <2>11
    <3> QED BY <2>12, <2>13, <3>1 DEF Outcome
  <2>15. jobs' = [jobs EXCEPT ![j] = b]
    BY <1>6, <2>1, <2>6, <2>7 DEF Write
  <2>16. DOMAIN jobs' = DevJobs /\ jobs'[j] = b /\ \A i \in DevJobs : i # j => jobs'[i] = jobs[i]
    BY <1>6, <2>15 DEF Shapes
  <2> QED BY <1>1, <1>3, <1>17, <1>18, <1>19, <1>20, <2>2, <2>14, <2>16, TrashStep
<1> QED BY <1>22, <1>23

\* A job that moved nothing has no Undo and no proof.
LEMMA NothingToUndo ==
  ASSUME DevInv, NEW j \in DevJobs, ~Moved(j)
  PROVE  /\ ~Busy("undo", j) /\ ~Busy("proof", j) /\ ~Posted(j) /\ \A c : ~CopyFits(j, c)
<1>1. \A c : ~CopyFits(j, c)
  BY DEF CopyFits
<1>2. ~Busy("undo", j) /\ ~Busy("proof", j)
  BY <1>1 DEF DevInv, UndoFits, ProofFits, Busy
<1>3. ~Posted(j)
  <2>1. SUFFICES ASSUME NEW q \in DOMAIN posts, posts[q] # NoJob, posts[q].id = j PROVE FALSE
    BY DEF Posted
  <2>2. CopyFits(posts[q].id, posts[q].job)
    BY <2>1 DEF DevInv, PostsFit
  <2>3. PICK c : c = posts[q].job
    OBVIOUS
  <2> QED BY <1>1, <2>1, <2>2, <2>3
<1> QED BY <1>1, <1>2, <1>3

LEMMA ConfirmFits == ASSUME DevInv, NEW j \in DevJobs, Confirm(j) PROVE DevInv'
<1>1. PICK b : b = jobs[j]
  OBVIOUS
<1>2. PICK s : s = Started(b)
  OBVIOUS
<1>3. PICK kept : kept = {m \in b.picks : mail[m] = "kept"}
  OBVIOUS
<1>4. /\ b # NoJob /\ b.status = "ready" /\ ~b.bench /\ b.resolved = b.wanted /\ op[<<"trash", j>>] = NoOp
      /\ op' = [op EXCEPT ![<<"trash", j>>] = s] /\ witness' = [witness EXCEPT ![j].shield = kept]
      /\ UNCHANGED <<jobs, posts, mail, report, made, around>>
  BY <1>1, <1>2, <1>3 DEF Confirm, Findable, Enter
<1>5. Shapes /\ Surroundings /\ MailFits /\ JobFits(j)
  BY DEF DevInv
<1>6. RecordFits(j, b) /\ b \in Jobs
  BY <1>1, <1>4, <1>5 DEF JobFits, RecordFits
<1>7. ~Moved(j)
  BY <1>4, <1>6 DEF RecordFits
<1>8. /\ ~Busy("undo", j) /\ ~Busy("proof", j) /\ ~Posted(j) /\ \A c : ~CopyFits(j, c)
  BY <1>7, NothingToUndo
<1>9. ~Harmless(j) /\ ~witness[j].dropped /\ j <= made /\ witness[j].in = {}
  <2>1. ~Harmless(j)
    BY <1>1, <1>4 DEF Harmless
  <2> QED BY <1>5, <1>7, <2>1, JobNumbers DEF JobFits, Shapes
<1>10. /\ b.proof = "none" /\ b.tally = NoTally /\ b.moved = NoDelta /\ b.restored = NoDelta /\ ~b.started
       /\ b.resolved = Cardinality(b.picks) /\ b.picks \subseteq Letters
  BY <1>4, <1>6, <1>7 DEF RecordFits, Jobs
<1>11. /\ s \in Operations("trash") /\ s # NoOp /\ s.pc = "begin" /\ s.job = b /\ s.todo = {}
       /\ s.yes = {} /\ s.no = {} /\ s.unsure = {} /\ s.late = {}
  <2>1. "trash" \in Kinds
    BY DEF Kinds
  <2> QED BY <1>2, <1>6, <2>1, StartedFits
<1>12. /\ witness' \in [DevJobs -> Witnesses] /\ \A i \in DevJobs : i # j => witness'[i] = witness[i]
       /\ witness'[j].batches = witness[j].batches /\ witness'[j].letters = witness[j].letters
       /\ witness'[j].in = {} /\ witness'[j].shield = kept /\ ~witness'[j].dropped
  <2>1. kept \subseteq Letters
    BY <1>3, <1>10
  <2> QED BY <1>4, <1>5, <1>9, <2>1 DEF Shapes, Witnesses
<1>13. /\ Shapes' /\ op'[Resolution] = op[Resolution] /\ \A i \in DevJobs : i # j => Untouched(i)
       /\ op'[<<"trash", j>>] = s /\ \A l \in Kinds : l # "trash" => op'[<<l, j>>] = op[<<l, j>>]
       /\ Posted(j) <=> Posted(j)'
  <2>1. "trash" \in Kinds /\ DOMAIN jobs' = DevJobs
    BY <1>4, <1>5 DEF Kinds, Shapes
  <2> QED BY <1>4, <1>5, <1>12, <2>1, OthersUntouched
<1>14. RecordFits(j, b)' /\ (~Moved(j))'
  BY <1>6, <1>7, <1>12 DEF RecordFits, Moved
<1>15. (~Busy("undo", j) /\ ~Busy("proof", j) /\ ~Posted(j))'
  BY <1>8, <1>13 DEF Busy, Kinds
<1>16. TrashFits(j)'
  <2>1. Alike(b, b) /\ jobs'[j] = b
    BY <1>1, <1>4 DEF Alike
  <2> QED BY <1>4, <1>10, <1>11, <1>12, <1>13, <1>14, <1>15, <2>1, ZenonT(90) DEF TrashFits, Early
<1>17. UndoFits(j)' /\ ProofFits(j)'
  BY <1>15 DEF UndoFits, ProofFits, Busy
<1>18. JobFits(j)'
  <2>1. InHand(j)'
    BY <1>1, <1>4, <1>10 DEF InHand
  <2>2. (j <= made)' /\ made \in Nat /\ j \in Nat /\ made' = made
    BY <1>4, <1>5, <1>9, JobNumbers DEF Shapes
  <2>3. jobs'[j] = b
    BY <1>1, <1>4
  <2> QED BY <1>12, <1>14, <2>1, <2>2, <2>3 DEF JobFits
<1>19. AllFit(j)'
  BY <1>16, <1>17, <1>18 DEF AllFit
<1>20. Surroundings' /\ around'.faults = around.faults /\ UNCHANGED <<made, posts>>
  BY <1>4, <1>5 DEF Surroundings
<1>21. MailFits'
  <2>1. \A m \in kept : mail[m] \in {"kept", "binned"}
    BY <1>3
  <2> QED BY <1>4, <1>5, <1>12, <2>1 DEF MailFits
<1> QED BY <1>8, <1>9, <1>13, <1>19, <1>20, <1>21, LocalStep

-----------------------------------------------------------------------------
(* The clock, the user and the rest of the program.                         *)

\* A job is forgotten, or differs from what it was by the clock alone.
Fades(i) ==
  \/ jobs'[i] = NoJob \/ jobs'[i] = jobs[i]
  \/ jobs[i] # NoJob /\ jobs'[i] \in Jobs /\ Alike(jobs'[i], jobs[i])

LEMMA FadedRecord ==
  ASSUME NEW i, NEW b, NEW c \in Jobs, Alike(c, b)
  PROVE  /\ RecordFits(i, b) => RecordFits(i, c)
         /\ AnswersFit(i, b) => AnswersFit(i, c)
BY DEF Alike, RecordFits, AnswersFit

LEMMA FadedFits ==
  ASSUME NEW i \in DevJobs, AllFit(i), Fades(i), UNCHANGED <<op, posts, made, witness>>, around'.faults = around.faults
  PROVE  AllFit(i)' /\ (Harmless(i) => Harmless(i)')
<1>1. JobFits(i) /\ TrashFits(i) /\ UndoFits(i) /\ ProofFits(i)
  BY DEF AllFit
<1>2. PICK b, c : b = jobs[i] /\ c = jobs'[i]
  OBVIOUS
<1>3. c # NoJob => b # NoJob /\ (c = b \/ (c \in Jobs /\ Alike(c, b)))
  BY <1>2 DEF Fades
<1>4. /\ \A x : RecordFits(i, x) => RecordFits(i, x)'
      /\ \A x : AnswersFit(i, x) => AnswersFit(i, x)'
      /\ (Moved(i) <=> Moved(i)') /\ \A k \in Kinds : Busy(k, i) <=> Busy(k, i)'
      /\ (Posted(i) <=> Posted(i)')
  BY DEF RecordFits, AnswersFit, Moved, Busy, Posted
<1>5. \A x : CopyFits(i, x) => CopyFits(i, x)'
  BY <1>4 DEF CopyFits, Kinds
<1>6. c # NoJob => /\ c.status = b.status /\ c.proof = b.proof /\ c.bench = b.bench
                   /\ RecordFits(i, b) => RecordFits(i, c)
                   /\ AnswersFit(i, b) => AnswersFit(i, c)
  <2>1. CASE c = b
    BY <2>1
  <2>2. CASE c \in Jobs /\ Alike(c, b)
    BY <2>2, FadedRecord DEF Alike
  <2> QED BY <1>3, <2>1, <2>2
<1>7. Harmless(i) => Harmless(i)'
  BY <1>2, <1>3, <1>4, <1>6 DEF Harmless
<1>8. JobFits(i)'
  <2>1. (jobs[i] # NoJob => RecordFits(i, jobs[i]) /\ (Moved(i) /\ ~Busy("trash", i) => AnswersFit(i, jobs[i])))'
    <3>1. b # NoJob => RecordFits(i, b) /\ (Moved(i) /\ ~Busy("trash", i) => AnswersFit(i, b))
      BY <1>1, <1>2 DEF JobFits
    <3>2. c # NoJob => RecordFits(i, c)' /\ (Moved(i)' /\ ~Busy("trash", i)' => AnswersFit(i, c)')
      BY <1>3, <1>4, <1>6, <3>1 DEF Kinds
    <3> QED BY <1>2, <3>2
  <2>2. (i > made => jobs[i] = NoJob /\ witness[i] = Unasked /\ Harmless(i))'
    BY <1>1, <1>2, <1>3, <1>7 DEF JobFits
  <2>3. (~Moved(i) => witness[i].in = {})' /\ (witness[i].dropped => Harmless(i))'
    BY <1>1, <1>4, <1>7 DEF JobFits
  <2>4. InHand(i)'
    BY <1>1, <1>2, <1>3, <1>4, <1>6 DEF InHand, JobFits, Kinds
  <2> QED BY <2>1, <2>2, <2>3, <2>4 DEF JobFits
<1>9. TrashFits(i)'
  <2>1. PICK o : o = op[<<"trash", i>>]
    OBVIOUS
  <2>2. ASSUME o # NoOp, c # NoJob PROVE Alike(c, o.job)
    <3>1. Alike(b, o.job)
      BY <1>1, <1>2, <1>3, <2>1, <2>2 DEF TrashFits
    <3> QED BY <1>3, <2>2, <3>1 DEF Alike
  <2> QED BY <1>1, <1>2, <1>4, <2>1, <2>2 DEF TrashFits, Kinds
<1>10. UndoFits(i)'
  BY <1>1, <1>2, <1>3, <1>5, <1>6 DEF UndoFits
<1>11. ProofFits(i)'
  BY <1>1, <1>5 DEF ProofFits
<1> QED BY <1>7, <1>8, <1>9, <1>10, <1>11 DEF AllFit

\* Jobs are forgotten or grow old; operations go on.
LEMMA FadingStep ==
  ASSUME DevInv, DOMAIN jobs' = DevJobs, \A i \in DevJobs : Fades(i), UNCHANGED <<op, posts, made, witness>>,
         Surroundings', MailFits', around'.faults = around.faults
  PROVE  DevInv'
<1>1. \A i \in DevJobs : AllFit(i)' /\ (Harmless(i) => Harmless(i)')
  <2>1. SUFFICES ASSUME NEW i \in DevJobs PROVE AllFit(i)' /\ (Harmless(i) => Harmless(i)')
    OBVIOUS
  <2>2. AllFit(i) /\ Fades(i)
    BY DEF DevInv, AllFit
  <2> QED BY <2>2, FadedFits
<1>2. Shapes'
  BY DEF DevInv, Shapes
<1>3. PostsFit'
  <2>1. PICK p : p = posts
    OBVIOUS
  <2>2. posts' = p
    BY <2>1
  <2>3. ASSUME NEW i, NEW b, CopyFits(i, b) PROVE CopyFits(i, b)'
    BY <2>3 DEF CopyFits, RecordFits, AnswersFit, Moved, Busy
  <2> QED BY <2>1, <2>2, <2>3 DEF DevInv, PostsFit
<1>4. ResolutionFits'
  BY <1>1, ResolutionUntouched DEF DevInv
<1> QED BY <1>1, <1>2, <1>3, <1>4 DEF DevInv, AllFit

LEMMA SameMail == ASSUME MailFits, UNCHANGED <<mail, witness>> PROVE MailFits'
BY DEF MailFits

\* The two minutes of a check, or the time of a job, end.
LEMMA OlderStep ==
  ASSUME DevInv, NEW j \in DevJobs, jobs[j] # NoJob, NEW b \in Jobs, Alike(b, jobs[j]), jobs' = [jobs EXCEPT ![j] = b],
         Free \/ Costs(1), UNCHANGED <<op, posts, mail, report, made, witness>>
  PROVE  DevInv'
<1>1. DOMAIN jobs = DevJobs
  BY DEF DevInv, Shapes
<1>2. jobs'[j] = b /\ DOMAIN jobs' = DevJobs /\ \A i \in DevJobs : i # j => jobs'[i] = jobs[i]
  BY <1>1
<1>3. \A i \in DevJobs : Fades(i)
  BY <1>2 DEF Fades
<1>4. Surroundings' /\ around'.faults = around.faults
  BY FaultsFit DEF DevInv
<1>5. MailFits'
  BY SameMail DEF DevInv
<1> QED BY <1>2, <1>3, <1>4, <1>5, FadingStep

LEMMA CheckExpiresFits == ASSUME DevInv, NEW j \in DevJobs, CheckExpires(j) PROVE DevInv'
<1>1. PICK b : b = [jobs[j] EXCEPT !.fresh = FALSE]
  OBVIOUS
<1>2. jobs[j] \in Jobs /\ jobs[j] # NoJob
  BY DEF CheckExpires, DevInv, JobFits, RecordFits
<1>3. b \in Jobs /\ Alike(b, jobs[j])
  BY <1>1, <1>2 DEF Jobs, Alike
<1>4. jobs' = [jobs EXCEPT ![j] = b]
  BY <1>1 DEF CheckExpires
<1> QED BY <1>2, <1>3, <1>4, OlderStep DEF CheckExpires

LEMMA JobExpiresFits == ASSUME DevInv, NEW j \in DevJobs, JobExpires(j) PROVE DevInv'
<1>1. PICK b : b = [jobs[j] EXCEPT !.expired = TRUE]
  OBVIOUS
<1>2. jobs[j] \in Jobs /\ jobs[j] # NoJob
  BY DEF JobExpires, DevInv, JobFits, RecordFits
<1>3. b \in Jobs /\ Alike(b, jobs[j])
  BY <1>1, <1>2 DEF Jobs, Alike
<1>4. jobs' = [jobs EXCEPT ![j] = b]
  BY <1>1 DEF JobExpires
<1> QED BY <1>2, <1>3, <1>4, OlderStep DEF JobExpires

LEMMA PurgeFits == ASSUME DevInv, NEW j \in DevJobs, Purge(j) PROVE DevInv'
<1>1. DOMAIN jobs = DevJobs
  BY DEF DevInv, Shapes
<1>2. DOMAIN jobs' = DevJobs /\ \A i \in DevJobs : Fades(i)
  BY <1>1 DEF Purge, Fades
<1>3. Surroundings' /\ around'.faults = around.faults
  BY FaultsFit DEF DevInv, Purge, Free
<1>4. MailFits'
  BY SameMail DEF DevInv, Purge
<1> QED BY <1>2, <1>3, <1>4, FadingStep DEF Purge

LEMMA TouchFits == ASSUME DevInv, NEW m \in Letters, Touch(m) PROVE DevInv'
<1>1. Surroundings' /\ around'.faults = around.faults
  BY FaultsFit DEF DevInv, Touch
<1>2. /\ DOMAIN jobs' = DevJobs /\ \A i \in DevJobs : Fades(i)
  BY DEF DevInv, Shapes, Touch, Fades
<1>3. MailFits'
  <2>1. PICK place : /\ mail' = [mail EXCEPT ![m] = place] /\ place \in Places
                     /\ mail[m] \in {"kept", "binned"} => FALSE
    <3>1. PICK place \in CASE mail[m] = "inbox" -> {"kept"} [] mail[m] = "trash" -> {"inbox", "gone"} [] OTHER -> {} :
            mail' = [mail EXCEPT ![m] = place]
      BY DEF Touch
    <3>2. CASE mail[m] = "inbox"
      BY <3>1, <3>2 DEF Places
    <3>3. CASE mail[m] = "trash"
      BY <3>1, <3>3 DEF Places
    <3>4. CASE mail[m] # "inbox" /\ mail[m] # "trash"
      BY <3>1, <3>4
    <3> QED BY <3>2, <3>3, <3>4
  <2>2. witness' = witness /\ mail \in [Letters -> Places]
    BY DEF Touch, DevInv, MailFits
  <2>3. mail' \in [Letters -> Places] /\ \A x \in Letters : mail[x] \in {"kept", "binned"} => mail'[x] = mail[x]
    BY <2>1, <2>2
  <2>4. \A j \in DevJobs : witness[j].shield \subseteq Letters
    BY DEF DevInv, Shapes, Witnesses
  <2> QED BY <2>2, <2>3, <2>4 DEF DevInv, MailFits
<1> QED BY <1>1, <1>2, <1>3, FadingStep DEF Touch

LEMMA NewReport ==
  ASSUME Surroundings, Free \/ Costs(1), NEW n \in Nat, NEW whole, NEW old,
         report' = [scan |-> n, complete |-> whole, stale |-> old]
  PROVE  Surroundings' /\ around'.faults = around.faults
BY DEF Surroundings, Free, Costs

LEMMA RescanFits == ASSUME DevInv, Rescan PROVE DevInv'
<1>1. Surroundings' /\ around'.faults = around.faults
  <2>1. Surroundings /\ report.scan + 1 \in Nat
    BY DEF DevInv, Surroundings
  <2> QED BY <2>1, NewReport DEF Rescan
<1>2. DOMAIN jobs' = DevJobs /\ \A i \in DevJobs : Fades(i)
  BY DEF DevInv, Shapes, Rescan, Fades
<1>3. MailFits'
  BY SameMail DEF DevInv, Rescan
<1> QED BY <1>1, <1>2, <1>3, FadingStep DEF Rescan

LEMMA ScanCompletesFits == ASSUME DevInv, ScanCompletes PROVE DevInv'
<1>1. Surroundings' /\ around'.faults = around.faults
  BY DEF DevInv, Surroundings, ScanCompletes
<1>2. DOMAIN jobs' = DevJobs /\ \A i \in DevJobs : Fades(i)
  BY DEF DevInv, Shapes, ScanCompletes, Fades
<1>3. MailFits'
  BY SameMail DEF DevInv, ScanCompletes
<1> QED BY <1>1, <1>2, <1>3, FadingStep DEF ScanCompletes

LEMMA DisconnectFits == ASSUME DevInv, Disconnect PROVE DevInv'
<1>1. Surroundings' /\ around'.faults = around.faults
  <2>1. Surroundings /\ report.scan + 1 \in Nat
    BY DEF DevInv, Surroundings
  <2> QED BY <2>1, NewReport DEF Disconnect
<1>2. DOMAIN jobs' = DevJobs /\ \A i \in DevJobs : Fades(i)
  BY DEF Disconnect, Fades
<1>3. MailFits'
  BY SameMail DEF DevInv, Disconnect
<1> QED BY <1>1, <1>2, <1>3, FadingStep DEF Disconnect

\* What was discarded had moved nothing, and nobody works on it.
LEMMA StartOverFits == ASSUME DevInv, NEW j \in DevJobs, StartOver(j) PROVE DevInv'
<1>1. PICK b : b = jobs[j]
  OBVIOUS
<1>2. /\ b # NoJob /\ ~b.started /\ op[<<"trash", j>>] = NoOp
      /\ jobs' = [jobs EXCEPT ![j] = NoJob] /\ witness' = [witness EXCEPT ![j].dropped = TRUE]
      /\ UNCHANGED <<op, posts, mail, report, made, around>>
  BY <1>1 DEF StartOver, Findable
<1>3. Shapes /\ Surroundings /\ MailFits /\ JobFits(j)
  BY DEF DevInv
<1>4. ~Moved(j)
  BY <1>1, <1>2, <1>3 DEF JobFits, RecordFits
<1>5. ~Busy("undo", j) /\ ~Busy("proof", j) /\ ~Posted(j) /\ ~Busy("trash", j) /\ \A c : ~CopyFits(j, c)
  BY <1>2, <1>4, NothingToUndo DEF Busy
<1>6. /\ witness' \in [DevJobs -> Witnesses] /\ \A i \in DevJobs : i # j => witness'[i] = witness[i]
      /\ witness'[j].batches = witness[j].batches /\ witness'[j].in = witness[j].in
      /\ \A i \in DevJobs : witness'[i].shield = witness[i].shield
  BY <1>2, <1>3, ZenonT(40) DEF Shapes, Witnesses
<1>7. jobs'[j] = NoJob /\ DOMAIN jobs' = DevJobs /\ \A i \in DevJobs : i # j => jobs'[i] = jobs[i]
  BY <1>2, <1>3 DEF Shapes
<1>8. \A k \in Kinds : (~Busy(k, j))'
  BY <1>2, <1>5 DEF Busy, Kinds
<1>9. (~Moved(j) /\ ~Posted(j) /\ Harmless(j))'
  BY <1>2, <1>4, <1>5, <1>6, <1>7, <1>8 DEF Moved, Posted, Harmless
<1>10. JobFits(j)'
  <2>1. j <= made /\ made \in Nat /\ j \in Nat /\ made' = made
    BY <1>1, <1>2, <1>3, JobNumbers DEF JobFits, Shapes
  <2>2. InHand(j)'
    BY <1>7 DEF InHand
  <2>3. (j > made => jobs[j] = NoJob /\ witness[j] = Unasked /\ Harmless(j))'
    BY <2>1
  <2>4. (~Moved(j) => witness[j].in = {})'
    BY <1>3, <1>4, <1>6 DEF JobFits
  <2> QED BY <1>7, <1>9, <2>2, <2>3, <2>4 DEF JobFits
<1>11. AllFit(j)'
  BY <1>8, <1>10 DEF AllFit, TrashFits, UndoFits, ProofFits, Busy, Kinds
<1>12. \A i \in DevJobs : i # j => Untouched(i)
  BY <1>2, <1>6, <1>7 DEF Untouched, Posted
<1>13. Shapes' /\ Surroundings' /\ MailFits' /\ around'.faults = around.faults /\ op'[Resolution] = op[Resolution]
  BY <1>2, <1>3, <1>6, <1>7 DEF Shapes, Surroundings, MailFits
<1> QED BY <1>2, <1>5, <1>9, <1>11, <1>12, <1>13, LocalStep

\* The process keeps no job, no operation and no request; Gmail keeps what it was asked.
LEMMA ProcessDiesFits == ASSUME DevInv, ProcessDies PROVE DevInv'
<1>1. Shapes /\ Surroundings /\ MailFits /\ DOMAIN posts = 1..2
  BY DEF DevInv, PostsFit
<1>2. Surroundings' /\ MailFits'
  BY <1>1, FaultsFit, SameMail DEF ProcessDies
<1>3. /\ \A j \in DevJobs : jobs'[j] = NoJob
      /\ \A k \in Kinds, j \in DevJobs : op'[<<k, j>>] = NoOp
      /\ op'[Resolution] = NoOp /\ DOMAIN op' = Keys /\ DOMAIN jobs' = DevJobs
      /\ DOMAIN posts' = 1..2 /\ \A q \in 1..2 : posts'[q] = NoJob
      /\ witness' = witness /\ made' = made
  BY <1>1, KeyFacts DEF ProcessDies
<1>4. Shapes' /\ PostsFit'
  BY <1>1, <1>3 DEF Shapes, PostsFit
<1>5. ResolutionFits'
  BY <1>3 DEF ResolutionFits, NoOp
<1>6. ASSUME NEW j \in DevJobs PROVE (JobFits(j) /\ TrashFits(j) /\ UndoFits(j) /\ ProofFits(j))'
  <2>1. JobFits(j)
    BY DEF DevInv
  <2>2. jobs'[j] = NoJob /\ witness'[j] = witness[j] /\ made' = made /\ \A k \in Kinds : op'[<<k, j>>] = NoOp
    BY <1>3
  <2>3. (~Posted(j))' /\ \A k \in Kinds : (~Busy(k, j))'
    BY <1>3, <2>2 DEF Posted, Busy
  <2>4. (Moved(j) <=> Moved(j)') /\ (Harmless(j) => Harmless(j)')
    BY <2>2, <2>3 DEF Moved, Harmless
  <2>5. InHand(j)'
    BY <2>2 DEF InHand
  <2>6. JobFits(j)'
    BY <2>1, <2>2, <2>4, <2>5 DEF JobFits
  <2> QED BY <2>2, <2>6 DEF TrashFits, UndoFits, ProofFits, Kinds
<1> QED BY <1>2, <1>4, <1>5, <1>6 DEF DevInv

LEMMA DevStutters == ASSUME DevInv, UNCHANGED devVars PROVE DevInv'
<1>1. UNCHANGED <<jobs, op, posts, mail, report, made, witness, around>>
  BY DEF devVars
<1>2. Surroundings' /\ MailFits' /\ DOMAIN jobs' = DevJobs /\ \A i \in DevJobs : Fades(i)
  BY <1>1 DEF DevInv, Surroundings, MailFits, Shapes, Fades
<1> QED BY <1>1, <1>2, FadingStep

LEMMA DevBegins == DevInit => DevInv
<1> SUFFICES ASSUME DevInit PROVE DevInv
  OBVIOUS
<1>1. PICK s \in DevScenarios : around = s
  BY DEF DevInit
<1>2. /\ DOMAIN s = {"inputs", "mail", "faults", "events", "jobs"} /\ s.inputs \subseteq Inputs
      /\ s.mail \in [Letters -> Places] /\ s.jobs \in 0..Cardinality(DevJobs)
  BY DevAssumption
<1>3. Unasked \in Witnesses /\ Unasked.batches = 0 /\ Unasked.in = {} /\ Unasked.shield = {} /\ ~Unasked.dropped
  BY DEF Unasked, Witnesses
<1>4. Surroundings
  BY <1>1, <1>2 DEF DevInit, Surroundings
<1>5. MailFits
  BY <1>1, <1>2, <1>3 DEF DevInit, MailFits
<1>6. Shapes /\ PostsFit
  BY <1>3 DEF DevInit, Shapes, PostsFit
<1>7. ResolutionFits
  BY KeyFacts DEF DevInit, ResolutionFits, NoOp
<1>8. ASSUME NEW j \in DevJobs PROVE JobFits(j) /\ TrashFits(j) /\ UndoFits(j) /\ ProofFits(j)
  <2>1. jobs[j] = NoJob /\ witness[j] = Unasked /\ \A k \in Kinds : op[<<k, j>>] = NoOp
    BY KeyFacts DEF DevInit
  <2>2. ~Moved(j) /\ ~Posted(j) /\ \A k \in Kinds : ~Busy(k, j)
    BY <1>3, <2>1 DEF Moved, Posted, Busy, DevInit
  <2>3. Harmless(j) /\ InHand(j)
    BY <2>1, <2>2 DEF Harmless, InHand
  <2>4. JobFits(j)
    BY <1>3, <2>1, <2>3 DEF JobFits
  <2> QED BY <2>1, <2>4 DEF TrashFits, UndoFits, ProofFits, Kinds
<1> QED BY <1>4, <1>5, <1>6, <1>7, <1>8 DEF DevInv

-----------------------------------------------------------------------------
(* The resolution: checks, and what they find.                              *)

LEMMA ResolutionEntered ==
  ASSUME DOMAIN op = Keys, NEW r, Enter(Resolution, r)
  PROVE  /\ DOMAIN op' = Keys /\ op'[Resolution] = r
         /\ \A k \in Kinds, i \in DevJobs : op'[<<k, i>>] = op[<<k, i>>]
<1>1. op' = [op EXCEPT ![Resolution] = r]
  BY DEF Enter
<1>2. Resolution \in Keys /\ \A k \in Kinds, i \in DevJobs : <<k, i>> \in Keys /\ <<k, i>> # Resolution
  BY KeyFacts
<1> QED BY <1>1, <1>2

\* The resolution goes on or ends, and concerns one job at most.
LEMMA ResolutionStep ==
  ASSUME DevInv, NEW r, Enter(Resolution, r), UNCHANGED <<posts, mail, report, witness>>, Free \/ Costs(1),
         made' \in Nat, made <= made', NEW j, DOMAIN jobs' = DevJobs,
         \A i \in DevJobs : i # j => jobs'[i] = jobs[i],
         j \in DevJobs => AllFit(j)', ResolutionFits'
  PROVE  DevInv'
<1>1. Shapes /\ Surroundings /\ MailFits /\ PostsFit
  BY DEF DevInv
<1>2. DOMAIN op' = Keys /\ \A k \in Kinds, i \in DevJobs : op'[<<k, i>>] = op[<<k, i>>]
  BY <1>1, ResolutionEntered DEF Shapes
<1>3. Surroundings' /\ around'.faults = around.faults
  BY <1>1, FaultsFit
<1>4. MailFits' /\ Shapes'
  BY <1>1, <1>2, SameMail DEF Shapes
<1>5. PostsFit'
  <2>1. PICK p : p = posts
    OBVIOUS
  <2>2. posts' = p
    BY <2>1
  <2>3. ASSUME NEW i \in DevJobs, NEW b, CopyFits(i, b) PROVE CopyFits(i, b)'
    <3>1. Busy("trash", i)' <=> Busy("trash", i)
      BY <1>2 DEF Busy, Kinds
    <3> QED BY <2>3, <3>1 DEF CopyFits, RecordFits, AnswersFit, Moved
  <2> QED BY <1>1, <2>1, <2>2, <2>3 DEF PostsFit
<1>6. ASSUME NEW i \in DevJobs PROVE AllFit(i)'
  <2>1. CASE i = j
    BY <2>1
  <2>2. CASE i # j
    <3>1. Untouched(i)
      BY <1>2, <2>2 DEF Untouched, Posted
    <3>2. AllFit(i)
      BY DEF DevInv, AllFit
    <3>3. i > made' => i > made
      BY <1>1, JobNumbers DEF Shapes
    <3> QED BY <1>3, <3>1, <3>2, <3>3, AllUntouched
  <2> QED BY <2>1, <2>2
<1> QED BY <1>3, <1>4, <1>5, <1>6 DEF DevInv, AllFit

\* The resolution goes on or ends, and no job changes.
LEMMA ResolutionAlone ==
  ASSUME DevInv, NEW r, Enter(Resolution, r), UNCHANGED <<jobs, posts, mail, report, made, witness>>, Free \/ Costs(1),
         ResolutionFits'
  PROVE  DevInv'
<1>1. made' \in Nat /\ made <= made' /\ DOMAIN jobs' = DevJobs
  BY DEF DevInv, Shapes
<1>2. Cardinality(DevJobs) + 1 \notin DevJobs
  BY DevAssumption, JobNumbers
<1> QED BY <1>1, <1>2, ResolutionStep

LEMMA PreviewFits == ASSUME DevInv, NEW input \in around.inputs, Preview(input) PROVE DevInv'
<1>1. PICK r : r = [pc |-> "context", input |-> input]
  OBVIOUS
<1>2. /\ Enter(Resolution, r) /\ made < around.jobs /\ UNCHANGED <<jobs, posts, mail, report, made, witness, around>>
  BY <1>1 DEF Preview
<1>3. input \in Inputs /\ made < Cardinality(DevJobs)
  <2>1. PICK n \in Nat : n = Cardinality(DevJobs)
    BY JobNumbers
  <2>2. around.jobs \in 0..n /\ around.inputs \subseteq Inputs /\ made \in Nat
    BY <2>1 DEF DevInv, Shapes, Surroundings
  <2>3. made < n
    BY <1>2, <2>2
  <2> QED BY <2>1, <2>2, <2>3
<1>4. op'[Resolution] = r
  BY <1>2, ResolutionEntered DEF DevInv, Shapes
<1>5. ResolutionFits'
  BY <1>1, <1>2, <1>3, <1>4 DEF ResolutionFits
<1> QED BY <1>2, <1>5, ResolutionAlone DEF Free

LEMMA PreviewContextFits == ASSUME DevInv, PreviewContext PROVE DevInv'
<1>1. PICK o : o = op[Resolution]
  OBVIOUS
<1>2. o.pc = "context" /\ UNCHANGED <<jobs, posts, mail, report, made, witness>>
  BY <1>1 DEF PreviewContext
<1>3. o.input \in Inputs /\ made < Cardinality(DevJobs) /\ report.scan \in Nat /\ DOMAIN op = Keys
  BY <1>1, <1>2 DEF DevInv, ResolutionFits, Surroundings, Shapes
<1>4. PICK r : /\ Enter(Resolution, r) /\ (Free \/ Costs(1))
               /\ \/ r = NoOp
                  \/ \E target, todo : r = [pc |-> "resolve", input |-> o.input, scan |-> report.scan, target |-> target,
                                            todo |-> todo, found |-> [g \in Groups |-> {}], failed |-> {}]
  <2>1. PICK target, todo :
          /\ target = Dealt(ResolutionOrder(o.input.groups), NoDelta, [g \in Groups |-> OfferOf[g].count], o.input.wanted)
          /\ todo = {g \in Groups : target[g] > 0}
    OBVIOUS
  <2>2. CASE /\ ContextReads(TRUE)
             /\ Enter(Resolution, [pc |-> "resolve", input |-> o.input, scan |-> report.scan, target |-> target,
                                   todo |-> todo, found |-> [g \in Groups |-> {}], failed |-> {}])
    BY <2>2 DEF ContextReads
  <2>3. CASE Leave(Resolution) /\ (ContextReads(FALSE) \/ ContextReads(TRUE))
    BY <2>3 DEF ContextReads, Leave, Enter
  <2>4. \/ /\ ContextReads(TRUE)
           /\ Enter(Resolution, [pc |-> "resolve", input |-> o.input, scan |-> report.scan, target |-> target,
                                 todo |-> todo, found |-> [g \in Groups |-> {}], failed |-> {}])
        \/ Leave(Resolution) /\ (ContextReads(FALSE) \/ ContextReads(TRUE))
    BY <1>1, <2>1, Zenon DEF PreviewContext
  <2> QED BY <2>2, <2>3, <2>4
<1>5. op'[Resolution] = r
  BY <1>3, <1>4, ResolutionEntered
<1>6. ResolutionFits'
  <2>1. CASE r = NoOp
    BY <1>5, <2>1 DEF ResolutionFits, NoOp
  <2>2. ASSUME NEW target, NEW todo,
               r = [pc |-> "resolve", input |-> o.input, scan |-> report.scan, target |-> target,
                    todo |-> todo, found |-> [g \in Groups |-> {}], failed |-> {}]
        PROVE  ResolutionFits'
    BY <1>2, <1>3, <1>5, <2>2 DEF ResolutionFits
  <2> QED BY <1>4, <2>1, <2>2
<1> QED BY <1>2, <1>4, <1>6, ResolutionAlone

\* What a new job says of its check.
Checks == {"ready", "insufficient", "failed"}

LEMMA JobIs ==
  ASSUME NEW o, o.input \in Inputs, o.scan \in Nat, NEW status \in Checks, NEW picks \in SUBSET Letters,
         NEW b, b = Job(o, status, picks)
  PROVE  /\ b \in Jobs /\ b.status = status /\ b.picks = picks /\ b.resolved = Cardinality(picks)
         /\ b.bench = o.input.bench /\ ~b.started /\ b.proof = "none" /\ b.tally = NoTally
         /\ b.moved = NoDelta /\ b.restored = NoDelta
<1>1. PICK n \in Nat, i \in Inputs, sc \in Nat : n = Cardinality(picks) /\ i = o.input /\ sc = o.scan
  BY LettersCount
<1>2. NoTally \in Tallies /\ NoDelta \in [Groups -> Nat]
  BY NoTallyType
<1>3. i.wanted \in Nat /\ i.bench \in BOOLEAN
  BY DEF Inputs
<1>4. b = [status |-> status, scan |-> sc, picks |-> picks, resolved |-> n, fresh |-> TRUE, expired |-> FALSE,
           wanted |-> i.wanted, bench |-> i.bench, started |-> FALSE, attempted |-> 0, tally |-> NoTally,
           proof |-> "none", moved |-> NoDelta, restored |-> NoDelta, undo |-> NoTally]
  BY <1>1 DEF Job, Blank
<1>5. status \in Statuses
  BY DEF Checks, Statuses, Unmoved
<1> HIDE DEF NoTally, NoDelta
<1>6. b \in Jobs
  BY <1>2, <1>3, <1>4, <1>5 DEF Jobs
<1> QED BY <1>1, <1>4, <1>6

\* A job is created, and nothing has been done with it.
LEMMA CreatedFits ==
  ASSUME DevInv, made < Cardinality(DevJobs), NEW o, o.input \in Inputs, o.scan \in Nat, NEW status \in Checks,
         NEW picks \in SUBSET Letters, NEW b, b = Job(o, status, picks), Create(b),
         NEW r, Enter(Resolution, r), UNCHANGED <<posts, mail, report, witness>>, Free \/ Costs(1), NEW j, j = made + 1
  PROVE  /\ j \in DevJobs /\ made' = j /\ jobs'[j] = b /\ RecordFits(j, b)' /\ (o.input.bench => Harmless(j)')
         /\ ResolutionFits' => DevInv'
<1>1. made \in Nat /\ DOMAIN jobs = DevJobs /\ DOMAIN op = Keys /\ made + 1 \in DevJobs
  BY JobNumbers DEF DevInv, Shapes
<1>2. j \in DevJobs
  BY <1>1
<1>3. /\ made' = j /\ j > made /\ j \in Nat /\ jobs'[j] = b /\ DOMAIN jobs' = DevJobs
      /\ \A i \in DevJobs : i # j => jobs'[i] = jobs[i]
  BY <1>1, <1>2 DEF Create
<1>4. JobFits(j)
  BY <1>2 DEF DevInv
<1>5. witness[j] = Unasked /\ ~Moved(j) /\ ~Posted(j) /\ \A k \in Kinds : ~Busy(k, j)
  BY <1>3, <1>4 DEF JobFits, Harmless
<1>6. \A k \in Kinds : op'[<<k, j>>] = op[<<k, j>>]
  BY <1>1, ResolutionEntered
<1>7. (~Moved(j) /\ ~Posted(j))' /\ \A k \in Kinds : (~Busy(k, j))'
  BY <1>5, <1>6 DEF Moved, Posted, Busy
<1>8. /\ b \in Jobs /\ b.status = status /\ b.picks = picks /\ b.resolved = Cardinality(picks)
      /\ b.bench = o.input.bench /\ ~b.started /\ b.proof = "none" /\ b.tally = NoTally
      /\ b.moved = NoDelta /\ b.restored = NoDelta
  BY JobIs
<1>9. b.status \in Unmoved /\ b.status \notin {"running", "undoing"}
  BY <1>8 DEF Checks, Unmoved
<1>10. RecordFits(j, b)'
  BY <1>7, <1>8, <1>9 DEF RecordFits
<1>11. o.input.bench => Harmless(j)'
  BY <1>3, <1>7, <1>8 DEF Harmless
<1>12. JobFits(j)'
  <2>1. InHand(j)'
    BY <1>3, <1>8, <1>9 DEF InHand
  <2>2. ~(j > made') /\ witness'[j] = Unasked
    BY <1>3, <1>5
  <2>3. witness'[j].in = {} /\ ~witness'[j].dropped
    BY <2>2 DEF Unasked
  <2> QED BY <1>3, <1>7, <1>10, <2>1, <2>2, <2>3 DEF JobFits
<1>13. AllFit(j)'
  BY <1>7, <1>12 DEF AllFit, TrashFits, UndoFits, ProofFits, Busy, Kinds
<1>14. made' \in Nat /\ made <= made'
  BY <1>1, <1>3
<1>15. ASSUME ResolutionFits' PROVE DevInv'
  BY <1>3, <1>13, <1>14, <1>15, ResolutionStep
<1> QED BY <1>1, <1>2, <1>3, <1>10, <1>11, <1>15

\* A resolution between two of its rounds' answers.
Resolving(o) ==
  /\ o.pc = "resolve" /\ o.input \in Inputs
  /\ DOMAIN o = {"pc", "input", "scan", "target", "todo", "found", "failed"}
  /\ o.scan \in Nat /\ o.found \in [Groups -> SUBSET Letters]

LEMMA ResolvingOn ==
  ASSUME DevInv, made < Cardinality(DevJobs), NEW r, Resolving(r), Enter(Resolution, r),
         UNCHANGED <<jobs, made, posts, mail, report, witness>>, Free \/ Costs(1)
  PROVE  DevInv'
<1>1. op'[Resolution] = r
  BY ResolutionEntered DEF DevInv, Shapes
<1>2. ResolutionFits'
  BY <1>1 DEF ResolutionFits, Resolving
<1> QED BY <1>2, ResolutionAlone

LEMMA RoundEndsFits ==
  ASSUME DevInv, made < Cardinality(DevJobs), NEW o, Resolving(o), RoundEnds(o),
         UNCHANGED <<posts, mail, report, witness>>, Free \/ Costs(1)
  PROVE  DevInv'
<1>1. PICK more, picks : more = MoreTargets(o) /\ picks = Picks(o)
  OBVIOUS
<1>2. picks \in SUBSET Letters
  <2>1. PICK found : found = UNION {o.found[g] : g \in {g \in o.input.groups : Eligible(g)}}
    OBVIOUS
  <2>2. o.input.groups \subseteq Groups
    BY DEF Resolving, Inputs
  <2>3. found \subseteq Letters
    BY <2>1, <2>2 DEF Resolving
  <2>4. Picks(o) \subseteq found
    BY <2>1 DEF Picks
  <2> QED BY <1>1, <2>3, <2>4
<1>3. PICK status \in Checks : status = IF Cardinality(picks) = o.input.wanted THEN "ready" ELSE "insufficient"
  BY DEF Checks
<1>4. PICK b : b = Job(o, status, picks)
  OBVIOUS
<1>5. CASE ~(~(FoundIn(o) >= o.input.wanted) /\ more # o.target)
  <2>1. PICK r : /\ Enter(Resolution, r) /\ Create(b)
                 /\ \/ r = NoOp
                    \/ /\ o.input.bench
                       /\ r = [pc |-> "benchmark", id |-> made + 1, job |-> jobs'[made + 1], scan |-> o.scan,
                               input |-> o.input, todo |-> GroupsOf(picks), yes |-> {}, late |-> {}]
    BY <1>1, <1>3, <1>4, <1>5 DEF RoundEnds, Leave, Enter
  <2>2. o.input \in Inputs /\ o.scan \in Nat
    BY DEF Resolving
  <2>3. PICK j : j = made + 1
    OBVIOUS
  <2>4. /\ j \in DevJobs /\ made' = j /\ jobs'[j] = b /\ RecordFits(j, b)' /\ (o.input.bench => Harmless(j)')
        /\ ResolutionFits' => DevInv'
    BY <1>2, <1>4, <2>1, <2>2, <2>3, CreatedFits
  <2>5. op'[Resolution] = r
    BY <2>1, ResolutionEntered DEF DevInv, Shapes
  <2>6. CASE r = NoOp
    BY <2>4, <2>5, <2>6 DEF ResolutionFits, NoOp
  <2>7. CASE /\ o.input.bench
             /\ r = [pc |-> "benchmark", id |-> made + 1, job |-> jobs'[made + 1], scan |-> o.scan,
                     input |-> o.input, todo |-> GroupsOf(picks), yes |-> {}, late |-> {}]
    <3>1. b.bench
      BY <1>2, <1>4, <2>2, <2>7, JobIs
    <3>2. /\ r.pc = "benchmark" /\ r.input = o.input /\ r.scan = o.scan /\ r.id = j /\ r.job = b
          /\ r.yes = {} /\ r.late = {} /\ DOMAIN r = {"pc", "id", "job", "scan", "input", "todo", "yes", "late"}
      BY <2>4, <2>7, <2>3
    <3>3. RecordFits(j, b)' /\ Harmless(j)' /\ made' = j /\ j \in Nat
      BY <2>4, <2>7, JobNumbers
    <3>4. Harmless(r.id)' /\ RecordFits(r.id, r.job)'
      BY <3>2, <3>3
    <3>5. ResolutionFits'
      BY <2>2, <2>4, <2>5, <3>1, <3>2, <3>3, <3>4 DEF ResolutionFits
    <3> QED BY <2>4, <3>5
  <2> QED BY <2>1, <2>6, <2>7
<1>6. CASE ~(FoundIn(o) >= o.input.wanted) /\ more # o.target
  <2>1. PICK r : /\ Enter(Resolution, r) /\ UNCHANGED <<jobs, made>>
                 /\ r = [o EXCEPT !.target = more, !.todo = {g \in Groups : more[g] # o.target[g]}]
    BY <1>1, <1>6 DEF RoundEnds
  <2>2. Resolving(r)
    BY <2>1 DEF Resolving
  <2> QED BY <2>1, <2>2, ResolvingOn
<1> QED BY <1>5, <1>6

LEMMA ResolveGroupFits == ASSUME DevInv, NEW g \in Groups, ResolveGroup(g) PROVE DevInv'
<1>1. PICK o : o = op[Resolution]
  OBVIOUS
<1>2. o.pc = "resolve" /\ UNCHANGED <<posts, mail, report, witness>>
  BY <1>1 DEF ResolveGroup
<1>3. Resolving(o) /\ made < Cardinality(DevJobs)
  BY <1>1, <1>2 DEF DevInv, ResolutionFits, Resolving
<1>4. PICK rest : rest = [o EXCEPT !.todo = @ \ {g}]
  OBVIOUS
<1>5. Resolving(rest)
  BY <1>3, <1>4 DEF Resolving
<1>6. CASE \E next : /\ Resolving(next) /\ (Free \/ Costs(1))
                     /\ IF next.todo = {} THEN RoundEnds(next) ELSE Enter(Resolution, next) /\ UNCHANGED <<jobs, made>>
  <2>1. PICK next : /\ Resolving(next) /\ (Free \/ Costs(1))
                    /\ IF next.todo = {} THEN RoundEnds(next) ELSE Enter(Resolution, next) /\ UNCHANGED <<jobs, made>>
    BY <1>6
  <2>2. CASE next.todo = {}
    BY <1>2, <1>3, <2>1, <2>2, RoundEndsFits
  <2>3. CASE next.todo # {}
    BY <1>2, <1>3, <2>1, <2>3, ResolvingOn
  <2> QED BY <2>2, <2>3
<1>7. CASE Costs(1) /\ Create(Job(o, "failed", {})) /\ Leave(Resolution)
  <2>1. PICK status \in Checks, picks \in SUBSET Letters : status = "failed" /\ picks = {}
    BY DEF Checks
  <2>2. PICK b, j : b = Job(o, status, picks) /\ j = made + 1
    OBVIOUS
  <2>3. Create(b) /\ Enter(Resolution, NoOp) /\ o.input \in Inputs /\ o.scan \in Nat
    BY <1>3, <1>7, <2>1, <2>2 DEF Leave, Enter, Resolving
  <2>4. ResolutionFits' => DevInv'
    BY <1>2, <1>3, <1>7, <2>2, <2>3, CreatedFits
  <2>5. op'[Resolution] = NoOp
    BY <2>3, ResolutionEntered DEF DevInv, Shapes
  <2> QED BY <2>4, <2>5 DEF ResolutionFits, NoOp
<1>8. PICK first \in SUBSET Letters : first = FirstOf(SafeNow(g), o.target[g])
  BY DEF FirstOf, SafeNow
<1>9. PICK n1, n2 : n1 = [rest EXCEPT !.found[g] = first] /\ n2 = [rest EXCEPT !.found[g] = {}, !.failed = @ \cup {g}]
  OBVIOUS
<1>10. Resolving(n1) /\ Resolving(n2)
  BY <1>5, <1>9 DEF Resolving
<1>11. \/ \E next \in {n1, n2} :
            /\ Free \/ Costs(1)
            /\ IF next.todo = {} THEN RoundEnds(next) ELSE Enter(Resolution, next) /\ UNCHANGED <<jobs, made>>
       \/ Costs(1) /\ Create(Job(o, "failed", {})) /\ Leave(Resolution)
  <2> DEFINE Proceeds(next) == IF next.todo = {} THEN RoundEnds(next) ELSE Enter(Resolution, next) /\ UNCHANGED <<jobs, made>>
  <2>1. \/ Proceeds(n1) /\ Free
        \/ Costs(1) /\ Proceeds(n2)
        \/ Costs(1) /\ Create(Job(o, "failed", {})) /\ Leave(Resolution)
    BY <1>1, <1>4, <1>8, <1>9, Zenon DEF ResolveGroup, LeavesItOut, FailsTheCheck
  <2> QED BY <2>1, Zenon
<1> QED BY <1>6, <1>7, <1>10, <1>11

LEMMA BenchmarkFits == ASSUME DevInv, Benchmark PROVE DevInv'
<1>1. PICK o : o = op[Resolution]
  OBVIOUS
<1>2. o.pc = "benchmark" /\ UNCHANGED <<posts, mail, report, witness>>
  BY <1>1 DEF Benchmark
<1>3. /\ o.input \in Inputs /\ DOMAIN o = {"pc", "id", "job", "scan", "input", "todo", "yes", "late"}
      /\ o.scan \in Nat /\ o.id \in DevJobs /\ o.id <= made /\ Harmless(o.id)
      /\ RecordFits(o.id, o.job) /\ o.job.bench /\ o.yes \cup o.late \subseteq o.job.picks
  BY <1>1, <1>2 DEF DevInv, ResolutionFits
<1>4. PICK j \in DevJobs : j = o.id
  BY <1>3
<1>5. PICK c : c = o.job
  OBVIOUS
<1>6. Harmless(j) /\ RecordFits(j, c) /\ c \in Jobs /\ c.picks \subseteq Letters /\ c.bench /\ j <= made /\ JobFits(j)
  BY <1>3, <1>4, <1>5 DEF RecordFits, DevInv, Jobs
<1>7. Shapes /\ made \in Nat /\ DOMAIN jobs = DevJobs /\ DOMAIN op = Keys
  BY DEF DevInv, Shapes
<1>8. CASE \E next \in Rechecked(o) :
             /\ Free /\ UNCHANGED made
             /\ IF Settled(next)
                THEN /\ Leave(Resolution)
                     /\ Write(j, o.job,
                              [status |-> IF next.yes = o.job.picks THEN "benchmark_complete" ELSE "insufficient",
                               picks |-> next.yes, resolved |-> Cardinality(next.yes)])
                ELSE Enter(Resolution, next) /\ UNCHANGED jobs
  <2>1. PICK next \in Rechecked(o) :
             /\ Free /\ UNCHANGED made
             /\ IF Settled(next)
                THEN /\ Leave(Resolution)
                     /\ Write(j, o.job,
                              [status |-> IF next.yes = o.job.picks THEN "benchmark_complete" ELSE "insufficient",
                               picks |-> next.yes, resolved |-> Cardinality(next.yes)])
                ELSE Enter(Resolution, next) /\ UNCHANGED jobs
    BY <1>8
  <2>2. Passes(o, next)
    BY <1>3, <1>5, <1>6, RecheckedIs
  <2>3. /\ next.pc = "benchmark" /\ next.id = j /\ next.job = c /\ next.scan = o.scan /\ next.input = o.input
        /\ DOMAIN next = {"pc", "id", "job", "scan", "input", "todo", "yes", "late"}
        /\ next.yes \cup next.late \subseteq c.picks
    BY <1>2, <1>3, <1>4, <1>5, <2>2 DEF Passes
  <2>4. CASE ~Settled(next)
    <3>1. Enter(Resolution, next) /\ UNCHANGED <<jobs, made>>
      BY <2>1, <2>4
    <3>2. op'[Resolution] = next /\ \A k \in Kinds : op'[<<k, j>>] = op[<<k, j>>]
      BY <1>7, <3>1, ResolutionEntered
    <3>3. Harmless(j)' /\ RecordFits(j, c)'
      BY <1>2, <1>6, <3>1, <3>2 DEF Harmless, RecordFits, Moved, Posted, Busy
    <3>4. Harmless(next.id)' /\ RecordFits(next.id, next.job)'
      BY <2>3, <3>3
    <3>5. ResolutionFits'
      BY <1>3, <1>6, <2>3, <3>1, <3>2, <3>4 DEF ResolutionFits
    <3> QED BY <1>2, <2>1, <3>1, <3>5, ResolutionAlone
  <2>5. CASE Settled(next)
    <3>1. PICK s \in Checks \cup {"benchmark_complete"} :
            s = IF next.yes = o.job.picks THEN "benchmark_complete" ELSE "insufficient"
      BY DEF Checks
    <3>2. PICK n, y : n = Cardinality(y) /\ y = next.yes
      OBVIOUS
    <3>3. PICK B : B = Base(j, c)
      OBVIOUS
    <3>4. RecordFits(j, B) /\ B.bench /\ B \in Jobs /\ ~Moved(j)
      BY <1>6, <3>3 DEF Base, Harmless, JobFits, RecordFits
    <3>5. s \in Statuses /\ n \in Nat /\ y \in SUBSET Letters
      <4>1. y \subseteq Letters
        BY <1>6, <2>3, <3>2
      <4> QED BY <3>1, <3>2, <4>1, LettersCount DEF Checks, Statuses, Unmoved
    <3>6. PICK b : b = Patched(B, [status |-> s, picks |-> y, resolved |-> n])
      OBVIOUS
    <3>7. b = [B EXCEPT !.status = s, !.resolved = n, !.picks = y] /\ b \in Jobs
      <4>1. [status |-> s, picks |-> y, resolved |-> n] = [status |-> s, resolved |-> n, picks |-> y]
        OBVIOUS
      <4>2. LET r == Patched(B, [status |-> s, resolved |-> n, picks |-> y])
            IN r = [B EXCEPT !.status = s, !.resolved = n, !.picks = y] /\ r \in Jobs
        BY <3>4, <3>5, LessPatch, Zenon
      <4>3. b = Patched(B, [status |-> s, resolved |-> n, picks |-> y])
        BY <3>6, <4>1, Zenon
      <4> QED BY <4>2, <4>3, Zenon
    <3>8. /\ b.status = s /\ b.resolved = Cardinality(b.picks) /\ b.proof = B.proof /\ b.tally = B.tally
          /\ b.moved = B.moved /\ b.restored = B.restored /\ b.started = B.started /\ b.bench = B.bench
      BY <3>2, <3>4, <3>7 DEF Jobs
    <3>9. jobs' = [jobs EXCEPT ![j] = b] /\ Enter(Resolution, NoOp) /\ made' = made
      BY <1>5, <2>1, <2>5, <3>1, <3>2, <3>3, <3>6 DEF Write, Updated, Base, Leave, Enter
    <3>10. /\ DOMAIN jobs' = DevJobs /\ jobs'[j] = b /\ \A i \in DevJobs : i # j => jobs'[i] = jobs[i]
           /\ op'[Resolution] = NoOp /\ \A k \in Kinds : op'[<<k, j>>] = op[<<k, j>>]
      BY <1>7, <3>9, ResolutionEntered
    <3>11. (~Moved(j) /\ ~Posted(j))' /\ \A k \in Kinds : (~Busy(k, j))'
      BY <1>2, <1>6, <3>10 DEF Harmless, Moved, Posted, Busy
    <3>12. s \in Unmoved /\ s # "running" /\ s # "undoing"
      BY <3>1 DEF Checks, Unmoved
    <3>13. RecordFits(j, b)'
      BY <3>4, <3>7, <3>8, <3>11, <3>12 DEF RecordFits
    <3>14. Harmless(j)'
      BY <3>4, <3>8, <3>10, <3>11 DEF Harmless
    <3>15. InHand(j)'
      BY <3>4, <3>8, <3>10, <3>12 DEF InHand, RecordFits
    <3>16. JobFits(j)'
      <4>1. witness'[j] = witness[j] /\ ~(j > made') /\ made' = made
        BY <1>2, <1>6, <1>7, <3>9, JobNumbers
      <4> QED BY <1>6, <3>4, <3>10, <3>11, <3>13, <3>14, <3>15, <4>1 DEF JobFits
    <3>17. AllFit(j)'
      BY <3>11, <3>16 DEF AllFit, TrashFits, UndoFits, ProofFits, Busy, Kinds
    <3>18. ResolutionFits'
      BY <3>10 DEF ResolutionFits, NoOp
    <3>19. made' \in Nat /\ made <= made'
      BY <1>7, <3>9
    <3> QED BY <1>2, <2>1, <3>9, <3>10, <3>17, <3>18, <3>19, ResolutionStep
  <2> QED BY <2>4, <2>5
<1>9. CASE Costs(1) /\ made < Cardinality(DevJobs) /\ Leave(Resolution) /\ Create(Job(o, "failed", {}))
  <2>1. PICK status \in Checks, picks \in SUBSET Letters : status = "failed" /\ picks = {}
    BY DEF Checks
  <2>2. PICK b, i : b = Job(o, status, picks) /\ i = made + 1
    OBVIOUS
  <2>3. Create(b) /\ Enter(Resolution, NoOp)
    BY <1>9, <2>1, <2>2 DEF Leave, Enter
  <2>4. ResolutionFits' => DevInv'
    BY <1>2, <1>3, <1>9, <2>2, <2>3, CreatedFits
  <2>5. op'[Resolution] = NoOp
    BY <1>7, <2>3, ResolutionEntered
  <2> QED BY <2>4, <2>5 DEF ResolutionFits, NoOp
<1>10. \/ \E next \in Rechecked(o) :
             /\ Free /\ UNCHANGED made
             /\ IF Settled(next)
                THEN /\ Leave(Resolution)
                     /\ Write(j, o.job,
                              [status |-> IF next.yes = o.job.picks THEN "benchmark_complete" ELSE "insufficient",
                               picks |-> next.yes, resolved |-> Cardinality(next.yes)])
                ELSE Enter(Resolution, next) /\ UNCHANGED jobs
       \/ Costs(1) /\ made < Cardinality(DevJobs) /\ Leave(Resolution) /\ Create(Job(o, "failed", {}))
  BY <1>1, <1>4, Zenon DEF Benchmark, FailsTheCheck
<1> QED BY <1>8, <1>9, <1>10

-----------------------------------------------------------------------------
(* The theorems.                                                            *)

LEMMA TrashWorkFits == ASSUME DevInv, NEW j \in DevJobs, TrashWork(j) PROVE DevInv'
BY TrashBeginsFits, TrashContextFits, TrashRecheckFits, TrashBatchFits, TrashStaleFits, TrashVerifyFits DEF TrashWork

LEMMA UndoWorkFits == ASSUME DevInv, NEW j \in DevJobs, UndoWork(j) PROVE DevInv'
BY UndoBeginsFits, UndoContextFits, UndoRereadFits, UntrashFits, UndoFallbackFits DEF UndoWork

LEMMA ProofWorkFits == ASSUME DevInv, NEW j \in DevJobs, ProofWork(j) PROVE DevInv'
BY ProofBeginsFits, ProofCheckpointFits, ProofRemoveFits, ProofCheckFits, ProofShadowFits DEF ProofWork

LEMMA ResolutionWorkFits == ASSUME DevInv, ResolutionWork PROVE DevInv'
BY PreviewContextFits, ResolveGroupFits, BenchmarkFits DEF ResolutionWork

LEMMA DevRequestsFit == ASSUME DevInv, DevRequests PROVE DevInv'
BY PreviewFits, ConfirmFits, UndoFitsIn, PostProofFits, StartOverFits DEF DevRequests

LEMMA DevSurroundingsFit == ASSUME DevInv, DevSurroundings PROVE DevInv'
BY CheckExpiresFits, JobExpiresFits, PurgeFits, TouchFits, RescanFits, ScanCompletesFits, DisconnectFits, ProcessDiesFits
   DEF DevSurroundings

LEMMA DevSteps == DevInv /\ [DevNext]_devVars => DevInv'
<1> SUFFICES ASSUME DevInv, [DevNext]_devVars PROVE DevInv'
  OBVIOUS
<1>1. CASE ResolutionWork
  BY <1>1, ResolutionWorkFits
<1>2. CASE \E j \in DevJobs : TrashWork(j) \/ UndoWork(j) \/ ProofWork(j)
  BY <1>2, TrashWorkFits, UndoWorkFits, ProofWorkFits
<1>3. CASE \E p \in DOMAIN posts : PostConnects(p)
  BY <1>3, PostConnectsFits
<1>4. CASE DevRequests
  BY <1>4, DevRequestsFit
<1>5. CASE DevSurroundings
  BY <1>5, DevSurroundingsFit
<1>6. CASE UNCHANGED devVars
  BY <1>6, DevStutters
<1> QED BY <1>1, <1>2, <1>3, <1>4, <1>5, <1>6 DEF DevNext

\* The development cleanup keeps its record: every job, every operation's copy of one and what
\* Gmail was asked fit each other (gmail-cleanup.ts, gmail-cleanup-store.ts), whatever joins,
\* fails, ends or is forgotten in between.
THEOREM DevCorrect == DevSpec => []DevInv
BY DevBegins, DevSteps, PTL DEF DevSpec

LEMMA OutcomeFromRecord == DevInv => DevOutcomeIsTrue
<1> SUFFICES ASSUME DevInv, NEW j \in DevJobs, NEW b, b = jobs[j], b # NoJob
    PROVE  LET w == witness[j]
           IN /\ b.status = "completed" => b.picks \subseteq w.in
              /\ b.tally # NoTally => /\ b.tally.verified + b.tally.failed + b.tally.uncertain = b.attempted
                                      /\ b.tally.verified = Cardinality(w.in)
                                      /\ b.moved = ByGroup(w.in)
              /\ \A g \in Groups : b.restored[g] <= b.moved[g]
              /\ b.status = "undone" => b.picks \subseteq w.out \/ b.proof # "none"
  BY DEF DevOutcomeIsTrue
<1>1. JobFits(j) /\ TrashFits(j)
  BY DEF DevInv
<1>2. RecordFits(j, b) /\ (Moved(j) /\ ~Busy("trash", j) => AnswersFit(j, b))
  BY <1>1 DEF JobFits
<1>3. CASE Moved(j) /\ ~Busy("trash", j)
  BY <1>2, <1>3 DEF AnswersFit
<1>4. CASE ~Moved(j) \/ Busy("trash", j)
  <2>1. b.tally = NoTally /\ b.moved = NoDelta /\ b.restored = NoDelta /\ b.status \notin {"completed", "undone"}
    <3>1. CASE ~Moved(j)
      BY <1>2, <3>1 DEF RecordFits, Unmoved
    <3>2. CASE Busy("trash", j)
      <4>1. PICK c : c = op[<<"trash", j>>].job
        OBVIOUS
      <4>2. /\ Alike(b, c) /\ c.tally = NoTally /\ c.moved = NoDelta /\ c.restored = NoDelta
            /\ c.status = "ready" \/ c.status = "running"
        BY <1>1, <3>2, <4>1 DEF TrashFits, Busy
      <4> QED BY <4>2 DEF Alike
    <3> QED BY <1>4, <3>1, <3>2
  <2>2. \A g \in Groups : b.restored[g] <= b.moved[g]
    BY <2>1 DEF NoDelta
  <2> QED BY <2>1, <2>2
<1> QED BY <1>3, <1>4

\* What a job says is what Gmail said: completed only when every message was read in Trash, its
\* counts those reads, no group with more restored than moved, undone only when every message
\* was read out of Trash or a proof had been tried (performGmailCleanupConfirmation, performGmailCleanupUndo).
THEOREM DevOutcomeHolds == DevSpec => []DevOutcomeIsTrue
BY DevCorrect, OutcomeFromRecord, PTL

LEMMA WorkFromRecord == DevInv => WorkIsInHand
<1> SUFFICES ASSUME DevInv, NEW j \in DevJobs
    PROVE  /\ jobs[j] # NoJob =>
                /\ jobs[j].status = "running" => op[<<"trash", j>>] # NoOp \/ "stale" \in around.faults
                /\ jobs[j].status = "undoing" => op[<<"undo", j>>] # NoOp
                /\ jobs[j].proof = "running" => op[<<"proof", j>>] # NoOp
                /\ jobs[j].status = "ready" => witness[j].batches = 0
           /\ op[<<"trash", j>>] # NoOp => op[<<"undo", j>>] = NoOp /\ op[<<"proof", j>>] = NoOp
  BY DEF WorkIsInHand
<1>1. JobFits(j) /\ TrashFits(j)
  BY DEF DevInv
<1> QED BY <1>1 DEF JobFits, InHand, RecordFits, Moved, TrashFits, Busy

\* A job that says it is running, undoing or being proved has an operation that will end it, but
\* for the failure to mark the report stale; no Undo or proof runs beside a Trash operation, and
\* a job that can be confirmed never moved anything (activeCleanupOperations).
THEOREM DevWorkInHand == DevSpec => []WorkIsInHand
BY DevCorrect, WorkFromRecord, PTL

\* No batch is sent, for the first time or again.
NoBatch == \A i \in DevJobs : witness'[i].batches = witness[i].batches

LEMMA SawNoBatch ==
  ASSUME Shapes, NEW j \in DevJobs, NEW place \in {"in", "out"}, NEW L, Saw(j, place, L)
  PROVE  NoBatch
BY DEF Saw, Shapes, Witnesses, NoBatch

LEMMA TrashOnlyBatch == ASSUME DevInv, NEW j \in DevJobs, TrashWork(j), ~TrashBatch(j), ~TrashResend(j) PROVE NoBatch
<1>1. Shapes
  BY DEF DevInv
<1>2. CASE TrashBegins(j) \/ TrashContext(j) \/ TrashRecheck(j) \/ TrashStale(j)
  BY <1>2 DEF TrashBegins, TrashContext, TrashRecheck, TrashStale, NoBatch
<1>3. CASE TrashVerify(j)
  <2>1. (\E m : Saw(j, "in", {m})) \/ UNCHANGED witness
    BY <1>3 DEF TrashVerify
  <2> QED BY <1>1, <2>1, SawNoBatch DEF NoBatch
<1> QED BY <1>2, <1>3 DEF TrashWork

LEMMA UndoNoBatch == ASSUME DevInv, NEW j \in DevJobs, UndoWork(j) PROVE NoBatch
<1>1. Shapes
  BY DEF DevInv
<1>2. CASE UndoBegins(j) \/ UndoContext(j)
  BY <1>2 DEF UndoBegins, UndoContext, NoBatch
<1>3. CASE UndoReread(j) \/ Untrash(j) \/ UndoFallback(j)
  <2>1. (\E m : Saw(j, "out", {m})) \/ UNCHANGED witness
    BY <1>3 DEF UndoReread, Untrash, UndoFallback
  <2> QED BY <1>1, <2>1, SawNoBatch DEF NoBatch
<1> QED BY <1>2, <1>3 DEF UndoWork

LEMMA ProofNoBatch == ASSUME DevInv, NEW j \in DevJobs, ProofWork(j) PROVE NoBatch
<1>1. Shapes
  BY DEF DevInv
<1>2. CASE ProofBegins(j) \/ ProofCheckpoint(j) \/ ProofShadow(j)
  BY <1>2 DEF ProofBegins, ProofCheckpoint, ProofShadow, NoBatch
<1>3. CASE ProofRemove(j)
  <2>1. witness' = [witness EXCEPT ![j].removes = @ + 1]
    BY <1>3 DEF ProofRemove
  <2> QED BY <1>1, <2>1 DEF Shapes, Witnesses, NoBatch
<1>4. CASE ProofCheck(j)
  <2>1. (\E m : Saw(j, "out", {m})) \/ UNCHANGED witness
    BY <1>4 DEF ProofCheck
  <2> QED BY <1>1, <2>1, SawNoBatch DEF NoBatch
<1> QED BY <1>2, <1>3, <1>4 DEF ProofWork

LEMMA RequestsNoBatch == ASSUME DevInv, DevRequests PROVE NoBatch
<1>1. witness \in [DevJobs -> Witnesses]
  BY DEF DevInv, Shapes
<1>2. ASSUME NEW input, Preview(input) PROVE NoBatch
  BY <1>2 DEF Preview, NoBatch
<1>3. ASSUME NEW j \in DevJobs, Confirm(j) PROVE NoBatch
  <2>1. PICK kept : witness' = [witness EXCEPT ![j].shield = kept]
    BY <1>3 DEF Confirm
  <2> QED BY <1>1, <2>1 DEF Witnesses, NoBatch
<1>4. ASSUME NEW j \in DevJobs, Undo(j) \/ PostProof(j) PROVE NoBatch
  BY <1>4 DEF Undo, PostProof, NoBatch
<1>5. ASSUME NEW j \in DevJobs, StartOver(j) PROVE NoBatch
  <2>1. witness' = [witness EXCEPT ![j].dropped = TRUE]
    BY <1>5 DEF StartOver
  <2> QED BY <1>1, <2>1 DEF Witnesses, NoBatch
<1> QED BY <1>2, <1>3, <1>4, <1>5 DEF DevRequests

LEMMA SurroundingsNoBatch == ASSUME DevSurroundings PROVE NoBatch
BY SMTT(30) DEF DevSurroundings, CheckExpires, JobExpires, Purge, Touch, Rescan, ScanCompletes, Disconnect, ProcessDies, NoBatch

LEMMA ResolutionNoBatch == ASSUME ResolutionWork PROVE NoBatch
BY DEF ResolutionWork, PreviewContext, ResolveGroup, Benchmark, NoBatch

LEMMA OnlyBatch == ASSUME DevInv, [DevNext]_devVars, ~NoBatch PROVE \E j \in DevJobs : TrashBatch(j) \/ TrashResend(j)
<1>1. CASE ResolutionWork
  BY <1>1, ResolutionNoBatch
<1>2. CASE \E j \in DevJobs : TrashWork(j) \/ UndoWork(j) \/ ProofWork(j)
  BY <1>2, TrashOnlyBatch, UndoNoBatch, ProofNoBatch
<1>3. CASE \E p \in DOMAIN posts : PostConnects(p)
  BY <1>3 DEF PostConnects, NoBatch
<1>4. CASE DevRequests
  BY <1>4, RequestsNoBatch
<1>5. CASE DevSurroundings
  BY <1>5, SurroundingsNoBatch
<1>6. CASE UNCHANGED devVars
  BY <1>6 DEF devVars, NoBatch
<1> QED BY <1>1, <1>2, <1>3, <1>4, <1>5, <1>6 DEF DevNext

Agreed(j) ==
  witness'[j].batches # witness[j].batches =>
    /\ ~witness[j].dropped /\ witness'[j].batches <= RetryAttempts
    /\ witness[j].batches # 0 =>
         ~witness[j].answered /\ witness[j].in = {} /\ witness'[j].letters = witness[j].letters
    /\ witness'[j].letters = op[<<"trash", j>>].job.picks
    /\ Cardinality(witness'[j].letters) = op[<<"trash", j>>].job.wanted
    /\ witness'[j].letters \cap witness[j].shield = {}

LEMMA BatchAgreed ==
  ASSUME DevInv, NEW j \in DevJobs, TrashBatch(j) \/ TrashResend(j)
  PROVE  \A i \in DevJobs : Agreed(i)
<1>1. PICK o : o = op[<<"trash", j>>]
  OBVIOUS
<1>2. PICK n : Sending(j, n) /\ TrashAttempt(j, n)
  BY DEF TrashBatch, TrashResend, Sending
<1>3. /\ o # NoOp /\ n \in Nat /\ n <= RetryAttempts /\ witness[j].batches = n - 1
      /\ n # 1 => ~witness[j].answered /\ witness[j].letters = o.job.picks
      /\ witness[j].in = {} /\ o.todo = o.job.picks /\ o.job.picks \cap witness[j].shield = {}
  BY <1>1, <1>2, SendingFits
<1>4. TrashFits(j) /\ witness \in [DevJobs -> Witnesses]
  BY DEF DevInv, Shapes
<1>5. Cardinality(o.job.picks) = o.job.wanted /\ ~witness[j].dropped
  BY <1>1, <1>3, <1>4 DEF TrashFits
<1>6. PICK answered : witness' = [witness EXCEPT ![j].batches = @ + 1, ![j].letters = o.todo, ![j].answered = answered]
  BY <1>1, <1>2 DEF TrashAttempt
<1>7. /\ \A i \in DevJobs : i # j => witness'[i] = witness[i]
      /\ witness'[j].letters = o.todo /\ witness'[j].batches = n
  BY <1>3, <1>4, <1>6 DEF Witnesses
<1>8. Agreed(j)
  BY <1>1, <1>3, <1>5, <1>7 DEF Agreed
<1> QED BY <1>7, <1>8 DEF Agreed

LEMMA AgreedSteps == DevInv /\ [DevNext]_devVars => [\A j \in DevJobs : Agreed(j)]_devVars
BY OnlyBatch, BatchAgreed DEF NoBatch, Agreed

\* A job moves mail by one request, for exactly the messages that were shown and confirmed, all of
\* them, none that the user had protected when confirming, and never after it was discarded; it is
\* sent again, RetryAttempts times at most, only while no attempt was answered and no message read
\* (performGmailCleanupConfirmation, invalidateGmailCleanupPreview, fetchWithRetry).
THEOREM DevMovesWhatWasAgreed == DevSpec => MovesWhatWasAgreed
<1>1. [][\A j \in DevJobs : Agreed(j)]_devVars <=> MovesWhatWasAgreed
  BY PTL DEF MovesWhatWasAgreed, Agreed
<1> QED BY <1>1, DevCorrect, AgreedSteps, PTL DEF DevSpec
=============================================================================
