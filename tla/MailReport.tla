----------------------------- MODULE MailReport -----------------------------
(***************************************************************************)
(* From provider messages to the inbox report and the messages it offers    *)
(* for cleanup: the folder index and the normalisation of the providers,    *)
(* the protection and cleanup rules (domain/classification.ts, safety.ts,   *)
(* recommendations.ts), the streaming aggregation of the report             *)
(* (streaming-aggregator.ts), the estimate made for Outlook                 *)
(* (outlook-report.ts) and the targets saved for Gmail                      *)
(* (scalable-targets.ts, cleanup-candidates.ts).  All pure: module          *)
(* LiveScans runs them.  Sizes, unread counts, display names, reason codes  *)
(* and diagnostics are left out; ages are bands, and subjects are protected *)
(* or not.  No provider supplies a category during a scan.                  *)
(***************************************************************************)
EXTENDS Integers, Sequences, FiniteSets, SequencesExt

CONSTANTS
  Senders,        \* sender addresses
  Folders,        \* folders the provider lists: Standard ones and others
  Parent,         \* the folder a folder is in, or "root"
  RecurringMin,   \* RECURRING_SENDER_MIN_MESSAGES (3 in the code)
  VeryHighMin     \* VERY_HIGH_MIN_ELIGIBLE_MESSAGES (25 in the code)

Standard == {"inbox", "sent", "draft", "deleted"}
Unknown == "unknown@unknown.invalid"
Classes == {"BULK_NEWSLETTER", "ACCOUNT_OR_TRANSACTIONAL", "UNKNOWN"}

\* Headers of a message; those that are strong evidence of bulk mail. The fifth strong signal,
\* the category of promotions, is a category.
StrongSignals == {"list_id", "unsubscribe", "precedence_bulk", "precedence_list"}
Headers == StrongSignals \cup {"auto_submitted"}

ASSUME ReportAssumption ==
  /\ Standard \subseteq Folders
  /\ Parent \in [Folders -> Folders \cup {"root"}]
  /\ Unknown \notin Senders
  /\ {RecurringMin, VeryHighMin} \subseteq Nat \ {0}

When(condition, x) == IF condition THEN {x} ELSE {}
IsOld(age) == age \in {"old", "very_old"}

----------------------------------------------------------------------------
(* Folders.  The index is built breadth first: a folder is queued once,     *)
(* with the kind its descendants inherit.                                   *)

StandardKind(f) == IF f \in Standard \ {"inbox"} THEN f ELSE "none"

InheritedKind[f \in Folders] ==
  IF f \in Standard THEN StandardKind(f)
  ELSE IF Parent[f] = "root" THEN "none" ELSE InheritedKind[Parent[f]]

\* Mutant: only the standard folders themselves are classified.
StandardOnly(f) == IF f \in Folders THEN StandardKind(f) ELSE "none"

FolderKind(f) ==
  IF f \notin Folders THEN "none"
  ELSE IF Parent[f] # "root" /\ InheritedKind[Parent[f]] # "none"
       THEN InheritedKind[Parent[f]] ELSE StandardKind(f)

\* The conversations of the messages in the sent folders.
Participated(mail) == {m.conversation : m \in {n \in mail : FolderKind(n.folder) = "sent"}}

----------------------------------------------------------------------------
(* Normalisation.  A provider's message: sender or "none", folder, age or   *)
(* "none", the flag ("flagged", "clear" or "missing"), and so on.           *)

Sender(m) == IF m.from = "none" THEN Unknown ELSE m.from
Age(m) == IF m.age = "none" THEN "recent" ELSE m.age

NormalizeMicrosoft(m) ==
  [id |-> m.id, sender |-> Sender(m), age |-> Age(m), headers |-> {},
   label |-> m.label, starred |-> m.flag = "flagged", important |-> m.important,
   sent |-> FolderKind(m.folder) = "sent", draft |-> FolderKind(m.folder) = "draft",
   deleted |-> FolderKind(m.folder) = "deleted",
   excluded |-> FolderKind(m.folder) = "deleted" \/ m.folder \notin Folders,
   uncertain |-> m.from = "none" \/ m.age = "none" \/ m.flag = "missing",
   conversation |-> m.conversation, subject |-> m.subject]

NormalizeImap(m) ==
  [NormalizeMicrosoft(m) EXCEPT !.headers = m.headers, !.excluded = FolderKind(m.folder) = "deleted",
     !.uncertain = m.from = "none" \/ m.age = "none"]

\* All Mail: no folders; Sent and Draft are labels, as are the user's.
NormalizeGmail(m) ==
  [NormalizeImap(m) EXCEPT !.deleted = FALSE, !.excluded = FALSE, !.uncertain = FALSE]

Normalize(provider, m) ==
  CASE provider = "graph" -> NormalizeMicrosoft(m)
    [] provider = "imap" -> NormalizeImap(m)
    [] provider = "gmail" -> NormalizeGmail(m)

\* What a provider lists: all folders, only the listed ones, or All Mail.
Listed(provider, m) ==
  CASE provider = "graph" -> TRUE
    [] provider = "imap" -> m.folder \in Folders
    [] provider = "gmail" -> FolderKind(m.folder) # "deleted"

----------------------------------------------------------------------------
(* Classification, protection and eligibility of a record.                  *)

ClassifyMessage(r) ==
  IF r.headers \cap StrongSignals # {} THEN "BULK_NEWSLETTER"
  ELSE IF "auto_submitted" \in r.headers THEN "ACCOUNT_OR_TRANSACTIONAL" ELSE "UNKNOWN"

ProtectionReasons(r, participated) ==
  When(r.starred, "starred") \cup When(r.important, "important")
  \cup When(r.age = "recent", "recent") \cup When(r.sent, "sent")
  \cup When(r.draft, "draft") \cup When(r.excluded, "location")
  \cup When(r.uncertain, "incomplete") \cup When(r.subject, "subject")
  \cup When(~r.sent /\ r.conversation \in participated, "conversation")

ReviewSignals(r) ==
  When(r.label, "USER_LABEL_PRESENT")
  \cup When(ClassifyMessage(r) = "ACCOUNT_OR_TRANSACTIONAL", "TRANSACTIONAL_OR_ACCOUNT_LIKE")
  \cup When(ClassifyMessage(r) = "UNKNOWN", "UNKNOWN_MAIL_TYPE")

AssessMessage(r, participated) ==
  LET reasons == ProtectionReasons(r, participated)
      strong == r.headers \cap StrongSignals
  IN [sender |-> r.sender, age |-> r.age, class |-> ClassifyMessage(r),
      strong |-> strong, review |-> ReviewSignals(r), isProtected |-> reasons # {},
      eligible |-> reasons = {} /\ IsOld(r.age) /\ strong # {}]

----------------------------------------------------------------------------
(* The aggregator: one bucket per sender, in order of first appearance.     *)

Zero == [total |-> 0, isProtected |-> 0, eligible |-> 0]
NewBucket ==
  [total |-> 0, old |-> 0, veryOld |-> 0, isProtected |-> 0, eligible |-> 0,
   strong |-> {}, review |-> {}, classes |-> <<>>, byClass |-> [c \in Classes |-> Zero]]
NewAggregator == [order |-> <<>>, buckets |-> [s \in Senders \cup {Unknown} |-> NewBucket]]

Count(condition) == IF condition THEN 1 ELSE 0
AppendNew(s, x) == IF Contains(s, x) THEN s ELSE Append(s, x)

AddToBucket(b, c) ==
  [total |-> b.total + 1, old |-> b.old + Count(IsOld(c.age)),
   veryOld |-> b.veryOld + Count(c.age = "very_old"),
   isProtected |-> b.isProtected + Count(c.isProtected),
   eligible |-> b.eligible + Count(c.eligible),
   strong |-> b.strong \cup c.strong, review |-> b.review \cup c.review,
   classes |-> AppendNew(b.classes, c.class),
   byClass |-> [b.byClass EXCEPT ![c.class] =
      [total |-> @.total + 1, isProtected |-> @.isProtected + Count(c.isProtected),
       eligible |-> @.eligible + Count(c.eligible)]]]

ProcessClassified(agg, c) ==
  [order |-> AppendNew(agg.order, c.sender),
   buckets |-> [agg.buckets EXCEPT ![c.sender] = AddToBucket(@, c)]]

ProcessBatch(agg, records, participated) ==
  FoldLeft(LAMBDA a, r : ProcessClassified(a, AssessMessage(r, participated)), agg, records)

\* A stable sort, largest first.
LargestFirst(s, Size(_)) ==
  LET ranked == SortSeq([i \in DOMAIN s |-> <<i, s[i]>>], LAMBDA x, y :
                  Size(x[2]) > Size(y[2]) \/ (Size(x[2]) = Size(y[2]) /\ x[1] < y[1]))
  IN FoldLeft(LAMBDA sorted, x : Append(sorted, x[2]), <<>>, ranked)

MostCommonCategory(b) == LargestFirst(b.classes, LAMBDA c : b.byClass[c].total)[1]

RecommendSenderGroup(b) ==
  IF 10 * b.isProtected >= 4 * b.total /\ b.isProtected < b.total THEN "review"
  ELSE IF b.isProtected = b.total THEN "keep"
  ELSE IF "USER_LABEL_PRESENT" \in b.review THEN "review"
  ELSE IF b.eligible = 0 THEN IF MostCommonCategory(b) = "UNKNOWN" THEN "keep" ELSE "review"
  ELSE IF b.total < RecurringMin THEN "review"
  ELSE IF /\ Cardinality(b.strong) >= 2 /\ b.eligible >= VeryHighMin
          /\ 4 * b.old >= 3 * b.total \/ 2 * b.veryOld >= b.total THEN "very_high"
  ELSE "high"

Recommended(recommendation) == recommendation \in {"high", "very_high"}

\* Ready, protected and the rest; a negative rest is the error the code throws.
ReviewCount(total, ready, isProtected) == total - ready - isProtected

ToSenderAggregate(key, b) ==
  LET recommendation == RecommendSenderGroup(b)
      ready == IF Recommended(recommendation) THEN b.eligible ELSE 0
  IN [key |-> key, total |-> b.total, old |-> b.old, veryOld |-> b.veryOld,
      isProtected |-> b.isProtected, ready |-> ready,
      review |-> ReviewCount(b.total, ready, b.isProtected),
      recommendation |-> recommendation, class |-> MostCommonCategory(b)]

SumOver(S, F(_)) == FoldSet(LAMBDA x, n : F(x) + n, 0, S)

CategoryAggregate(agg, senders, c) ==
  LET Of(s) == agg.buckets[s.key].byClass[c]
      ready == SumOver({s \in ToSet(senders) : Recommended(s.recommendation)},
                       LAMBDA s : Of(s).eligible)
      total == SumOver(ToSet(senders), LAMBDA s : Of(s).total)
      isProtected == SumOver(ToSet(senders), LAMBDA s : Of(s).isProtected)
  IN [total |-> total, isProtected |-> isProtected, ready |-> ready,
      review |-> ReviewCount(total, ready, isProtected)]

Snapshot(agg) ==
  LET senders == LargestFirst([i \in DOMAIN agg.order |->
                   ToSenderAggregate(agg.order[i], agg.buckets[agg.order[i]])], LAMBDA s : s.total)
      all == ToSet(senders)
      messages == SumOver(all, LAMBDA s : s.total)
      ready == SumOver(all, LAMBDA s : s.ready)
      isProtected == SumOver(all, LAMBDA s : s.isProtected)
  IN [senders |-> senders, messages |-> messages, ready |-> ready, isProtected |-> isProtected,
      review |-> ReviewCount(messages, ready, isProtected),
      categories |-> [c \in Classes |-> CategoryAggregate(agg, senders, c)]]

----------------------------------------------------------------------------
(* Outlook: the report estimates from the base records, read without        *)
(* headers, and cleanup prepares from the same records.                     *)

IsPotential(r, participated) ==
  /\ ~AssessMessage(r, participated).isProtected /\ ~r.deleted
  /\ IsOld(r.age) /\ ~r.label

Potential(records, participated, key) ==
  Len(SelectSeq(records, LAMBDA r : r.sender = key /\ IsPotential(r, participated)))
Warnings(records, key) ==
  Len(SelectSeq(records, LAMBDA r : r.sender = key /\ (r.subject \/ r.label)))

BaseRecommendation(s, potential, warnings) ==
  IF s.isProtected = s.total THEN "keep"
  ELSE IF /\ s.total >= RecurringMin /\ potential >= RecurringMin
          /\ 10 * s.isProtected < 4 * s.total /\ warnings = 0 /\ 2 * s.old >= s.total
       THEN IF /\ potential >= VeryHighMin /\ 5 * s.isProtected < s.total
               /\ 4 * s.old >= 3 * s.total \/ 2 * s.veryOld >= s.total
            THEN "very_high" ELSE "high"
       ELSE "review"

WithEstimate(s, recommendation, potential) ==
  [s EXCEPT !.recommendation = recommendation,
            !.ready = IF Recommended(recommendation) THEN potential ELSE 0,
            !.review = @ - (IF Recommended(recommendation) THEN potential ELSE 0)]

\* The potential of the senders, added up for the whole and for the categories
\* they are classified as.
WithSenders(report, senders) ==
  LET ReadyOf(who) == SumOver(who, LAMBDA s : s.ready)
      Less(b, potential) == [b EXCEPT !.ready = potential, !.review = @ - potential]
  IN [Less(report, ReadyOf(ToSet(senders))) EXCEPT
        !.senders = senders,
        !.categories = [c \in Classes |->
          Less(@[c], ReadyOf({s \in ToSet(senders) : s.class = c}))]]

SnapshotOutlookBase(records, participated) ==
  LET Estimate(s, potential) ==
        WithEstimate(s, BaseRecommendation(s, potential, Warnings(records, s.key)), potential)
      Estimated(report) ==
        WithSenders(report, [i \in DOMAIN report.senders |->
          Estimate(report.senders[i], Potential(records, participated, report.senders[i].key))])
  IN Estimated(Snapshot(ProcessBatch(NewAggregator, records, participated)))

\* The groups of a report that cleanup may select, by their place in it.
EligibleGroups(report) ==
  {i \in DOMAIN report.senders :
     report.senders[i].ready > 0 /\ Recommended(report.senders[i].recommendation)}
GroupOf(report, key) == {i \in EligibleGroups(report) : report.senders[i].key = key}

OutlookCandidatePool(records, participated, report) ==
  FoldLeft(LAMBDA pool, r :
    IF \/ GroupOf(report, r.sender) = {} \/ ~IsPotential(r, participated)
       \/ \E t \in ToSet(pool) : t.id = r.id THEN pool
    ELSE Append(pool, [id |-> r.id, group |-> CHOOSE i \in GroupOf(report, r.sender) : TRUE]),
    <<>>, records)

----------------------------------------------------------------------------
(* Gmail: the eligible messages of the eligible groups, in scan order, are  *)
(* saved with the report; a cleanup of n messages takes them in turns from  *)
(* the groups, the best recommended and largest group first.                *)

EligibleIdentities(records, participated) ==
  SelectSeq(records, LAMBDA r :
    AssessMessage(r, participated).eligible /\ ~AssessMessage(r, participated).isProtected
    /\ ~r.subject)

ScalableTargets(report, identities) ==
  LET kept == SelectSeq(identities, LAMBDA r : GroupOf(report, r.sender) # {})
  IN [i \in DOMAIN kept |-> [id |-> kept[i].id,
                             group |-> CHOOSE g \in GroupOf(report, kept[i].sender) : TRUE]]

ResolutionOrder(report) ==
  LET Rank(i) == IF report.senders[i].recommendation = "very_high" THEN 0 ELSE 1
      Ready(i) == report.senders[i].ready
  IN SetToSortSeq(EligibleGroups(report), LAMBDA i, j :
       \/ Rank(i) < Rank(j)
       \/ Rank(i) = Rank(j) /\ Ready(i) > Ready(j)
       \/ Rank(i) = Rank(j) /\ Ready(i) = Ready(j) /\ i < j)

\* How many each group gives: round after round, one from each that has more.
Allocation(report, n) ==
  LET groups == ResolutionOrder(report)
      Most == FoldSet(LAMBDA g, m : IF report.senders[g].ready > m THEN report.senders[g].ready ELSE m,
                      0, EligibleGroups(report))
      turns == FlattenSeq([round \in 1 .. Most |->
                 SelectSeq(groups, LAMBDA g : report.senders[g].ready >= round)])
      taken == SubSeq(turns, 1, IF n < Len(turns) THEN n ELSE Len(turns))
  IN [g \in EligibleGroups(report) |-> Len(SelectSeq(taken, LAMBDA x : x = g))]

AllocateTargets(report, targets, n) ==
  LET groups == ResolutionOrder(report)
      OfGroup(g) == SelectSeq(targets, LAMBDA t : t.group = g)
      First(g) == SubSeq(OfGroup(g), 1, IF Allocation(report, n)[g] < Len(OfGroup(g))
                                        THEN Allocation(report, n)[g] ELSE Len(OfGroup(g)))
  IN FlattenSeq([i \in DOMAIN groups |-> First(groups[i])])

----------------------------------------------------------------------------
(* What a scan saves, and what that promises.                               *)

Report(provider, records, participated) ==
  IF provider = "graph" THEN SnapshotOutlookBase(records, participated)
  ELSE Snapshot(ProcessBatch(NewAggregator, records, participated))

\* The messages a cleanup of the whole report works on.
Offered(provider, records, participated, report) ==
  CASE provider = "graph" -> OutlookCandidatePool(records, participated, report)
    [] provider = "gmail" -> ScalableTargets(report, EligibleIdentities(records, participated))
    [] provider = "imap" -> <<>>

\* Total = Ready + Review + Protected, for the mailbox, every sender and every
\* category, and the parts add up to the whole (organizinbox-specs.md:862).
Reconciles(report) ==
  LET all == ToSet(report.senders)
      Whole(b) == b.review >= 0 /\ b.total = b.ready + b.review + b.isProtected
  IN /\ report.review >= 0 /\ report.messages = report.ready + report.review + report.isProtected
     /\ \A s \in all : Whole(s)
     /\ \A c \in Classes : Whole(report.categories[c])
     /\ report.messages = SumOver(Classes, LAMBDA c : report.categories[c].total)
     /\ report.isProtected = SumOver(Classes, LAMBDA c : report.categories[c].isProtected)

\* A message the user may be shown as cleanup, said of the provider's message.
SafeToOffer(provider, m, mail) ==
  LET InTree[f \in Folders] == {f} \cup IF Parent[f] = "root" THEN {} ELSE InTree[Parent[f]]
      Tree(x) == IF x.folder \in Folders THEN InTree[x.folder] ELSE {}
  IN /\ IsOld(m.age) /\ m.flag # "flagged"
     /\ ~m.important /\ ~m.subject /\ ~m.label
     /\ Tree(m) \cap {"sent", "draft", "deleted"} = {}
     /\ \A sent \in mail : "sent" \in Tree(sent) => sent.conversation # m.conversation
     /\ provider = "graph" => m.folder \in Folders /\ m.flag # "missing" /\ m.from # "none"
     /\ provider = "gmail" => m.headers \cap StrongSignals # {}
=============================================================================
