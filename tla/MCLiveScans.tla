---------------------------- MODULE MCLiveScans ----------------------------
(***************************************************************************)
(* Instances of LiveScans for TLC: many small mailboxes scanned without a   *)
(* fault, and a fixed one scanned with every fault.                         *)
(***************************************************************************)
EXTENDS LiveScans, TLC

ScanFolders == {"inbox", "sent", "draft", "deleted", "sentsub", "delsub", "shop"}
ScanParent ==
  [f \in ScanFolders |-> CASE f = "sentsub" -> "sent" [] f = "delsub" -> "deleted" [] OTHER -> "root"]

\* An old bulk message of sender a, in a folder that is not listed or with something special.
Bulk == [id |-> 0, from |-> "a", folder |-> "inbox", age |-> "very_old", flag |-> "clear",
         important |-> FALSE, label |-> FALSE, headers |-> {"list_id", "unsubscribe"},
         conversation |-> "c1", subject |-> FALSE]
Late0 == [Bulk EXCEPT !.id = 9, !.age = "recent", !.from = "b", !.conversation = "c9"]

Kinds ==
  {Bulk, [Bulk EXCEPT !.conversation = "c2", !.headers = {"list_id"}],
   [Bulk EXCEPT !.from = "b", !.age = "old"],
   [Bulk EXCEPT !.from = "b", !.headers = {"auto_submitted"}, !.conversation = "c2"],
   [Bulk EXCEPT !.from = "none"], [Bulk EXCEPT !.flag = "flagged"],
   [Bulk EXCEPT !.flag = "missing"], [Bulk EXCEPT !.age = "recent"], [Bulk EXCEPT !.age = "none"],
   [Bulk EXCEPT !.folder = "delsub"], [Bulk EXCEPT !.folder = "search"],
   [Bulk EXCEPT !.folder = "sentsub", !.from = "b", !.conversation = "c2"],
   [Bulk EXCEPT !.folder = "draft"], [Bulk EXCEPT !.folder = "shop", !.label = TRUE],
   [Bulk EXCEPT !.subject = TRUE], [Bulk EXCEPT !.important = TRUE]}

Numbered(kinds) == [i \in DOMAIN kinds |-> [kinds[i] EXCEPT !.id = i]]

Quiet(provider, mail) == [provider |-> provider, mail |-> mail, faults |-> {}, events |-> 0]
Rough(provider, faults, budget) ==
  [provider |-> provider, faults |-> faults, events |-> budget,
   mail |-> Numbered(<<Bulk, Bulk, [Bulk EXCEPT !.folder = "sentsub", !.from = "b", !.conversation = "c2"]>>)]

\* Two messages that may be offered and up to two others, on top of or below them.
Mailboxes ==
  LET base == <<Bulk, [Bulk EXCEPT !.headers = {"list_id"}]>>
  IN {Numbered(base \o <<x, y>>) : x, y \in Kinds} \cup {Numbered(<<x>> \o base) : x \in Kinds}

ScanScenarios ==
  {Quiet(provider, mail) : provider \in {"graph", "imap", "gmail"}, mail \in Mailboxes}
  \cup {Rough("graph", {"oversized", "arrive", "error"}, 3), Rough("graph", {"crash", "slow", "again"}, 3),
        Rough("graph", {"crash", "disconnect", "rescan"}, 3), Rough("graph", {"stale", "again", "unstarted"}, 3),
        Rough("gmail", {"cancel", "again", "rescan"}, 3), Rough("gmail", {"expire", "rescan", "error"}, 3),
        Rough("gmail", {"crash", "stale"}, 2), Rough("graph", {"stale", "disconnect", "rescan"}, 3)}
=============================================================================
