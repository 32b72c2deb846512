--------------------------- MODULE BillingLedger ---------------------------
(***************************************************************************)
(* What is true of the billing rows, Stripe's side of the purchases and the *)
(* requests at work in every state of Billing: the inductive invariant      *)
(* behind its properties.                                                   *)
(***************************************************************************)
EXTENDS Billing

EventKinds == {"completed", "expired", "refunded", "disputed"}
Events == Purchases \X EventKinds
SessionStatuses == {"none", "open", "complete", "expired"}

Accounts == [exists : BOOLEAN, customer : BOOLEAN, lease : Workers \union {Nobody},
             synced : BOOLEAN, balance : Int]
PurchaseRows == [status : Statuses, user : Users \union {Nobody}, pack : Packs \union {0},
                 session : BOOLEAN, payment : BOOLEAN, granted : Nat, reversed : Nat, aged : BOOLEAN]
Sessions == [status : SessionStatuses, refunded : 0..Cents, disputed : BOOLEAN]
JobRows == [user : Users \union {Nobody}, inbox : Users \union {Nobody}, requested : Nat,
            moved : Nat, restored : Nat, closed : BOOLEAN, active : BOOLEAN]
Projections == [granted : Nat, reversed : Nat, payment : BOOLEAN, status : Statuses]
RequestRows == [pc : PCs, op : Operations \union {"none"}, user : Users \union {Nobody},
             pack : Packs \union {0}, purchase : Purchases \union {Nobody}, todo : SUBSET Purchases,
             event : Events \union {NoEvent}, seen : Projections]

BillingType ==
  /\ creditOwner \in [Users -> Users \union {Nobody}]
  /\ account \in [Users -> Accounts]
  /\ purchase \in [Purchases -> PurchaseRows]
  /\ session \in [Purchases -> Sessions]
  /\ sent \subseteq Events /\ receipts \subseteq Events
  /\ job \in [Jobs -> JobRows]
  /\ intents \subseteq Users
  /\ worker \in [Workers -> RequestRows]

------------------------------------------------------------------------------
\* What a row or a request says of a purchase's payment is what Stripe's side says,
\* or said before: it credits the pack or nothing, and takes back no more than is.
Backed(p, view) ==
  /\ view.granted \in {0, purchase[p].pack}
  /\ view.granted = 0 => view.reversed = 0
  /\ view.granted > 0 => session[p].status = "complete" /\ view.reversed <= TakenBack(p)
  /\ view.status # "none"
  /\ view.status \in {"paid", "reversed"} => session[p].status = "complete"
  /\ view.status = "expired" => session[p].status = "expired"

\* A purchase that was made has an account that exists, and a session only then.
PurchaseFits(p) ==
  IF purchase[p].status = "none"
  THEN purchase[p] = NoPurchase /\ session[p] = NoSession
  ELSE /\ purchase[p].user \in Users /\ account[purchase[p].user].exists
       /\ purchase[p].pack \in Packs
       /\ session[p].status # "complete" => session[p].refunded = 0 /\ ~session[p].disputed
       /\ Backed(p, purchase[p])

PurchasesFit == \A p \in Purchases : PurchaseFits(p)

\* The unique index: an account has one pending purchase at a time.
OnePending ==
  \A p, q \in Purchases :
    p # q /\ purchase[p].user = purchase[q].user
      => ~(purchase[p].status = "pending" /\ purchase[q].status = "pending")

EventsKnown == \A event \in sent : purchase[event[1]].status # "none"

Made(p, u) == p \in Purchases /\ purchase[p].status # "none" /\ purchase[p].user = u

\* A request works on a purchase of the account whose lease it asked for. What it
\* has read of a pending purchase is still so while it has the lease, for nothing
\* else fulfils the purchases of the account. A checkout past the owner's check is
\* of an account that is not linked, and stays so because the account exists.
RequestFits(w, r) ==
  /\ r.pc # "idle" => r.user \in Users /\ r.op \in Operations
  /\ r.pc \in {"account", "owner", "find", "create", "open", "save", "reopen", "reread"}
       => r.op = "checkout"
  /\ r.op = "checkout" => r.pack \in Packs
  /\ r.op = "checkout" /\ r.pc \notin {"idle", "account"} => account[r.user].exists
  /\ r.op = "checkout" /\ r.pc \notin {"idle", "account", "claim", "owner", "release"}
       => creditOwner[r.user] = Nobody
  /\ r.pc \in {"open", "save", "retrieve", "commit", "reopen", "reread"} => Made(r.purchase, r.user)
  /\ r.pc # "idle" /\ r.op = "webhook" => Made(r.purchase, r.user)
  /\ r.pc # "idle" => \A p \in r.todo : Made(p, r.user)
  /\ r.pc = "commit" => Backed(r.purchase, r.seen)
  /\ r.pc = "commit" /\ account[r.user].lease = w /\ r.seen.status = "pending"
       => purchase[r.purchase].status = "pending"

RequestsFit == \A w \in Workers : RequestFits(w, worker[w])

AccountsFit == \A u \in Users : ~account[u].exists => account[u].balance = 0

JobFits(j) ==
  IF job[j].user = Nobody
  THEN job[j] = NoJob
  ELSE /\ account[job[j].user].exists
       /\ job[j].inbox \in Users
       /\ job[j].moved <= job[j].requested

JobsFit == \A j \in Jobs : JobFits(j)

LinksFit ==
  /\ LinkedOwnNothing
  /\ \A v \in Users : creditOwner[v] # Nobody => account[v].exists

BillingInv ==
  /\ BillingType
  /\ PurchasesFit /\ OnePending /\ EventsKnown
  /\ RequestsFit /\ AccountsFit /\ JobsFit /\ LinksFit
=============================================================================
