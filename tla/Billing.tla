------------------------------ MODULE Billing ------------------------------
(***************************************************************************)
(* Credits: their purchase through Stripe Checkout, the webhooks and the    *)
(* reconciliation that fulfil it, the jobs that reserve and spend them, and *)
(* the linking of inboxes to one account                                    *)
(* (src/lib/billing/service.ts, credits.ts, inbox-link.ts).                 *)
(*                                                                         *)
(* A worker is one request: a checkout, a webhook or a reconciliation. It   *)
(* is a row of database statements and Stripe calls under a lease on the    *)
(* billing account that can lapse between any two of them; a transaction    *)
(* is one step. The row of a transaction's account serialises it with the   *)
(* others of that account, so a job's progress is one step as well.         *)
(***************************************************************************)
EXTENDS Integers, FiniteSets, FiniteSetsExt, Functions

CONSTANTS
  Users, Purchases, Jobs, Workers,
  Nobody,
  Packs,          \* the packs for sale, each named by its credits
  Cents,          \* what a pack costs
  Scenarios       \* which operations and faults a behaviour has, and how many

\* A pack has credits and costs something, and one of them is the largest.
ASSUME PacksAssumption ==
  /\ Packs \subseteq Nat \ {0} /\ Cents \in Nat \ {0}
  /\ \E most \in Packs : \A n \in Packs : n <= most

ASSUME NobodyAssumption == Nobody \notin Users \union Purchases \union Workers

VARIABLES
  creditOwner,    \* the account an inbox was linked to, its own when Nobody
  account,        \* the billing account of a user
  purchase,       \* credit purchases
  session,        \* Stripe's side of each: its Checkout session and its charge
  sent,           \* the events Stripe has sent
  receipts,       \* the events fulfilled
  job,            \* the credit accounting of each cleanup job
  intents,        \* users that have an inbox link intent open
  worker,
  around          \* what else may happen in this behaviour

vars == <<creditOwner, account, purchase, session, sent, receipts, job, intents, worker, around>>

Statuses == {"none", "pending", "paid", "reversed", "expired"}
Operations == {"checkout", "webhook", "reconcile"}
PCs == {"idle", "account", "claim", "owner", "find", "create", "open", "save",
        "retrieve", "commit", "reopen", "reread", "list", "pick", "release"}

NoAccount == [exists |-> FALSE, customer |-> FALSE, lease |-> Nobody, synced |-> FALSE, balance |-> 0]
NoPurchase == [status |-> "none", user |-> Nobody, pack |-> 0, session |-> FALSE,
               payment |-> FALSE, granted |-> 0, reversed |-> 0, aged |-> FALSE]
NoSession == [status |-> "none", refunded |-> 0, disputed |-> FALSE]
NoJob == [user |-> Nobody, inbox |-> Nobody, requested |-> 0, moved |-> 0, restored |-> 0,
          closed |-> FALSE, active |-> FALSE]
NoProjection == [granted |-> 0, reversed |-> 0, payment |-> FALSE, status |-> "pending"]
NoEvent == <<Nobody, "none">>
Idle == [pc |-> "idle", op |-> "none", user |-> Nobody, pack |-> 0, purchase |-> Nobody,
         todo |-> {}, event |-> NoEvent, seen |-> NoProjection]

Init ==
  /\ creditOwner = [u \in Users |-> Nobody]
  /\ account = [u \in Users |-> NoAccount]
  /\ purchase = [p \in Purchases |-> NoPurchase]
  /\ session = [p \in Purchases |-> NoSession]
  /\ sent = {} /\ receipts = {}
  /\ job = [j \in Jobs |-> NoJob]
  /\ intents = {}
  /\ worker = [w \in Workers |-> Idle]
  /\ around \in Scenarios

------------------------------------------------------------------------------
\* The account an inbox spends from.
OwnerOf(u) == IF creditOwner[u] = Nobody THEN u ELSE creditOwner[u]

\* What the open jobs of an account hold of its balance, and what is left.
Held(j) == job[j].active /\ ~job[j].closed

Reserved(u) ==
  SumFunctionOnSet([j \in Jobs |-> job[j].requested - job[j].moved],
                   {j \in Jobs : job[j].user = u /\ Held(j)})

Available(u) == account[u].balance - Reserved(u)

\* The credits of a purchase whose payment Stripe took back, rounded up.
TakenBack(p) ==
  IF session[p].disputed THEN purchase[p].pack
  ELSE (purchase[p].pack * session[p].refunded + Cents - 1) \div Cents

\* What a purchase is worth by the session and the charge as they are now.
Projection(p) ==
  IF session[p].status = "complete"
  THEN [granted |-> purchase[p].pack, reversed |-> TakenBack(p), payment |-> TRUE,
        status |-> IF TakenBack(p) > 0 THEN "reversed" ELSE "paid"]
  ELSE [NoProjection EXCEPT !.status = IF session[p].status = "expired" THEN "expired" ELSE "pending"]

------------------------------------------------------------------------------
\* The steps of a request, under the lease of the account it works for.
Holds(w) == account[worker[w].user].lease = w

Goto(w, pc) == worker' = [worker EXCEPT ![w].pc = pc]

\* The request is over: its lease is given back if it still has it.
Finish(w) == Goto(w, "release")

\* A step that throws. Reconciliation keeps the lease, so that a failing Stripe is
\* not asked again at once; the others give it back.
Throw(w) == IF worker[w].op = "reconcile" THEN worker' = [worker EXCEPT ![w] = Idle] ELSE Finish(w)

\* A request costs the behaviour one of the events it has left.
Budget == around.events > 0 /\ around' = [around EXCEPT !.events = @ - 1]

\* The account of the inbox is looked up before the checkout begins.
Checkout(w, u, pack) ==
  /\ u \in around.buyers /\ Budget
  /\ worker[w] = Idle /\ creditOwner[u] = Nobody
  /\ worker' = [worker EXCEPT ![w] = [Idle EXCEPT !.pc = "account", !.op = "checkout", !.user = u, !.pack = pack]]
  /\ UNCHANGED <<creditOwner, account, purchase, session, sent, receipts, job, intents>>

\* The billing account is created unless it exists.
UpsertAccount(w) ==
  /\ worker[w].pc = "account"
  /\ account' = [account EXCEPT ![worker[w].user].exists = TRUE]
  /\ Goto(w, "claim")
  /\ UNCHANGED <<creditOwner, purchase, session, sent, receipts, job, intents, around>>

\* A reconciliation of an account whose snapshot is no longer fresh.
Reconcile(w, u) ==
  /\ "reconcile" \in around.ops
  /\ worker[w] = Idle /\ account[u].customer /\ ~account[u].synced
  /\ worker' = [worker EXCEPT ![w] = [Idle EXCEPT !.pc = "claim", !.op = "reconcile", !.user = u]]
  /\ UNCHANGED <<creditOwner, account, purchase, session, sent, receipts, job, intents, around>>

\* Stripe delivers an event, as often as it takes. The events of a charge find the
\* purchase by the payment the purchase was fulfilled with; before that they are
\* ignored, and Stripe does not repeat them.
Webhook(w, event) ==
  LET p == event[1] IN
  /\ worker[w] = Idle /\ event \in sent \ receipts
  /\ \/ /\ event[2] \in {"completed", "expired"} \/ purchase[p].payment
        /\ worker' = [worker EXCEPT ![w] = [Idle EXCEPT !.pc = "claim", !.op = "webhook",
                        !.user = purchase[p].user, !.purchase = p, !.event = event]]
        /\ UNCHANGED sent
     \/ /\ event[2] \notin {"completed", "expired"} /\ ~purchase[p].payment
        /\ sent' = sent \ {event}
        /\ UNCHANGED worker
  /\ UNCHANGED <<creditOwner, account, purchase, session, receipts, job, intents, around>>

\* The lease is taken, or the request is answered with "try again".
ClaimLease(w) ==
  LET u == worker[w].user IN
  /\ worker[w].pc = "claim"
  /\ \/ /\ account[u].lease = Nobody
        /\ account' = [account EXCEPT ![u].lease = w]
        /\ Goto(w, CASE worker[w].op = "checkout" -> "owner"
                     [] worker[w].op = "reconcile" -> "list"
                     [] worker[w].op = "webhook" -> "retrieve")
     \/ /\ account[u].lease # Nobody
        /\ worker' = [worker EXCEPT ![w] = Idle]
        /\ UNCHANGED account
  /\ UNCHANGED <<creditOwner, purchase, session, sent, receipts, job, intents, around>>

\* An inbox that was linked meanwhile must not buy for itself. The customer of the
\* account is created once and saved under the lease.
CheckOwner(w) ==
  LET u == worker[w].user IN
  /\ worker[w].pc = "owner"
  /\ \/ creditOwner[u] # Nobody /\ Finish(w) /\ UNCHANGED account
     \/ /\ creditOwner[u] = Nobody /\ (account[u].customer \/ Holds(w))
        /\ account' = [account EXCEPT ![u].customer = TRUE]
        /\ Goto(w, "find")
     \/ creditOwner[u] = Nobody /\ ~account[u].customer /\ ~Holds(w) /\ Throw(w) /\ UNCHANGED account
  /\ UNCHANGED <<creditOwner, purchase, session, sent, receipts, job, intents, around>>

Pending(u) == {p \in Purchases : purchase[p].user = u /\ purchase[p].status = "pending"}

\* An earlier purchase of the account is continued: looked up at Stripe when its
\* session is known, otherwise created again under its own key.
FindPurchase(w) ==
  LET u == worker[w].user
      known == {p \in Pending(u) : purchase[p].session}
      mine == {p \in Pending(u) \ known : purchase[p].pack = worker[w].pack /\ ~purchase[p].aged} IN
  /\ worker[w].pc = "find"
  /\ \/ \E p \in known : worker' = [worker EXCEPT ![w].purchase = p, ![w].pc = "retrieve"]
     \/ \E p \in mine : worker' = [worker EXCEPT ![w].purchase = p, ![w].pc = "open"]
     \/ Pending(u) = {} /\ Goto(w, "create")
     \/ Pending(u) \ (known \union mine) # {} /\ Finish(w)
  /\ UNCHANGED <<creditOwner, account, purchase, session, sent, receipts, job, intents, around>>

\* Mutant: the database has no unique index on the pending purchases of an account.
CreateAnother(w) ==
  LET u == worker[w].user
      unused == {p \in Purchases : purchase[p].status = "none"} IN
  /\ worker[w].pc = "create"
  /\ \/ \E p \in unused :
          /\ purchase' = [purchase EXCEPT ![p] = [NoPurchase EXCEPT !.status = "pending",
                            !.user = u, !.pack = worker[w].pack]]
          /\ worker' = [worker EXCEPT ![w].purchase = p, ![w].pc = "open"]
     \/ unused = {} /\ Finish(w) /\ UNCHANGED purchase
  /\ UNCHANGED <<creditOwner, account, session, sent, receipts, job, intents, around>>

\* A new purchase. The database has at most one pending purchase of an account.
CreatePurchase(w) ==
  LET u == worker[w].user
      unused == {p \in Purchases : purchase[p].status = "none"} IN
  /\ worker[w].pc = "create"
  /\ \/ /\ Pending(u) = {}
        /\ \E p \in unused :
             /\ purchase' = [purchase EXCEPT ![p] = [NoPurchase EXCEPT !.status = "pending",
                               !.user = u, !.pack = worker[w].pack]]
             /\ worker' = [worker EXCEPT ![w].purchase = p, ![w].pc = "open"]
     \/ /\ Pending(u) # {} \/ unused = {}
        /\ Finish(w) /\ UNCHANGED purchase
  /\ UNCHANGED <<creditOwner, account, session, sent, receipts, job, intents, around>>

\* Stripe opens one session for a purchase and repeats its answer under the same key.
OpenSession(w) ==
  LET p == worker[w].purchase IN
  /\ worker[w].pc = "open"
  /\ session' = [session EXCEPT ![p].status = IF @ = "none" THEN "open" ELSE @]
  /\ Goto(w, "save")
  /\ UNCHANGED <<creditOwner, account, purchase, sent, receipts, job, intents, around>>

SaveSession(w) ==
  /\ worker[w].pc = "save"
  /\ purchase' = [purchase EXCEPT ![worker[w].purchase].session = TRUE]
  /\ Finish(w)
  /\ UNCHANGED <<creditOwner, account, session, sent, receipts, job, intents, around>>

\* Fulfilment: what Stripe says is read first ...
Retrieve(w) ==
  /\ worker[w].pc = "retrieve"
  /\ worker' = [worker EXCEPT ![w].seen = Projection(worker[w].purchase), ![w].pc = "commit"]
  /\ UNCHANGED <<creditOwner, account, purchase, session, sent, receipts, job, intents, around>>

Higher(m, n) == IF m > n THEN m ELSE n

\* Mutant: the balance is moved by all Stripe says, seen before or not.
FulfillAgain(w) ==
  LET p == worker[w].purchase
      seen == worker[w].seen IN
  IF worker[w].event \in receipts
  THEN UNCHANGED <<account, purchase, receipts>>
  ELSE /\ account' = [account EXCEPT ![purchase[p].user].balance = @ + seen.granted - seen.reversed]
       /\ purchase' = [purchase EXCEPT ![p].granted = seen.granted, ![p].reversed = seen.reversed,
                         ![p].session = TRUE, ![p].payment = @ \/ seen.payment, ![p].status = seen.status]
       /\ receipts' = receipts \union ({worker[w].event} \ {NoEvent})

\* ... and committed under the lease: what the balance has not seen of it yet, with
\* the receipt of the event that brought it.
Fulfill(w) ==
  LET p == worker[w].purchase
      old == purchase[p]
      granted == Higher(old.granted, worker[w].seen.granted)
      reversed == Higher(old.reversed, worker[w].seen.reversed) IN
  IF worker[w].event \in receipts
  THEN UNCHANGED <<account, purchase, receipts>>
  ELSE /\ account' = [account EXCEPT ![old.user].balance =
                        @ + (granted - old.granted) - (reversed - old.reversed)]
       /\ purchase' = [purchase EXCEPT ![p].granted = granted, ![p].reversed = reversed,
                         ![p].session = TRUE, ![p].payment = @ \/ worker[w].seen.payment,
                         ![p].status = IF reversed > 0 THEN "reversed"
                                       ELSE IF granted > 0 THEN "paid" ELSE worker[w].seen.status]
       /\ receipts' = receipts \union ({worker[w].event} \ {NoEvent})

\* What the request does after it.
Fulfilled(w) ==
  CASE worker[w].op = "checkout" -> "reopen"
    [] worker[w].op = "reconcile" -> "pick"
    [] worker[w].op = "webhook" -> "release"

Commit(w) ==
  /\ worker[w].pc = "commit"
  /\ \/ /\ Holds(w)
        /\ Fulfill(w)
        /\ worker' = [worker EXCEPT ![w].pc = Fulfilled(w), ![w].seen = NoProjection]
     \/ ~Holds(w) /\ Throw(w) /\ UNCHANGED <<account, purchase, receipts>>
  /\ UNCHANGED <<creditOwner, session, sent, job, intents, around>>

\* Back in the checkout: an open session is returned, or refused for another pack.
Reopen(w) ==
  /\ worker[w].pc = "reopen"
  /\ Goto(w, IF session[worker[w].purchase].status = "open" THEN "release" ELSE "reread")
  /\ UNCHANGED <<creditOwner, account, purchase, session, sent, receipts, job, intents, around>>

Reread(w) ==
  /\ worker[w].pc = "reread"
  /\ Goto(w, IF purchase[worker[w].purchase].status = "pending" THEN "release" ELSE "create")
  /\ UNCHANGED <<creditOwner, account, purchase, session, sent, receipts, job, intents, around>>

\* Mutant: reconciliation looks at pending purchases only.
ListPending(w) ==
  /\ worker[w].pc = "list"
  /\ worker' = [worker EXCEPT ![w].pc = "pick", ![w].todo =
                  {p \in Pending(worker[w].user) : purchase[p].session}]
  /\ UNCHANGED <<creditOwner, account, purchase, session, sent, receipts, job, intents, around>>

\* Reconciliation fulfils the purchases whose session is known, one after the other.
ListPurchases(w) ==
  /\ worker[w].pc = "list"
  /\ worker' = [worker EXCEPT ![w].pc = "pick", ![w].todo =
                  {p \in Purchases : purchase[p].user = worker[w].user /\ purchase[p].session}]
  /\ UNCHANGED <<creditOwner, account, purchase, session, sent, receipts, job, intents, around>>

PickPurchase(w) ==
  LET u == worker[w].user IN
  /\ worker[w].pc = "pick"
  /\ \/ /\ \E p \in worker[w].todo :
             worker' = [worker EXCEPT ![w].todo = @ \ {p}, ![w].purchase = p, ![w].pc = "retrieve"]
        /\ UNCHANGED account
     \/ /\ worker[w].todo = {} /\ Holds(w)
        /\ account' = [account EXCEPT ![u].synced = TRUE]
        /\ Finish(w)
     \/ worker[w].todo = {} /\ ~Holds(w) /\ Throw(w) /\ UNCHANGED account
  /\ UNCHANGED <<creditOwner, purchase, session, sent, receipts, job, intents, around>>

ReleaseLease(w) ==
  /\ worker[w].pc = "release"
  /\ account' = [account EXCEPT ![worker[w].user].lease = IF @ = w THEN Nobody ELSE @]
  /\ worker' = [worker EXCEPT ![w] = Idle]
  /\ UNCHANGED <<creditOwner, purchase, session, sent, receipts, job, intents, around>>

\* A call to Stripe fails.
StripeFails(w) ==
  /\ "outage" \in around.faults /\ Budget
  /\ worker[w].pc \in {"owner", "open", "retrieve", "reopen"}
  /\ Throw(w)
  /\ UNCHANGED <<creditOwner, account, purchase, session, sent, receipts, job, intents>>

\* The process stops: the lease stays with it.
WorkerDies(w) ==
  /\ "crash" \in around.faults /\ Budget
  /\ worker[w].pc # "idle"
  /\ worker' = [worker EXCEPT ![w] = Idle]
  /\ UNCHANGED <<creditOwner, account, purchase, session, sent, receipts, job, intents>>

\* The two minutes of a lease are over: that of a request which ended without
\* giving it back, ...
Abandoned(u) ==
  LET w == account[u].lease IN
  w # Nobody /\ (worker[w].user # u \/ worker[w].pc \in {"account", "claim"})

LeaseEnds(u) ==
  /\ Abandoned(u)
  /\ account' = [account EXCEPT ![u].lease = Nobody]
  /\ UNCHANGED <<creditOwner, purchase, session, sent, receipts, job, intents, worker, around>>

\* ... or that of a request still at work.
LeaseLapses(u) ==
  /\ "lapse" \in around.faults /\ Budget
  /\ account[u].lease # Nobody /\ ~Abandoned(u)
  /\ account' = [account EXCEPT ![u].lease = Nobody]
  /\ UNCHANGED <<creditOwner, purchase, session, sent, receipts, job, intents, worker>>

Work(w) ==
  \/ UpsertAccount(w) \/ ClaimLease(w) \/ CheckOwner(w) \/ FindPurchase(w) \/ CreatePurchase(w)
  \/ OpenSession(w) \/ SaveSession(w) \/ Retrieve(w) \/ Commit(w) \/ Reopen(w) \/ Reread(w)
  \/ ListPurchases(w) \/ PickPurchase(w) \/ ReleaseLease(w)

------------------------------------------------------------------------------
\* Stripe and the customer, who pays at the address a checkout returned. Each
\* change of a session or a charge is an event.
StripeChanges(p, kind) ==
  /\ session' = [session EXCEPT ![p] =
       CASE kind = "completed" -> [@ EXCEPT !.status = "complete"]
         [] kind = "expired" -> [@ EXCEPT !.status = "expired"]
         [] kind = "refunded" -> [@ EXCEPT !.refunded = @ + 1]
         [] kind = "disputed" -> [@ EXCEPT !.disputed = TRUE]]
  /\ CASE kind = "completed" -> session[p].status = "open" /\ purchase[p].session
       [] kind = "expired" -> session[p].status = "open"
       [] kind = "refunded" -> session[p].status = "complete" /\ session[p].refunded < Cents
       [] kind = "disputed" -> session[p].status = "complete" /\ ~session[p].disputed
  /\ \/ sent' = sent \union {<<p, kind>>}
     \/ "lost" \in around.faults /\ UNCHANGED sent
  /\ kind = "completed" \/ kind \in around.ops
  /\ UNCHANGED <<creditOwner, account, purchase, receipts, job, intents, worker, around>>

\* A purchase older than 23 hours; its session, which Stripe keeps for an hour, is
\* over by then.
Ages(p) ==
  /\ "age" \in around.faults /\ Budget
  /\ purchase[p].status = "pending" /\ session[p].status # "open"
  /\ \A w \in Workers : worker[w].purchase # p
  /\ purchase' = [purchase EXCEPT ![p].aged = TRUE]
  /\ UNCHANGED <<creditOwner, account, session, sent, receipts, job, intents, worker>>

\* The snapshot of an account is older than five minutes.
Stales(u) ==
  /\ "reconcile" \in around.ops /\ account[u].synced
  /\ account' = [account EXCEPT ![u].synced = FALSE]
  /\ UNCHANGED <<creditOwner, purchase, session, sent, receipts, job, intents, worker, around>>

------------------------------------------------------------------------------
\* Progress of a cleanup job is accounted in the transaction that commits the job:
\* its confirmation reserves, the moves it verifies spend, its end releases.
ReserveCredits(j, u, n) ==
  LET o == OwnerOf(u) IN
  /\ j \in around.jobs
  /\ job[j] = NoJob /\ account[o].exists
  /\ Available(o) >= n
  /\ job' = [job EXCEPT ![j] = [NoJob EXCEPT !.user = o, !.inbox = u, !.requested = n, !.active = TRUE]]
  /\ UNCHANGED <<creditOwner, account, purchase, session, sent, receipts, intents, worker, around>>

\* Verified moves are debited; verified restores, which begin when the job is
\* closed, are recorded and refund nothing.
AccountProgress(j, moved, restored, closed) ==
  LET o == OwnerOf(job[j].inbox) IN
  /\ job[j].active /\ job[j].user = o
  /\ moved \in job[j].moved..job[j].requested
  /\ restored \in job[j].restored..moved /\ (restored > job[j].restored => closed)
  /\ job[j].closed => moved = job[j].moved
  /\ <<moved, restored, closed>> # <<job[j].moved, job[j].restored, job[j].closed>>
  /\ account' = [account EXCEPT ![o].balance = @ + job[j].moved - moved]
  /\ job' = [job EXCEPT ![j].moved = moved, ![j].restored = restored, ![j].closed = @ \/ closed]
  /\ UNCHANGED <<creditOwner, purchase, session, sent, receipts, intents, worker, around>>

\* The state of a job is discarded or expires: its accounting stays, without a job.
JobStateDeleted(j) ==
  /\ job[j].active
  /\ job' = [job EXCEPT ![j].active = FALSE]
  /\ UNCHANGED <<creditOwner, account, purchase, session, sent, receipts, intents, worker, around>>

------------------------------------------------------------------------------
\* An inbox asks to share its credits with another, for ten minutes.
StartLink(u) ==
  /\ "link" \in around.ops /\ Budget
  /\ u \notin intents
  /\ intents' = intents \union {u}
  /\ UNCHANGED <<creditOwner, account, purchase, session, sent, receipts, job, worker>>

\* Mutant: an inbox whose billing account is empty is linked.
MayLinkEmpty(u, v) ==
  /\ creditOwner[v] = Nobody
  /\ \A t \in Users : creditOwner[t] # v
  /\ \A p \in Purchases : purchase[p].user # v
  /\ \A j \in Jobs : job[j].user # v /\ (job[j].active => job[j].inbox # v)

\* An inbox with a history of its own is not linked.
MayLink(u, v) ==
  /\ creditOwner[v] = Nobody /\ ~account[v].exists
  /\ \A t \in Users : creditOwner[t] # v
  /\ \A p \in Purchases : purchase[p].user # v
  /\ \A j \in Jobs : job[j].user # v /\ (job[j].active => job[j].inbox # v)

\* The other inbox signed in: in one serializable transaction its billing account
\* is created, which is what a first checkout of it would create, and it points to
\* the account of the first.
Link(u, v) ==
  /\ u \in intents /\ u # v
  /\ OwnerOf(v) = OwnerOf(u) \/ MayLink(u, v)
  /\ intents' = intents \ {u}
  /\ IF OwnerOf(v) = OwnerOf(u)
     THEN UNCHANGED <<creditOwner, account>>
     ELSE /\ account' = [account EXCEPT ![v].exists = TRUE]
          /\ creditOwner' = [creditOwner EXCEPT ![v] = OwnerOf(u)]
  /\ UNCHANGED <<purchase, session, sent, receipts, job, worker, around>>

Next ==
  \/ \E w \in Workers : Work(w) \/ StripeFails(w) \/ WorkerDies(w)
  \/ \E w \in Workers, u \in Users, pack \in Packs : Checkout(w, u, pack)
  \/ \E w \in Workers, u \in Users : Reconcile(w, u)
  \/ \E w \in Workers : \E event \in sent : Webhook(w, event)
  \/ \E u \in Users : LeaseEnds(u) \/ LeaseLapses(u) \/ Stales(u) \/ StartLink(u)
  \/ \E p \in Purchases, kind \in {"completed", "expired", "refunded", "disputed"} : StripeChanges(p, kind)
  \/ \E p \in Purchases : Ages(p)
  \/ \E j \in Jobs, u \in Users, n \in Packs : ReserveCredits(j, u, n)
  \/ \E j \in Jobs : \E moved, restored \in 0..job[j].requested, closed \in BOOLEAN :
       AccountProgress(j, moved, restored, closed)
  \/ \E j \in Jobs : JobStateDeleted(j)
  \/ \E u, v \in Users : Link(u, v)

Spec == Init /\ [][Next]_vars

\* A request goes on, an account is asked for again as long as its user comes
\* back, and a lease ends by the clock.
Fairness ==
  /\ \A w \in Workers : WF_vars(Work(w))
  /\ \A u \in Users : WF_vars(Stales(u)) /\ WF_vars(LeaseEnds(u))
                       /\ WF_vars(\E w \in Workers : Reconcile(w, u))

LiveSpec == Spec /\ Fairness

------------------------------------------------------------------------------
(* Properties *)

TypeOK ==
  /\ creditOwner \in [Users -> Users \union {Nobody}]
  /\ \A u \in Users : account[u].balance \in Int /\ account[u].lease \in Workers \union {Nobody}
  /\ \A p \in Purchases : purchase[p].status \in Statuses /\ purchase[p].pack \in Packs \union {0}
  /\ sent \subseteq Purchases \X {"completed", "expired", "refunded", "disputed"}
  /\ receipts \subseteq Purchases \X {"completed", "expired", "refunded", "disputed"}
  /\ \A j \in Jobs : job[j].moved \in 0..job[j].requested
  /\ \A w \in Workers : worker[w].pc \in PCs /\ worker[w].op \in Operations \union {"none"}
  /\ intents \subseteq Users

\* The ledger that the rows and Stripe's side of the purchases make together.
Balances == [u \in Users |-> account[u].balance]
Payers == [p \in Purchases |-> {purchase[p].user} \ {Nobody}]
Payments == [p \in Purchases |-> IF session[p].status = "complete" THEN purchase[p].pack ELSE 0]
Returns == [p \in Purchases |-> TakenBack(p)]
Grants == [p \in Purchases |-> purchase[p].granted]
Reversals == [p \in Purchases |-> purchase[p].reversed]
Holdings == [j \in Jobs |-> [of |-> {job[j].user} \ {Nobody}, requested |-> job[j].requested,
                             spent |-> job[j].moved, held |-> Held(j)]]

Ledger == INSTANCE CreditLedger WITH
  MaxCredits <- Max(Packs), Requests <- Packs,
  balance <- Balances, payer <- Payers, paid <- Payments, back <- Returns,
  granted <- Grants, reversed <- Reversals, hold <- Holdings

\* Behind the leases, the webhooks and the reconciliation is a ledger: each paid
\* purchase is credited once and what was taken back is debited once, whoever
\* brings the news and however often, and two jobs never reserve the same credits
\* (specs 33: Durable Accounting, Payment Safety).
CreditsAreLedger == Ledger!LedgerSpec

\* An account never has two sessions a customer could pay, also when a lease lapsed
\* between the look for a pending purchase and the creation of another.
OneOpenCheckout ==
  \A p, q \in Purchases :
    p # q /\ purchase[p].user = purchase[q].user
      => ~(session[p].status = "open" /\ session[q].status = "open")

\* What an inbox was linked to is an account, not another link, and the inbox has
\* no balance, purchase or job of its own that the link would hide, although a
\* checkout of it may have begun before the link.
LinkedOwnNothing ==
  \A v \in Users : creditOwner[v] # Nobody =>
    /\ creditOwner[creditOwner[v]] = Nobody
    /\ account[v].balance = 0
    /\ \A p \in Purchases : purchase[p].user # v
    /\ \A j \in Jobs : job[j].user # v

Settled(p) == purchase[p].granted = purchase[p].pack /\ purchase[p].reversed >= TakenBack(p)

\* What a customer paid, and what Stripe took back, reaches the balance, also when
\* the webhook was lost or ignored, as long as the account is looked at
\* (StripeBillingService.reconcile).
PaymentsArrive ==
  \A p \in Purchases :
    "reconcile" \in around.ops /\ session[p].status = "complete" /\ ~Settled(p) ~> Settled(p)
=============================================================================
