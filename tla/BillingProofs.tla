--------------------------- MODULE BillingProofs ---------------------------
(***************************************************************************)
(* Proofs about credits and billing: the inductive invariant of             *)
(* BillingLedger, the two safety properties of Billing that follow from it, *)
(* and that Billing implements CreditLedger.                                *)
(***************************************************************************)
EXTENDS BillingLedger, TLAPS

------------------------------------------------------------------------------
(* Division *)

LEMMA DivNat == ASSUME NEW a \in Nat, NEW c \in Nat \ {0} PROVE a \div c \in Nat
OBVIOUS

LEMMA DivDef ==
  ASSUME NEW a \in Nat, NEW c \in Nat \ {0}
  PROVE  (a \div c) * c <= a /\ a < (a \div c) * c + c
OBVIOUS

LEMMA DivMonotone ==
  ASSUME NEW a \in Nat, NEW b \in Nat, NEW c \in Nat \ {0}, a <= b
  PROVE  a \div c <= b \div c
<1> DEFINE x == a \div c
           y == b \div c
<1>1. x \in Nat /\ y \in Nat /\ x * c <= a /\ b < y * c + c
  BY DivNat, DivDef
<1> HIDE DEF x, y
<1>2. SUFFICES ASSUME y + 1 <= x PROVE FALSE
  BY <1>1 DEF x, y
<1>3. (y + 1) * c <= x * c
  BY <1>1, <1>2
<1>4. (y + 1) * c = y * c + c
  BY <1>1
<1>5. x * c \in Nat /\ y * c \in Nat
  BY <1>1
<1> QED BY <1>1, <1>3, <1>4, <1>5

\* Rounding up does not move what is exact.
LEMMA DivExact ==
  ASSUME NEW n \in Nat, NEW c \in Nat \ {0}
  PROVE  (n * c + c - 1) \div c = n
<1> DEFINE a == n * c + c - 1
<1>1. a \in Nat /\ n * c \in Nat
  OBVIOUS
<1>2. a = n * c + c - 1
  OBVIOUS
<1> HIDE DEF a
<1> DEFINE x == a \div c
<1>3. x \in Nat /\ x * c <= a /\ a < x * c + c
  BY <1>1, DivNat, DivDef
<1>4. x = a \div c
  OBVIOUS
<1> HIDE DEF x
<1>5. x <= n
  <2> SUFFICES ASSUME n + 1 <= x PROVE FALSE
    BY <1>3
  <2>1. (n + 1) * c <= x * c /\ (n + 1) * c = n * c + c /\ x * c \in Nat
    BY <1>3
  <2> QED BY <2>1, <1>1, <1>2, <1>3
<1>6. n <= x
  <2> SUFFICES ASSUME x + 1 <= n PROVE FALSE
    BY <1>3
  <2>1. (x + 1) * c <= n * c /\ (x + 1) * c = x * c + c /\ x * c \in Nat
    BY <1>3
  <2> QED BY <2>1, <1>1, <1>2, <1>3
<1> QED BY <1>3, <1>4, <1>5, <1>6 DEF a

\* The credits of n cents of a pack's price, rounded up.
Part(pack, n) == (pack * n + Cents - 1) \div Cents

LEMMA PartBounds ==
  ASSUME NEW pack \in Nat, NEW n \in 0..Cents
  PROVE  /\ Part(pack, n) \in Nat /\ Part(pack, n) <= pack
         /\ Part(pack, 0) = 0
<1> USE PacksAssumption
<1>1. pack * n \in Nat /\ pack * Cents \in Nat /\ pack * 0 = 0
  OBVIOUS
<1>2. pack * n <= pack * Cents
  OBVIOUS
<1>3. pack * n + Cents - 1 \in Nat /\ pack * Cents + Cents - 1 \in Nat
  BY <1>1
<1>4. Part(pack, n) \in Nat
  BY <1>3, DivNat DEF Part
<1>5. Part(pack, n) <= (pack * Cents + Cents - 1) \div Cents
  <2>1. pack * n + Cents - 1 <= pack * Cents + Cents - 1
    BY <1>1, <1>2
  <2> QED BY <1>3, <2>1, DivMonotone DEF Part
<1>6. (pack * Cents + Cents - 1) \div Cents = pack
  BY DivExact
<1>7. Part(pack, 0) = 0
  <2>1. pack * 0 + Cents - 1 = 0 * Cents + Cents - 1
    BY <1>1
  <2>2. (0 * Cents + Cents - 1) \div Cents = 0
    BY DivExact
  <2> QED BY <2>1, <2>2 DEF Part
<1> QED BY <1>4, <1>5, <1>6, <1>7

LEMMA PartMonotone ==
  ASSUME NEW pack \in Nat, NEW n \in 0..Cents, n < Cents
  PROVE  Part(pack, n) <= Part(pack, n + 1)
<1> USE PacksAssumption
<1>1. pack * n \in Nat /\ pack * (n + 1) \in Nat /\ pack * (n + 1) = pack * n + pack
  OBVIOUS
<1>2. /\ pack * n + Cents - 1 \in Nat /\ pack * (n + 1) + Cents - 1 \in Nat
      /\ pack * n + Cents - 1 <= pack * (n + 1) + Cents - 1
  BY <1>1
<1> QED BY <1>2, DivMonotone DEF Part

LEMMA PackIsNat ==
  ASSUME BillingType, NEW p \in Purchases
  PROVE  purchase[p].pack \in Nat
<1>1. purchase[p] \in PurchaseRows
  BY DEF BillingType
<1>2. PICK pack : pack = purchase[p].pack
  OBVIOUS
<1>3. pack \in Packs \union {0}
  BY <1>1, <1>2 DEF PurchaseRows
<1>4. pack \in Nat
  BY <1>3, PacksAssumption
<1> QED BY <1>2, <1>4

\* What was taken back of a purchase is at most the pack.
LEMMA TakenBackRange ==
  ASSUME BillingType, NEW p \in Purchases
  PROVE  /\ TakenBack(p) \in Nat /\ TakenBack(p) <= purchase[p].pack
         /\ session[p].refunded = 0 /\ ~session[p].disputed => TakenBack(p) = 0
<1>1. PICK n : n = session[p].refunded
  OBVIOUS
<1>2. PICK pack : pack = purchase[p].pack
  OBVIOUS
<1>3. n \in 0..Cents /\ pack \in Nat
  BY <1>1, <1>2, PackIsNat DEF BillingType, Sessions
<1>4. Part(pack, n) \in Nat /\ Part(pack, n) <= pack /\ Part(pack, 0) = 0
  BY <1>3, PartBounds
<1>5. TakenBack(p) = IF session[p].disputed THEN pack ELSE Part(pack, n)
  BY <1>1, <1>2 DEF TakenBack, Part
<1> QED BY <1>1, <1>2, <1>3, <1>4, <1>5

------------------------------------------------------------------------------
(* Types *)

LEMMA NoProjectionTyped == NoProjection \in Projections
BY DEF NoProjection, Projections, Statuses

LEMMA IdleTyped == Idle \in RequestRows
<1>1. NoEvent \in Events \union {NoEvent}
  OBVIOUS
<1> QED BY <1>1, NoProjectionTyped DEF Idle, RequestRows, PCs

\* A request at work has a user and an operation.
LEMMA AtWork ==
  ASSUME BillingType, RequestsFit, NEW w \in Workers, worker[w].pc # "idle"
  PROVE  worker[w].user \in Users /\ worker[w].op \in Operations
BY DEF RequestsFit, RequestFits

LEMMA ProjectionTyped ==
  ASSUME BillingType, NEW p \in Purchases
  PROVE  Projection(p) \in Projections
<1>1. TakenBack(p) \in Nat /\ purchase[p].pack \in Nat
  BY TakenBackRange, PackIsNat
<1> QED BY <1>1 DEF Projection, Projections, NoProjection, Statuses

\* The worker row after a step that sends it to another place.
LEMMA GotoTyped ==
  ASSUME BillingType, NEW w \in Workers, NEW pc \in PCs, Goto(w, pc)
  PROVE  worker' \in [Workers -> RequestRows]
BY DEF BillingType, Goto, RequestRows

LEMMA ThrowTyped ==
  ASSUME BillingType, NEW w \in Workers, Throw(w)
  PROVE  worker' \in [Workers -> RequestRows]
BY IdleTyped, GotoTyped DEF BillingType, Throw, Finish, PCs

\* The steps of a request that change its row alone, and those that change the
\* account with it.
LEMMA AccountStepTyped ==
  ASSUME BillingType, NEW u \in Users, NEW row \in Accounts,
         account' = [account EXCEPT ![u] = row]
  PROVE  account' \in [Users -> Accounts]
BY DEF BillingType

------------------------------------------------------------------------------
(* What a step leaves true of the requests it is not about *)

\* An account that exists keeps existing and, not linked, is not linked by the step;
\* the request x gets no lease by it.
AccountsStay(x) ==
  \A u \in Users :
    account[u].exists =>
      /\ account'[u].exists
      /\ creditOwner[u] = Nobody => creditOwner'[u] = Nobody
      /\ account'[u].lease = x => account[u].lease = x

\* A purchase stays that of its account.
PurchasesStay == \A p, u : Made(p, u) => Made(p, u)'

\* What was said of a payment is still so.
PaymentsStand ==
  \A p \in Purchases : \A view : view.reversed \in Nat /\ Backed(p, view) => Backed(p, view)'

\* The pending purchase a request is about to fulfil is still pending.
StaysPending(x, r) ==
  r.pc = "commit" /\ account[r.user].lease = x /\ purchase[r.purchase].status = "pending"
    => purchase'[r.purchase].status = "pending"

\* A purchase has a user and an account that exists.
LEMMA MadeFacts ==
  ASSUME BillingType, PurchasesFit, NEW p, NEW u, Made(p, u)
  PROVE  u \in Users /\ account[u].exists /\ purchase[p].pack \in Packs /\ Backed(p, purchase[p])
BY DEF Made, PurchasesFit, PurchaseFits

LEMMA RequestKept ==
  ASSUME BillingType, PurchasesFit, NEW x \in Workers, NEW r \in RequestRows, RequestFits(x, r),
         AccountsStay(x), PurchasesStay, PaymentsStand, StaysPending(x, r)
  PROVE  RequestFits(x, r)'
<1>1. /\ r.pc \in {"open", "save", "retrieve", "commit", "reopen", "reread"}
           => Made(r.purchase, r.user)'
      /\ r.pc # "idle" /\ r.op = "webhook" => Made(r.purchase, r.user)'
  BY DEF RequestFits, PurchasesStay
<1>2. r.pc # "idle" => \A p \in r.todo : Made(p, r.user)'
  BY DEF RequestFits, PurchasesStay
<1>3. r.pc = "commit" => Backed(r.purchase, r.seen)'
  <2> SUFFICES ASSUME r.pc = "commit" PROVE Backed(r.purchase, r.seen)'
    OBVIOUS
  <2>1. Made(r.purchase, r.user) /\ Backed(r.purchase, r.seen)
    BY DEF RequestFits
  <2>2. r.purchase \in Purchases /\ r.seen.reversed \in Nat
    BY <2>1 DEF Made, RequestRows, Projections
  <2> QED BY <2>1, <2>2 DEF PaymentsStand
<1>4. r.op = "checkout" /\ r.pc \notin {"idle", "account"} => account'[r.user].exists
  BY DEF RequestFits, AccountsStay
<1>5. r.op = "checkout" /\ r.pc \notin {"idle", "account", "claim", "owner", "release"}
        => creditOwner'[r.user] = Nobody
  BY DEF RequestFits, AccountsStay
<1>6. r.pc = "commit" /\ account'[r.user].lease = x /\ r.seen.status = "pending"
        => purchase'[r.purchase].status = "pending"
  <2> SUFFICES ASSUME r.pc = "commit", account'[r.user].lease = x, r.seen.status = "pending"
               PROVE  purchase'[r.purchase].status = "pending"
    OBVIOUS
  <2>1. Made(r.purchase, r.user) /\ r.user \in Users
    BY DEF RequestFits
  <2>2. account[r.user].exists
    BY <2>1, MadeFacts
  <2>3. account[r.user].lease = x
    BY <2>1, <2>2 DEF AccountsStay
  <2> QED BY <2>3 DEF RequestFits, StaysPending
<1> QED BY <1>1, <1>2, <1>3, <1>4, <1>5, <1>6 DEF RequestFits

\* A step that is about no purchase, job or link.
AccountsOnly ==
  /\ UNCHANGED <<creditOwner, purchase, session, job>>
  /\ sent' \subseteq sent /\ receipts' = receipts /\ intents' \subseteq Users
  /\ account' \in [Users -> Accounts]
  /\ \A u \in Users : /\ account'[u].balance = account[u].balance
                      /\ account[u].exists => account'[u].exists

LEMMA StayedBehind ==
  ASSUME UNCHANGED <<purchase, session>>
  PROVE  PurchasesStay /\ PaymentsStand
BY DEF PurchasesStay, PaymentsStand, Made, Backed, TakenBack

LEMMA AccountsOnlyKeeps ==
  ASSUME BillingInv, AccountsOnly, worker' \in [Workers -> RequestRows], RequestsFit'
  PROVE  BillingInv'
<1>1. BillingType'
  BY DEF BillingInv, BillingType, AccountsOnly
<1>2. PurchasesFit'
  BY DEF BillingInv, BillingType, PurchasesFit, PurchaseFits, Backed, TakenBack, AccountsOnly
<1>3. OnePending' /\ EventsKnown'
  BY DEF BillingInv, OnePending, EventsKnown, AccountsOnly
<1>4. AccountsFit'
  BY DEF BillingInv, AccountsFit, AccountsOnly
<1>5. JobsFit'
  <2> SUFFICES ASSUME NEW j \in Jobs PROVE JobFits(j)'
    BY DEF JobsFit
  <2>1. JobFits(j) /\ job'[j] = job[j] /\ job[j].user \in Users \union {Nobody}
    BY DEF BillingInv, BillingType, JobsFit, JobRows, AccountsOnly
  <2> QED BY <2>1 DEF JobFits, AccountsOnly
<1>6. LinksFit'
  BY DEF BillingInv, LinksFit, LinkedOwnNothing, AccountsOnly
<1> QED BY <1>1, <1>2, <1>3, <1>4, <1>5, <1>6 DEF BillingInv

\* A step of one request that changes its own row, and of the accounts at most the
\* lease it takes.
LEMMA RequestMoves ==
  ASSUME BillingInv, AccountsOnly, NEW w \in Workers, NEW r \in RequestRows,
         worker' = [worker EXCEPT ![w] = r], RequestFits(w, r)',
         \A x \in Workers \ {w} : AccountsStay(x)
  PROVE  BillingInv'
<1>1. worker \in [Workers -> RequestRows] /\ worker' \in [Workers -> RequestRows]
  BY DEF BillingInv, BillingType
<1>2. ASSUME NEW x \in Workers PROVE RequestFits(x, worker[x])'
  <2>1. CASE x = w
    BY <2>1, <1>1
  <2>2. CASE x # w
    <3>1. PICK s : s = worker[x]
      OBVIOUS
    <3>2. worker'[x] = s /\ s \in RequestRows /\ RequestFits(x, s)
      BY <1>1, <2>2, <3>1 DEF BillingInv, RequestsFit
    <3>3. AccountsStay(x) /\ PurchasesStay /\ PaymentsStand /\ StaysPending(x, s)
      BY <2>2, StayedBehind DEF AccountsOnly, StaysPending
    <3>4. RequestFits(x, s)'
      BY <3>2, <3>3, RequestKept DEF BillingInv
    <3> QED BY <3>2, <3>4
  <2> QED BY <2>1, <2>2
<1>3. RequestsFit'
  BY <1>2 DEF RequestsFit
<1> QED BY <1>1, <1>3, AccountsOnlyKeeps

\* A step of nobody's that changes accounts.
LEMMA AccountsMove ==
  ASSUME BillingInv, AccountsOnly, worker' = worker, \A x \in Workers : AccountsStay(x)
  PROVE  BillingInv'
<1>1. worker \in [Workers -> RequestRows]
  BY DEF BillingInv, BillingType
<1>2. ASSUME NEW x \in Workers PROVE RequestFits(x, worker[x])'
  <2>1. PICK s : s = worker[x]
    OBVIOUS
  <2>2. worker'[x] = s /\ s \in RequestRows /\ RequestFits(x, s)
    BY <1>1, <2>1 DEF BillingInv, RequestsFit
  <2>3. AccountsStay(x) /\ PurchasesStay /\ PaymentsStand /\ StaysPending(x, s)
    BY StayedBehind DEF AccountsOnly, StaysPending
  <2>4. RequestFits(x, s)'
    BY <2>2, <2>3, RequestKept DEF BillingInv
  <2> QED BY <2>2, <2>4
<1>3. RequestsFit'
  BY <1>2 DEF RequestsFit
<1> QED BY <1>1, <1>3, AccountsOnlyKeeps

------------------------------------------------------------------------------
(* The steps of a request *)

\* Nothing changes but requests, events and intents.
RowsOnly ==
  /\ UNCHANGED <<creditOwner, account, purchase, session, job, receipts>>
  /\ sent' \subseteq sent /\ intents' \subseteq Users

LEMMA RowsOnlyStay ==
  ASSUME BillingType, RowsOnly
  PROVE  AccountsOnly /\ \A x \in Workers : AccountsStay(x)
BY DEF BillingType, RowsOnly, AccountsOnly, AccountsStay

\* The rest of a step of a request: its new row fits what was before the step, and
\* it takes no lease.
LEMMA RowMoves ==
  ASSUME BillingInv, AccountsOnly, NEW w \in Workers, NEW r \in RequestRows,
         worker' = [worker EXCEPT ![w] = r], RequestFits(w, r),
         \A x \in Workers : AccountsStay(x)
  PROVE  BillingInv'
<1>1. PurchasesStay /\ PaymentsStand /\ StaysPending(w, r)
  BY StayedBehind DEF AccountsOnly, StaysPending
<1>2. RequestFits(w, r)'
  BY <1>1, RequestKept DEF BillingInv
<1> QED BY <1>2, RequestMoves

LEMMA RowAlone ==
  ASSUME BillingInv, RowsOnly, NEW w \in Workers, NEW r \in RequestRows,
         worker' = [worker EXCEPT ![w] = r], RequestFits(w, r)
  PROVE  BillingInv'
<1>1. AccountsOnly /\ \A x \in Workers : AccountsStay(x)
  BY RowsOnlyStay DEF BillingInv
<1> QED BY <1>1, RowMoves

\* A request that ends, one that gives its lease back, and one that throws.
LEMMA IdleFits == ASSUME NEW w \in Workers PROVE RequestFits(w, Idle)
BY DEF RequestFits, Idle

LEMMA RowTyped ==
  ASSUME BillingInv, NEW w \in Workers
  PROVE  worker[w] \in RequestRows /\ RequestFits(w, worker[w])
BY DEF BillingInv, BillingType, RequestsFit

LEMMA PCTyped ==
  ASSUME NEW s \in RequestRows, NEW q \in PCs
  PROVE  [s EXCEPT !.pc = q] \in RequestRows
BY DEF RequestRows

LEMMA ReleaseFits ==
  ASSUME NEW w \in Workers, NEW s \in RequestRows, RequestFits(w, s), s.pc \notin {"idle", "account"}
  PROVE  RequestFits(w, [s EXCEPT !.pc = "release"])
<1>1. PICK r : r = [s EXCEPT !.pc = "release"]
  OBVIOUS
<1>2. /\ r.pc = "release" /\ r.op = s.op /\ r.user = s.user /\ r.pack = s.pack
      /\ r.purchase = s.purchase /\ r.todo = s.todo /\ r.seen = s.seen
  BY <1>1 DEF RequestRows
<1>3. RequestFits(w, r)
  BY <1>2 DEF RequestFits
<1> QED BY <1>1, <1>3

\* What a request's row is after it goes to another place.
LEMMA GotoRow ==
  ASSUME BillingInv, NEW w \in Workers, NEW q \in PCs, Goto(w, q),
         NEW s, s = worker[w]
  PROVE  worker' = [worker EXCEPT ![w] = [s EXCEPT !.pc = q]]
BY DEF Goto, BillingInv, BillingType

\* Where a request does not begin, it may end.
LEMMA EndsRow ==
  ASSUME BillingInv, NEW w \in Workers, worker[w].pc \notin {"idle", "account"},
         \/ Finish(w) \/ Throw(w) \/ worker' = [worker EXCEPT ![w] = Idle]
  PROVE  \E r \in RequestRows : worker' = [worker EXCEPT ![w] = r] /\ RequestFits(w, r)
<1>1. PICK s : s = worker[w]
  OBVIOUS
<1>2. s \in RequestRows /\ RequestFits(w, s) /\ s.pc \notin {"idle", "account"}
  BY <1>1, RowTyped
<1>3. CASE worker' = [worker EXCEPT ![w] = Idle]
  BY <1>3, IdleTyped, IdleFits
<1>4. CASE Finish(w)
  <2>1. PICK r : r = [s EXCEPT !.pc = "release"]
    OBVIOUS
  <2>2. r \in RequestRows /\ RequestFits(w, r)
    BY <1>2, <2>1, PCTyped, ReleaseFits DEF PCs
  <2>3. worker' = [worker EXCEPT ![w] = r]
    BY <1>1, <1>4, <2>1, GotoRow DEF Finish, PCs
  <2> QED BY <2>2, <2>3
<1> QED BY <1>3, <1>4 DEF Throw

\* A step that ends a request without touching the accounts.
LEMMA EndsKeeps ==
  ASSUME BillingInv, RowsOnly, NEW w \in Workers, worker[w].pc \notin {"idle", "account"},
         \/ Finish(w) \/ Throw(w) \/ worker' = [worker EXCEPT ![w] = Idle]
  PROVE  BillingInv'
<1>1. PICK r \in RequestRows : worker' = [worker EXCEPT ![w] = r] /\ RequestFits(w, r)
  BY EndsRow
<1> QED BY <1>1, RowAlone

\* A step that sends a request on without touching the accounts.
LEMMA GoesOnKeeps ==
  ASSUME BillingInv, RowsOnly, NEW w \in Workers, NEW q \in PCs, Goto(w, q),
         NEW s, s = worker[w], RequestFits(w, [s EXCEPT !.pc = q])
  PROVE  BillingInv'
<1>1. PICK r : r = [s EXCEPT !.pc = q]
  OBVIOUS
<1>2. r \in RequestRows /\ RequestFits(w, r)
  BY <1>1, RowTyped, PCTyped
<1>3. worker' = [worker EXCEPT ![w] = r]
  BY <1>1, GotoRow
<1> QED BY <1>2, <1>3, RowAlone

LEMMA CheckoutKeeps ==
  ASSUME BillingInv, NEW w \in Workers, NEW u \in Users, NEW pack \in Packs, Checkout(w, u, pack)
  PROVE  BillingInv'
<1>1. PICK r : r = [Idle EXCEPT !.pc = "account", !.op = "checkout", !.user = u, !.pack = pack]
  OBVIOUS
<1>2. r \in RequestRows
  BY <1>1, IdleTyped DEF RequestRows, PCs, Operations
<1>3. r.pc = "account" /\ r.op = "checkout" /\ r.user = u /\ r.pack = pack /\ r.todo = {}
  BY <1>1 DEF Idle
<1>4. RequestFits(w, r)
  BY <1>3 DEF RequestFits, Operations
<1>5. RowsOnly /\ worker' = [worker EXCEPT ![w] = r]
  BY <1>1 DEF Checkout, RowsOnly, BillingInv, BillingType
<1> QED BY <1>2, <1>4, <1>5, RowAlone

LEMMA ReconcileKeeps ==
  ASSUME BillingInv, NEW w \in Workers, NEW u \in Users, Reconcile(w, u)
  PROVE  BillingInv'
<1>1. PICK r : r = [Idle EXCEPT !.pc = "claim", !.op = "reconcile", !.user = u]
  OBVIOUS
<1>2. r \in RequestRows
  BY <1>1, IdleTyped DEF RequestRows, PCs, Operations
<1>3. r.pc = "claim" /\ r.op = "reconcile" /\ r.user = u /\ r.todo = {}
  BY <1>1 DEF Idle
<1>4. RequestFits(w, r)
  BY <1>3 DEF RequestFits, Operations
<1>5. RowsOnly /\ worker' = [worker EXCEPT ![w] = r]
  BY <1>1 DEF Reconcile, RowsOnly, BillingInv, BillingType
<1> QED BY <1>2, <1>4, <1>5, RowAlone

\* An event Stripe sent is about a purchase that was made, whose account it finds.
LEMMA WebhookKeeps ==
  ASSUME BillingInv, NEW w \in Workers, NEW event \in sent, Webhook(w, event)
  PROVE  BillingInv'
<1>1. PICK p : p = event[1]
  OBVIOUS
<1>2. PICK u : u = purchase[p].user
  OBVIOUS
<1>3. event \in Events /\ p \in Purchases /\ Made(p, u) /\ u \in Users
  BY <1>1, <1>2, MadeFacts DEF BillingInv, BillingType, EventsKnown, Events, Made
<1>4. CASE UNCHANGED worker
  <2>1. RowsOnly
    BY <1>4 DEF Webhook, RowsOnly, BillingInv, BillingType
  <2>2. AccountsOnly /\ \A x \in Workers : AccountsStay(x)
    BY <2>1, RowsOnlyStay DEF BillingInv
  <2> QED BY <1>4, <2>2, AccountsMove
<1>5. CASE worker' = [worker EXCEPT ![w] = [Idle EXCEPT !.pc = "claim", !.op = "webhook",
                        !.user = purchase[p].user, !.purchase = p, !.event = event]]
  <2>1. PICK r : r = [Idle EXCEPT !.pc = "claim", !.op = "webhook",
                        !.user = u, !.purchase = p, !.event = event]
    OBVIOUS
  <2>2. r \in RequestRows
    BY <1>3, <2>1, IdleTyped DEF RequestRows, PCs, Operations
  <2>3. r.pc = "claim" /\ r.op = "webhook" /\ r.user = u /\ r.purchase = p /\ r.todo = {}
    BY <2>1 DEF Idle
  <2>4. RequestFits(w, r)
    BY <1>3, <2>3 DEF RequestFits, Operations
  <2>5. RowsOnly /\ worker' = [worker EXCEPT ![w] = r]
    BY <1>2, <1>5, <2>1 DEF Webhook, RowsOnly, BillingInv, BillingType
  <2> QED BY <2>2, <2>4, <2>5, RowAlone
<1> QED BY <1>1, <1>4, <1>5 DEF Webhook

\* A step that writes one account, its balance and its existence aside.
LEMMA AccountWritten ==
  ASSUME BillingInv, NEW u \in Users, NEW a \in Accounts,
         account' = [account EXCEPT ![u] = a],
         a.balance = account[u].balance, account[u].exists => a.exists,
         UNCHANGED <<creditOwner, purchase, session, sent, receipts, job, intents>>
  PROVE  /\ AccountsOnly
         /\ \A x \in Workers : (a.lease = x => account[u].lease = x) => AccountsStay(x)
<1>1. account \in [Users -> Accounts] /\ account' \in [Users -> Accounts]
  BY DEF BillingInv, BillingType
<1>2. AccountsOnly
  BY <1>1 DEF AccountsOnly, BillingInv, BillingType
<1>3. ASSUME NEW x \in Workers, a.lease = x => account[u].lease = x
      PROVE  AccountsStay(x)
  BY <1>1, <1>3 DEF AccountsStay
<1> QED BY <1>2, <1>3

LEMMA UpsertAccountKeeps ==
  ASSUME BillingInv, NEW w \in Workers, UpsertAccount(w)
  PROVE  BillingInv'
<1>1. PICK s : s = worker[w]
  OBVIOUS
<1>2. s \in RequestRows /\ RequestFits(w, s) /\ s.pc = "account" /\ s.user \in Users
  BY <1>1, RowTyped DEF UpsertAccount, RequestFits
<1>3. PICK a : a = [account[s.user] EXCEPT !.exists = TRUE]
  OBVIOUS
<1>4. /\ a \in Accounts /\ account' = [account EXCEPT ![s.user] = a] /\ a.exists
      /\ a.balance = account[s.user].balance /\ a.lease = account[s.user].lease
  BY <1>1, <1>2, <1>3 DEF UpsertAccount, BillingInv, BillingType, Accounts
<1>5. AccountsOnly /\ \A x \in Workers : AccountsStay(x)
  BY <1>2, <1>4, AccountWritten DEF UpsertAccount
<1>6. PICK r : r = [s EXCEPT !.pc = "claim"]
  OBVIOUS
<1>7. r \in RequestRows /\ worker' = [worker EXCEPT ![w] = r]
  BY <1>1, <1>2, <1>6, PCTyped, GotoRow DEF UpsertAccount, PCs
<1>8. RequestFits(w, r)'
  <2>1. /\ r.pc = "claim" /\ r.op = s.op /\ r.user = s.user /\ r.pack = s.pack /\ r.todo = s.todo
    BY <1>2, <1>6 DEF RequestRows
  <2>2. account'[r.user].exists
    BY <1>2, <1>4, <2>1 DEF BillingInv, BillingType
  <2>3. /\ \A p \in r.todo : Made(p, r.user)'
        /\ r.op # "webhook"
    BY <1>2, <2>1 DEF RequestFits, Made, UpsertAccount
  <2> QED BY <1>2, <2>1, <2>2, <2>3 DEF RequestFits
<1> QED BY <1>5, <1>7, <1>8, RequestMoves

\* A step that ends a request and writes its account without taking a lease.
LEMMA WrittenAndEnded ==
  ASSUME BillingInv, NEW w \in Workers, worker[w].pc \notin {"idle", "account"},
         \/ Finish(w) \/ Throw(w) \/ worker' = [worker EXCEPT ![w] = Idle],
         AccountsOnly, \A x \in Workers : AccountsStay(x)
  PROVE  BillingInv'
<1>1. PICK r \in RequestRows : worker' = [worker EXCEPT ![w] = r] /\ RequestFits(w, r)
  BY EndsRow
<1> QED BY <1>1, RowMoves

LEMMA ClaimLeaseKeeps ==
  ASSUME BillingInv, NEW w \in Workers, ClaimLease(w)
  PROVE  BillingInv'
<1>1. PICK s : s = worker[w]
  OBVIOUS
<1>2. /\ s \in RequestRows /\ RequestFits(w, s) /\ s.pc = "claim" /\ s.user \in Users
      /\ s.op \in Operations
  BY <1>1, RowTyped DEF ClaimLease, RequestFits
<1>3. CASE worker' = [worker EXCEPT ![w] = Idle] /\ UNCHANGED account
  BY <1>1, <1>2, <1>3, EndsKeeps DEF ClaimLease, RowsOnly, BillingInv, BillingType
<1>4. ASSUME account' = [account EXCEPT ![s.user].lease = w], account[s.user].lease = Nobody,
             NEW q \in {"owner", "list", "retrieve"},
             q = "owner" => s.op = "checkout",
             q = "retrieve" => s.op = "webhook",
             s.op = "checkout" => q = "owner",
             Goto(w, q)
      PROVE  BillingInv'
  <2>1. PICK a : a = [account[s.user] EXCEPT !.lease = w]
    OBVIOUS
  <2>2. /\ a \in Accounts /\ account' = [account EXCEPT ![s.user] = a] /\ a.lease = w
        /\ a.balance = account[s.user].balance /\ (account[s.user].exists => a.exists)
    BY <1>2, <1>4, <2>1 DEF BillingInv, BillingType, Accounts
  <2>3. AccountsOnly /\ \A x \in Workers \ {w} : AccountsStay(x)
    <3>1. UNCHANGED <<creditOwner, purchase, session, sent, receipts, job, intents>>
      BY DEF ClaimLease
    <3>2. /\ AccountsOnly
          /\ \A x \in Workers : (a.lease = x => account[s.user].lease = x) => AccountsStay(x)
      BY <1>2, <2>2, <3>1, AccountWritten
    <3> QED BY <2>2, <3>2
  <2>4. PICK r : r = [s EXCEPT !.pc = q]
    OBVIOUS
  <2>5. r \in RequestRows /\ worker' = [worker EXCEPT ![w] = r]
    <3>1. q \in PCs
      BY DEF PCs
    <3> QED BY <1>1, <1>2, <1>4, <2>4, <3>1, PCTyped, GotoRow
  <2>6. RequestFits(w, r)
    <3>1. /\ r.pc = q /\ r.op = s.op /\ r.user = s.user /\ r.pack = s.pack
          /\ r.purchase = s.purchase /\ r.todo = s.todo
      BY <1>2, <2>4 DEF RequestRows
    <3> QED BY <1>2, <1>4, <3>1 DEF RequestFits
  <2>7. RequestFits(w, r)'
    <3>1. r.pc # "commit"
      BY <1>2, <1>4, <2>4 DEF RequestRows
    <3>2. /\ r.pc \in {"open", "save", "retrieve", "commit", "reopen", "reread"}
             => Made(r.purchase, r.user)'
          /\ r.pc # "idle" /\ r.op = "webhook" => Made(r.purchase, r.user)'
          /\ r.pc # "idle" => \A p \in r.todo : Made(p, r.user)'
      BY <2>6 DEF RequestFits, Made, ClaimLease
    <3>3. r.op = "checkout" /\ r.pc \notin {"idle", "account"} => account'[r.user].exists
      BY <2>3, <2>6 DEF RequestFits, AccountsOnly
    <3> QED BY <2>6, <3>1, <3>2, <3>3 DEF RequestFits, ClaimLease
  <2> QED BY <2>3, <2>5, <2>7, RequestMoves
<1>5. CASE worker' # [worker EXCEPT ![w] = Idle] \/ account' # account
  <2>1. PICK q : q = CASE s.op = "checkout" -> "owner"
                       [] s.op = "reconcile" -> "list"
                       [] s.op = "webhook" -> "retrieve"
    OBVIOUS
  <2>2. /\ account[s.user].lease = Nobody
        /\ account' = [account EXCEPT ![s.user].lease = w]
        /\ Goto(w, q)
    BY <1>1, <1>5, <2>1 DEF ClaimLease
  <2>3. /\ q \in {"owner", "list", "retrieve"} /\ (q = "owner" => s.op = "checkout")
        /\ (q = "retrieve" => s.op = "webhook") /\ (s.op = "checkout" => q = "owner")
    BY <1>2, <2>1 DEF Operations
  <2> QED BY <1>4, <2>2, <2>3
<1> QED BY <1>3, <1>5

LEMMA CheckOwnerKeeps ==
  ASSUME BillingInv, NEW w \in Workers, CheckOwner(w)
  PROVE  BillingInv'
<1>1. PICK s : s = worker[w]
  OBVIOUS
<1>2. /\ s \in RequestRows /\ RequestFits(w, s) /\ s.pc = "owner" /\ s.user \in Users
      /\ s.op = "checkout"
  BY <1>1, RowTyped DEF CheckOwner, RequestFits
<1>3. CASE (Finish(w) \/ Throw(w)) /\ UNCHANGED account
  BY <1>1, <1>2, <1>3, EndsKeeps DEF CheckOwner, RowsOnly, BillingInv, BillingType
<1>4. CASE /\ account' = [account EXCEPT ![s.user].customer = TRUE]
           /\ creditOwner[s.user] = Nobody /\ Goto(w, "find")
  <2>1. PICK a : a = [account[s.user] EXCEPT !.customer = TRUE]
    OBVIOUS
  <2>2. /\ a \in Accounts /\ account' = [account EXCEPT ![s.user] = a]
        /\ a.lease = account[s.user].lease
        /\ a.balance = account[s.user].balance /\ (account[s.user].exists => a.exists)
    BY <1>2, <1>4, <2>1 DEF BillingInv, BillingType, Accounts
  <2>3. AccountsOnly /\ \A x \in Workers : AccountsStay(x)
    <3>1. UNCHANGED <<creditOwner, purchase, session, sent, receipts, job, intents>>
      BY DEF CheckOwner
    <3>2. /\ AccountsOnly
          /\ \A x \in Workers : (a.lease = x => account[s.user].lease = x) => AccountsStay(x)
      BY <1>2, <2>2, <3>1, AccountWritten
    <3> QED BY <2>2, <3>2
  <2>4. PICK r : r = [s EXCEPT !.pc = "find"]
    OBVIOUS
  <2>5. r \in RequestRows /\ worker' = [worker EXCEPT ![w] = r]
    BY <1>1, <1>2, <1>4, <2>4, PCTyped, GotoRow DEF PCs
  <2>6. RequestFits(w, r)
    <3>1. /\ r.pc = "find" /\ r.op = s.op /\ r.user = s.user /\ r.pack = s.pack /\ r.todo = s.todo
      BY <1>2, <2>4 DEF RequestRows
    <3> QED BY <1>2, <1>4, <3>1 DEF RequestFits
  <2> QED BY <2>3, <2>5, <2>6, RowMoves
<1> QED BY <1>1, <1>3, <1>4 DEF CheckOwner

LEMMA FindPurchaseKeeps ==
  ASSUME BillingInv, NEW w \in Workers, FindPurchase(w)
  PROVE  BillingInv'
<1>1. PICK s : s = worker[w]
  OBVIOUS
<1>2. /\ s \in RequestRows /\ RequestFits(w, s) /\ s.pc = "find" /\ s.user \in Users
      /\ s.op = "checkout"
  BY <1>1, RowTyped DEF FindPurchase, RequestFits
<1>3. RowsOnly
  BY DEF FindPurchase, RowsOnly, BillingInv, BillingType
<1>4. CASE Finish(w)
  BY <1>1, <1>2, <1>3, <1>4, EndsKeeps
<1>5. CASE Goto(w, "create")
  <2>1. PICK r : r = [s EXCEPT !.pc = "create"]
    OBVIOUS
  <2>2. r \in RequestRows /\ worker' = [worker EXCEPT ![w] = r]
    BY <1>1, <1>2, <1>5, <2>1, PCTyped, GotoRow DEF PCs
  <2>3. RequestFits(w, r)
    <3>1. /\ r.pc = "create" /\ r.op = s.op /\ r.user = s.user /\ r.pack = s.pack /\ r.todo = s.todo
      BY <1>2, <2>1 DEF RequestRows
    <3> QED BY <1>2, <3>1 DEF RequestFits
  <2> QED BY <1>3, <2>2, <2>3, RowAlone
<1>6. ASSUME NEW p \in Pending(s.user), NEW q \in {"retrieve", "open"},
             worker' = [worker EXCEPT ![w].purchase = p, ![w].pc = q]
      PROVE  BillingInv'
  <2>1. PICK r : r = [s EXCEPT !.purchase = p, !.pc = q]
    OBVIOUS
  <2>2. r \in RequestRows /\ worker' = [worker EXCEPT ![w] = r]
    BY <1>1, <1>2, <1>6, <2>1 DEF RequestRows, PCs, Pending, BillingInv, BillingType
  <2>3. Made(p, s.user)
    BY DEF Made, Pending
  <2>4. RequestFits(w, r)
    <3>1. /\ r.pc = q /\ r.op = s.op /\ r.user = s.user /\ r.pack = s.pack /\ r.todo = s.todo
          /\ r.purchase = p
      BY <1>2, <2>1 DEF RequestRows
    <3> QED BY <1>2, <2>3, <3>1 DEF RequestFits
  <2> QED BY <1>3, <2>2, <2>4, RowAlone
<1> QED BY <1>1, <1>4, <1>5, <1>6 DEF FindPurchase

\* What Stripe says now is true now, and pending only of a pending purchase.
LEMMA ProjectionBacked ==
  ASSUME BillingType, PurchasesFit, NEW p, NEW u, Made(p, u)
  PROVE  /\ Backed(p, Projection(p))
         /\ Projection(p).status = "pending" => purchase[p].status = "pending"
<1>1. PICK t : t = TakenBack(p)
  OBVIOUS
<1>2. /\ p \in Purchases /\ purchase[p].status # "none" /\ t \in Nat
      /\ purchase[p].status \in Statuses /\ session[p].status \in SessionStatuses
  BY <1>1, TakenBackRange DEF Made, BillingType, PurchaseRows, Sessions
<1>3. PICK pack : pack = purchase[p].pack
  OBVIOUS
<1>4. pack \in Packs /\ pack # 0 /\ pack \in Nat /\ Backed(p, purchase[p])
  <2>1. pack \in Packs /\ Backed(p, purchase[p])
    BY <1>3, MadeFacts
  <2> QED BY <2>1, PacksAssumption
<1>5. CASE session[p].status = "complete"
  <2>1. PICK v : v = [granted |-> pack, reversed |-> t, payment |-> TRUE,
                      status |-> IF t > 0 THEN "reversed" ELSE "paid"]
    OBVIOUS
  <2>2. Projection(p) = v
    BY <1>1, <1>3, <1>5, <2>1 DEF Projection
  <2>3. v.granted = pack /\ v.reversed = t /\ v.status \in {"paid", "reversed"}
    BY <2>1
  <2>4. Backed(p, v)
    BY <1>1, <1>2, <1>3, <1>4, <1>5, <2>3 DEF Backed
  <2> QED BY <2>2, <2>3, <2>4
<1>6. CASE session[p].status # "complete"
  <2>1. PICK v : v = [NoProjection EXCEPT !.status = IF session[p].status = "expired" THEN "expired" ELSE "pending"]
    OBVIOUS
  <2>2. Projection(p) = v
    BY <1>6, <2>1 DEF Projection
  <2>3. /\ v.granted = 0 /\ v.reversed = 0
        /\ v.status = IF session[p].status = "expired" THEN "expired" ELSE "pending"
    BY <2>1 DEF NoProjection
  <2>4. Backed(p, v)
    BY <1>6, <2>3 DEF Backed
  <2>5. v.status = "pending" => purchase[p].status = "pending"
    BY <1>2, <1>4, <1>6, <2>3 DEF Backed, Statuses, SessionStatuses
  <2> QED BY <2>2, <2>4, <2>5
<1> QED BY <1>5, <1>6

LEMMA RetrieveKeeps ==
  ASSUME BillingInv, NEW w \in Workers, Retrieve(w)
  PROVE  BillingInv'
<1>1. PICK s : s = worker[w]
  OBVIOUS
<1>2. /\ s \in RequestRows /\ RequestFits(w, s) /\ s.pc = "retrieve"
      /\ Made(s.purchase, s.user) /\ s.purchase \in Purchases
  BY <1>1, RowTyped DEF Retrieve, RequestFits, Made
<1>3. PICK v : v = Projection(s.purchase)
  OBVIOUS
<1>4. /\ v \in Projections /\ Backed(s.purchase, v)
      /\ v.status = "pending" => purchase[s.purchase].status = "pending"
  BY <1>2, <1>3, ProjectionTyped, ProjectionBacked DEF BillingInv
<1>5. PICK r : r = [s EXCEPT !.seen = v, !.pc = "commit"]
  OBVIOUS
<1>6. r \in RequestRows /\ worker' = [worker EXCEPT ![w] = r]
  BY <1>1, <1>2, <1>3, <1>4, <1>5 DEF Retrieve, RequestRows, PCs, BillingInv, BillingType
<1>7. RequestFits(w, r)
  <2>1. /\ r.pc = "commit" /\ r.op = s.op /\ r.user = s.user /\ r.pack = s.pack /\ r.todo = s.todo
        /\ r.purchase = s.purchase /\ r.seen = v
    BY <1>2, <1>5 DEF RequestRows
  <2> QED BY <1>2, <1>4, <2>1 DEF RequestFits
<1>8. RowsOnly
  BY DEF Retrieve, RowsOnly, BillingInv, BillingType
<1> QED BY <1>6, <1>7, <1>8, RowAlone

LEMMA ReopenKeeps ==
  ASSUME BillingInv, NEW w \in Workers, Reopen(w)
  PROVE  BillingInv'
<1>1. PICK s : s = worker[w]
  OBVIOUS
<1>2. s \in RequestRows /\ RequestFits(w, s) /\ s.pc = "reopen"
  BY <1>1, RowTyped DEF Reopen
<1>3. RowsOnly
  BY DEF Reopen, RowsOnly, BillingInv, BillingType
<1>4. CASE Goto(w, "release")
  BY <1>1, <1>2, <1>3, <1>4, EndsKeeps DEF Finish
<1>5. CASE Goto(w, "reread")
  <2>1. PICK r : r = [s EXCEPT !.pc = "reread"]
    OBVIOUS
  <2>2. r \in RequestRows /\ worker' = [worker EXCEPT ![w] = r]
    BY <1>1, <1>2, <1>5, <2>1, PCTyped, GotoRow DEF PCs
  <2>3. /\ r.pc = "reread" /\ r.op = s.op /\ r.user = s.user /\ r.pack = s.pack /\ r.todo = s.todo
        /\ r.purchase = s.purchase
    BY <1>2, <2>1 DEF RequestRows
  <2>4. RequestFits(w, r)
    BY <1>2, <2>3 DEF RequestFits
  <2> QED BY <1>3, <2>2, <2>4, RowAlone
<1> QED BY <1>4, <1>5 DEF Reopen

LEMMA RereadKeeps ==
  ASSUME BillingInv, NEW w \in Workers, Reread(w)
  PROVE  BillingInv'
<1>1. PICK s : s = worker[w]
  OBVIOUS
<1>2. s \in RequestRows /\ RequestFits(w, s) /\ s.pc = "reread"
  BY <1>1, RowTyped DEF Reread
<1>3. RowsOnly
  BY DEF Reread, RowsOnly, BillingInv, BillingType
<1>4. CASE Goto(w, "release")
  BY <1>1, <1>2, <1>3, <1>4, EndsKeeps DEF Finish
<1>5. CASE Goto(w, "create")
  <2>1. PICK r : r = [s EXCEPT !.pc = "create"]
    OBVIOUS
  <2>2. r \in RequestRows /\ worker' = [worker EXCEPT ![w] = r]
    BY <1>1, <1>2, <1>5, <2>1, PCTyped, GotoRow DEF PCs
  <2>3. /\ r.pc = "create" /\ r.op = s.op /\ r.user = s.user /\ r.pack = s.pack /\ r.todo = s.todo
        /\ r.purchase = s.purchase
    BY <1>2, <2>1 DEF RequestRows
  <2>4. RequestFits(w, r)
    BY <1>2, <2>3 DEF RequestFits
  <2> QED BY <1>3, <2>2, <2>4, RowAlone
<1> QED BY <1>4, <1>5 DEF Reread

LEMMA ListPurchasesKeeps ==
  ASSUME BillingInv, NEW w \in Workers, ListPurchases(w)
  PROVE  BillingInv'
<1>1. PICK s : s = worker[w]
  OBVIOUS
<1>2. s \in RequestRows /\ RequestFits(w, s) /\ s.pc = "list" /\ s.user \in Users
  BY <1>1, RowTyped DEF ListPurchases, RequestFits
<1>3. PICK t : t = {p \in Purchases : purchase[p].user = s.user /\ purchase[p].session}
  OBVIOUS
<1>4. t \subseteq Purchases /\ \A p \in t : Made(p, s.user)
  <2> SUFFICES ASSUME NEW p \in t PROVE p \in Purchases /\ Made(p, s.user)
    OBVIOUS
  <2>1. p \in Purchases /\ purchase[p].user = s.user /\ PurchaseFits(p)
    BY <1>3 DEF BillingInv, PurchasesFit
  <2>2. purchase[p].status # "none"
    BY <1>2, <2>1, NobodyAssumption DEF PurchaseFits, NoPurchase
  <2> QED BY <2>1, <2>2 DEF Made
<1>5. PICK r : r = [s EXCEPT !.pc = "pick", !.todo = t]
  OBVIOUS
<1>6. r \in RequestRows /\ worker' = [worker EXCEPT ![w] = r]
  BY <1>1, <1>2, <1>3, <1>4, <1>5 DEF ListPurchases, RequestRows, PCs, BillingInv, BillingType
<1>7. RequestFits(w, r)
  <2>1. /\ r.pc = "pick" /\ r.op = s.op /\ r.user = s.user /\ r.pack = s.pack /\ r.todo = t
        /\ r.purchase = s.purchase
    BY <1>2, <1>5 DEF RequestRows
  <2> QED BY <1>2, <1>4, <2>1 DEF RequestFits
<1>8. RowsOnly
  BY DEF ListPurchases, RowsOnly, BillingInv, BillingType
<1> QED BY <1>6, <1>7, <1>8, RowAlone

LEMMA PickPurchaseKeeps ==
  ASSUME BillingInv, NEW w \in Workers, PickPurchase(w)
  PROVE  BillingInv'
<1>1. PICK s : s = worker[w]
  OBVIOUS
<1>2. s \in RequestRows /\ RequestFits(w, s) /\ s.pc = "pick" /\ s.user \in Users
  BY <1>1, RowTyped DEF PickPurchase, RequestFits
<1>3. ASSUME NEW p \in s.todo, UNCHANGED account,
             worker' = [worker EXCEPT ![w].todo = @ \ {p}, ![w].purchase = p, ![w].pc = "retrieve"]
      PROVE  BillingInv'
  <2>1. PICK r : r = [s EXCEPT !.todo = @ \ {p}, !.purchase = p, !.pc = "retrieve"]
    OBVIOUS
  <2>2. Made(p, s.user) /\ p \in Purchases
    BY <1>2 DEF RequestFits, Made
  <2>3. r \in RequestRows /\ worker' = [worker EXCEPT ![w] = r]
    BY <1>1, <1>2, <1>3, <2>1, <2>2 DEF RequestRows, PCs, BillingInv, BillingType
  <2>4. /\ r.pc = "retrieve" /\ r.op = s.op /\ r.user = s.user /\ r.pack = s.pack
        /\ r.todo \subseteq s.todo /\ r.purchase = p
    BY <1>2, <2>1 DEF RequestRows
  <2>5. RequestFits(w, r)
    BY <1>2, <2>2, <2>4 DEF RequestFits
  <2>6. RowsOnly
    BY <1>3 DEF PickPurchase, RowsOnly, BillingInv, BillingType
  <2> QED BY <2>3, <2>5, <2>6, RowAlone
<1>4. CASE account' = [account EXCEPT ![s.user].synced = TRUE] /\ Finish(w)
  <2>1. PICK a : a = [account[s.user] EXCEPT !.synced = TRUE]
    OBVIOUS
  <2>2. /\ a \in Accounts /\ account' = [account EXCEPT ![s.user] = a]
        /\ a.lease = account[s.user].lease
        /\ a.balance = account[s.user].balance
        /\ account[s.user].exists => a.exists
    BY <1>2, <1>4, <2>1 DEF BillingInv, BillingType, Accounts
  <2>3. UNCHANGED <<creditOwner, purchase, session, sent, receipts, job, intents>>
    BY DEF PickPurchase
  <2>4. AccountsOnly /\ \A x \in Workers : AccountsStay(x)
    BY <1>2, <2>2, <2>3, AccountWritten
  <2> QED BY <1>1, <1>2, <1>4, <2>4, WrittenAndEnded
<1>5. CASE Throw(w) /\ UNCHANGED account
  <2>1. RowsOnly
    BY <1>5 DEF PickPurchase, RowsOnly, BillingInv, BillingType
  <2> QED BY <1>1, <1>2, <1>5, <2>1, EndsKeeps
<1> QED BY <1>1, <1>3, <1>4, <1>5 DEF PickPurchase

LEMMA ReleaseLeaseKeeps ==
  ASSUME BillingInv, NEW w \in Workers, ReleaseLease(w)
  PROVE  BillingInv'
<1>1. PICK s : s = worker[w]
  OBVIOUS
<1>2. s \in RequestRows /\ RequestFits(w, s) /\ s.pc = "release" /\ s.user \in Users
  BY <1>1, RowTyped DEF ReleaseLease, RequestFits
<1>3. PICK a : a = [account[s.user] EXCEPT !.lease = IF @ = w THEN Nobody ELSE @]
  OBVIOUS
<1>4. /\ a \in Accounts /\ account' = [account EXCEPT ![s.user] = a]
      /\ a.lease \in {account[s.user].lease, Nobody}
      /\ a.balance = account[s.user].balance
      /\ account[s.user].exists => a.exists
  BY <1>1, <1>2, <1>3 DEF ReleaseLease, BillingInv, BillingType, Accounts
<1>5. UNCHANGED <<creditOwner, purchase, session, sent, receipts, job, intents>>
  BY DEF ReleaseLease
<1>6. /\ AccountsOnly
      /\ \A x \in Workers : (a.lease = x => account[s.user].lease = x) => AccountsStay(x)
  BY <1>2, <1>4, <1>5, AccountWritten
<1>7. \A x \in Workers : AccountsStay(x)
  BY <1>4, <1>6, NobodyAssumption
<1>8. worker' = [worker EXCEPT ![w] = Idle]
  BY DEF ReleaseLease
<1> QED BY <1>1, <1>2, <1>6, <1>7, <1>8, WrittenAndEnded

LEMMA RequestFailsKeeps ==
  ASSUME BillingInv, NEW w \in Workers, StripeFails(w) \/ WorkerDies(w)
  PROVE  BillingInv'
<1>1. RowsOnly
  BY DEF StripeFails, WorkerDies, RowsOnly, BillingInv, BillingType
<1>2. CASE StripeFails(w)
  <2>1. worker[w].pc \notin {"idle", "account"} /\ Throw(w)
    BY <1>2 DEF StripeFails
  <2> QED BY <1>1, <2>1, EndsKeeps
<1>3. CASE WorkerDies(w)
  <2>1. worker' = [worker EXCEPT ![w] = Idle]
    BY <1>3 DEF WorkerDies
  <2> QED BY <1>1, <2>1, IdleTyped, IdleFits, RowAlone
<1> QED BY <1>2, <1>3

\* The clock and the browser: a lease or a snapshot ends, an intent is opened.
LEMMA AccountClockKeeps ==
  ASSUME BillingInv, NEW u \in Users, LeaseEnds(u) \/ LeaseLapses(u) \/ Stales(u)
  PROVE  BillingInv'
<1>1. PICK b : b = account[u]
  OBVIOUS
<1>2. b \in Accounts
  BY <1>1 DEF BillingInv, BillingType
<1>3. PICK a : /\ a \in {[b EXCEPT !.lease = Nobody], [b EXCEPT !.synced = FALSE]}
               /\ account' = [account EXCEPT ![u] = a]
  BY <1>1 DEF LeaseEnds, LeaseLapses, Stales, BillingInv, BillingType
<1>4. /\ a \in Accounts /\ a.lease \in {b.lease, Nobody} /\ a.balance = b.balance
      /\ a.exists = b.exists
  BY <1>2, <1>3 DEF Accounts
<1>5. UNCHANGED <<creditOwner, purchase, session, sent, receipts, job, intents, worker>>
  BY DEF LeaseEnds, LeaseLapses, Stales
<1>6. /\ AccountsOnly
      /\ \A x \in Workers : (a.lease = x => account[u].lease = x) => AccountsStay(x)
  BY <1>1, <1>3, <1>4, <1>5, AccountWritten
<1>7. \A x \in Workers : AccountsStay(x)
  BY <1>1, <1>4, <1>6, NobodyAssumption
<1> QED BY <1>5, <1>6, <1>7, AccountsMove

LEMMA StartLinkKeeps ==
  ASSUME BillingInv, NEW u \in Users, StartLink(u)
  PROVE  BillingInv'
<1>1. RowsOnly /\ worker' = worker
  BY DEF StartLink, RowsOnly, BillingInv, BillingType
<1>2. AccountsOnly /\ \A x \in Workers : AccountsStay(x)
  BY <1>1, RowsOnlyStay DEF BillingInv
<1> QED BY <1>1, <1>2, AccountsMove

------------------------------------------------------------------------------
(* The steps of Stripe *)

\* A session that is changed stays complete or expired, and what was taken back of
\* its payment stays taken back.
SessionStep(p) ==
  /\ purchase[p].status # "none" /\ session' \in [Purchases -> Sessions]
  /\ \A q \in Purchases \ {p} : session'[q] = session[q]
  /\ session[p].status \in {"complete", "expired"} => session'[p].status = session[p].status
  /\ session'[p].status # "complete" => session'[p].refunded = 0 /\ ~session'[p].disputed
  /\ TakenBack(p) <= TakenBack(p)'
  /\ UNCHANGED <<creditOwner, account, purchase, job, receipts, intents>>
  /\ sent' \subseteq Events /\ \A event \in sent' \ sent : event[1] = p

LEMMA SessionStands ==
  ASSUME BillingType, NEW p \in Purchases, SessionStep(p)
  PROVE  PurchasesStay /\ PaymentsStand
<1>1. PurchasesStay
  BY DEF PurchasesStay, Made, SessionStep
<1>2. TakenBack(p) \in Nat
  BY TakenBackRange
<1>3. TakenBack(p)' \in Nat
  <2>1. PICK pack : pack = purchase[p].pack
    OBVIOUS
  <2>2. PICK n : n = session'[p].refunded
    OBVIOUS
  <2>3. pack \in Nat /\ n \in 0..Cents
    BY <2>1, <2>2, PackIsNat DEF SessionStep, Sessions
  <2>4. Part(pack, n) \in Nat
    BY <2>3, PartBounds
  <2>5. TakenBack(p)' = IF session'[p].disputed THEN pack ELSE Part(pack, n)
    BY <2>1, <2>2 DEF SessionStep, TakenBack, Part
  <2> QED BY <2>3, <2>4, <2>5
<1>4. ASSUME NEW q \in Purchases, NEW view, view.reversed \in Nat, Backed(q, view)
      PROVE  Backed(q, view)'
  <2>1. view.reversed <= TakenBack(q) => view.reversed <= TakenBack(q)'
    <3>1. CASE q = p
      <4>1. PICK m : m = TakenBack(p)
        OBVIOUS
      <4>2. PICK n : n = TakenBack(p)'
        OBVIOUS
      <4>3. PICK k : k = view.reversed
        OBVIOUS
      <4>4. m \in Nat /\ n \in Nat /\ k \in Nat /\ m <= n
        BY <1>2, <1>3, <1>4, <4>1, <4>2, <4>3 DEF SessionStep
      <4>5. k <= m => k <= n
        BY <4>4
      <4> QED BY <3>1, <4>1, <4>2, <4>3, <4>5
    <3>2. CASE q # p
      BY <3>2 DEF SessionStep, TakenBack
    <3> QED BY <3>1, <3>2
  <2>2. /\ session[q].status = "complete" => session'[q].status = "complete"
        /\ session[q].status = "expired" => session'[q].status = "expired"
        /\ purchase' = purchase
    BY DEF SessionStep
  <2> QED BY <1>4, <2>1, <2>2 DEF Backed
<1> QED BY <1>1, <1>4 DEF PaymentsStand

LEMMA SessionStepKeeps ==
  ASSUME BillingInv, NEW p \in Purchases, SessionStep(p),
         worker' \in [Workers -> RequestRows],
         \A x \in Workers : \E s \in RequestRows : worker'[x] = s /\ RequestFits(x, s)
  PROVE  BillingInv'
<1>1. PurchasesStay /\ PaymentsStand
  BY SessionStands DEF BillingInv
<1>2. BillingType'
  BY DEF BillingInv, BillingType, SessionStep
<1>3. RequestsFit'
  <2> SUFFICES ASSUME NEW x \in Workers PROVE RequestFits(x, worker[x])'
    BY DEF RequestsFit
  <2>1. PICK s \in RequestRows : worker'[x] = s /\ RequestFits(x, s)
    OBVIOUS
  <2>2. AccountsStay(x) /\ StaysPending(x, s)
    BY DEF AccountsStay, StaysPending, SessionStep
  <2>3. RequestFits(x, s)'
    BY <1>1, <2>1, <2>2, RequestKept DEF BillingInv
  <2> QED BY <2>1, <2>3
<1>4. PurchasesFit'
  <2> SUFFICES ASSUME NEW q \in Purchases PROVE PurchaseFits(q)'
    BY DEF PurchasesFit
  <2>1. /\ PurchaseFits(q) /\ UNCHANGED <<purchase, account>>
        /\ q # p => session'[q] = session[q]
    BY DEF BillingInv, PurchasesFit, SessionStep
  <2>2. CASE purchase[q].status = "none"
    <3>1. q # p
      BY <2>2 DEF SessionStep
    <3> QED BY <2>1, <2>2, <3>1 DEF PurchaseFits
  <2>3. CASE purchase[q].status # "none"
    <3>1. PICK v : v = purchase[q]
      OBVIOUS
    <3>2. v.reversed \in Nat /\ Backed(q, v)
      BY <2>1, <2>3, <3>1 DEF PurchaseFits, BillingInv, BillingType, PurchaseRows
    <3>3. Backed(q, v)'
      BY <1>1, <3>2 DEF PaymentsStand
    <3>4. Backed(q, purchase[q])'
      BY <2>1, <3>1, <3>3
    <3>5. session'[q].status # "complete" => session'[q].refunded = 0 /\ ~session'[q].disputed
      BY <2>1, <2>3 DEF PurchaseFits, SessionStep
    <3>6. purchase'[q].user \in Users /\ account'[purchase'[q].user].exists /\ purchase'[q].pack \in Packs
      BY <2>1, <2>3 DEF PurchaseFits
    <3> QED BY <2>1, <2>3, <3>4, <3>5, <3>6 DEF PurchaseFits
  <2> QED BY <2>2, <2>3
<1>5. OnePending' /\ EventsKnown'
  BY DEF BillingInv, OnePending, EventsKnown, SessionStep
<1>6. AccountsFit' /\ JobsFit' /\ LinksFit'
  BY DEF BillingInv, AccountsFit, JobsFit, JobFits, LinksFit, LinkedOwnNothing, SessionStep
<1> QED BY <1>2, <1>3, <1>4, <1>5, <1>6 DEF BillingInv

LEMMA OpenSessionKeeps ==
  ASSUME BillingInv, NEW w \in Workers, OpenSession(w)
  PROVE  BillingInv'
<1>1. PICK s : s = worker[w]
  OBVIOUS
<1>2. PICK p : p = s.purchase
  OBVIOUS
<1>3. /\ s \in RequestRows /\ RequestFits(w, s) /\ s.pc = "open" /\ Made(p, s.user)
      /\ p \in Purchases /\ purchase[p].status # "none"
  BY <1>1, <1>2, RowTyped DEF OpenSession, RequestFits, Made
<1>4. PICK r : r = [s EXCEPT !.pc = "save"]
  OBVIOUS
<1>5. r \in RequestRows /\ worker' = [worker EXCEPT ![w] = r]
  BY <1>1, <1>3, <1>4, PCTyped, GotoRow DEF PCs, OpenSession
<1>6. RequestFits(w, r)
  <2>1. /\ r.pc = "save" /\ r.op = s.op /\ r.user = s.user /\ r.pack = s.pack /\ r.todo = s.todo
        /\ r.purchase = s.purchase
    BY <1>3, <1>4 DEF RequestRows
  <2> QED BY <1>3, <2>1 DEF RequestFits
<1>7. SessionStep(p)
  <2>1. PurchaseFits(p) /\ session \in [Purchases -> Sessions] /\ sent \subseteq Events
    BY <1>3 DEF BillingInv, BillingType, PurchasesFit
  <2>2. session' = [session EXCEPT ![p].status = IF @ = "none" THEN "open" ELSE @]
    BY <1>1, <1>2 DEF OpenSession
  <2>3. /\ session' \in [Purchases -> Sessions]
        /\ \A q \in Purchases \ {p} : session'[q] = session[q]
    BY <1>3, <2>1, <2>2 DEF Sessions, SessionStatuses
  <2>4. /\ session'[p].refunded = session[p].refunded /\ session'[p].disputed = session[p].disputed
        /\ session'[p].status = IF session[p].status = "none" THEN "open" ELSE session[p].status
    BY <1>3, <2>1, <2>2 DEF Sessions
  <2>5. UNCHANGED <<creditOwner, account, purchase, sent, job, receipts, intents>>
    BY DEF OpenSession
  <2>6. TakenBack(p) <= TakenBack(p)'
    <3>1. TakenBack(p)' = TakenBack(p)
      BY <2>4, <2>5 DEF TakenBack
    <3>2. TakenBack(p) \in Nat
      BY <1>3, TakenBackRange DEF BillingInv
    <3> QED BY <3>1, <3>2
  <2> QED BY <1>3, <2>1, <2>3, <2>4, <2>5, <2>6 DEF SessionStep, PurchaseFits
<1>8. ASSUME NEW x \in Workers
      PROVE  \E t \in RequestRows : worker'[x] = t /\ RequestFits(x, t)
  BY <1>5, <1>6, RowTyped DEF BillingInv, BillingType
<1>9. worker' \in [Workers -> RequestRows]
  BY <1>5 DEF BillingInv, BillingType
<1> QED BY <1>3, <1>7, <1>8, <1>9, SessionStepKeeps

\* What Stripe's side of a purchase becomes by an event.
LEMMA StripeChangesSession ==
  ASSUME BillingType, NEW p \in Purchases, NEW kind \in EventKinds, StripeChanges(p, kind)
  PROVE  /\ session' \in [Purchases -> Sessions]
         /\ \A q \in Purchases \ {p} : session'[q] = session[q]
         /\ session'[p].status = IF kind = "completed" THEN "complete"
                                 ELSE IF kind = "expired" THEN "expired" ELSE session[p].status
         /\ session'[p].refunded = IF kind = "refunded" THEN session[p].refunded + 1 ELSE session[p].refunded
         /\ session'[p].disputed = IF kind = "disputed" THEN TRUE ELSE session[p].disputed
         /\ kind \in {"completed", "expired"} => session[p].status = "open"
         /\ kind \in {"refunded", "disputed"} => session[p].status = "complete"
         /\ kind = "refunded" => session[p].refunded < Cents
<1>1. PICK s : s = session[p]
  OBVIOUS
<1>2. s \in Sessions /\ session \in [Purchases -> Sessions]
  BY <1>1 DEF BillingType
<1>3. PICK t : t = CASE kind = "completed" -> [s EXCEPT !.status = "complete"]
                     [] kind = "expired" -> [s EXCEPT !.status = "expired"]
                     [] kind = "refunded" -> [s EXCEPT !.refunded = @ + 1]
                     [] kind = "disputed" -> [s EXCEPT !.disputed = TRUE]
  OBVIOUS
<1>4. session' = [session EXCEPT ![p] = t]
  BY <1>1, <1>3 DEF StripeChanges
<1>5. /\ kind = "completed" => s.status = "open"
      /\ kind = "expired" => s.status = "open"
      /\ kind = "refunded" => s.status = "complete" /\ s.refunded < Cents
      /\ kind = "disputed" => s.status = "complete"
  BY <1>1 DEF StripeChanges
<1>6. /\ kind = "completed" => t = [s EXCEPT !.status = "complete"]
      /\ kind = "expired" => t = [s EXCEPT !.status = "expired"]
      /\ kind = "refunded" => t = [s EXCEPT !.refunded = @ + 1]
      /\ kind = "disputed" => t = [s EXCEPT !.disputed = TRUE]
  BY <1>3
<1>7. t \in Sessions
  <2>1. kind = "refunded" => s.refunded + 1 \in 0..Cents
    <3>1. PICK n : n = s.refunded
      OBVIOUS
    <3>2. n \in 0..Cents
      BY <1>2, <3>1 DEF Sessions
    <3>3. n < Cents => n + 1 \in 0..Cents
      BY <3>2, PacksAssumption
    <3> QED BY <1>5, <3>1, <3>3
  <2>2. CASE kind \in {"completed", "expired"}
    BY <1>2, <1>6, <2>2 DEF Sessions, SessionStatuses
  <2>3. CASE kind = "refunded"
    BY <1>2, <1>6, <2>1, <2>3 DEF Sessions
  <2>4. CASE kind = "disputed"
    BY <1>2, <1>6, <2>4 DEF Sessions
  <2> QED BY <2>2, <2>3, <2>4 DEF EventKinds
<1>8. /\ t.status = IF kind = "completed" THEN "complete" ELSE IF kind = "expired" THEN "expired" ELSE s.status
      /\ t.refunded = IF kind = "refunded" THEN s.refunded + 1 ELSE s.refunded
      /\ t.disputed = IF kind = "disputed" THEN TRUE ELSE s.disputed
  BY <1>2, <1>6 DEF Sessions, EventKinds
<1>9. session' \in [Purchases -> Sessions] /\ session'[p] = t
  BY <1>2, <1>4, <1>7
<1>10. \A q \in Purchases \ {p} : session'[q] = session[q]
  BY <1>2, <1>4
<1> QED BY <1>1, <1>5, <1>8, <1>9, <1>10

\* What was taken back of a payment only grows.
LEMMA StripeTakesBack ==
  ASSUME BillingType, NEW p \in Purchases, NEW kind \in EventKinds, StripeChanges(p, kind)
  PROVE  /\ TakenBack(p)' \in Nat
         /\ TakenBack(p) <= TakenBack(p)' /\ TakenBack(p)' <= purchase[p].pack
         /\ kind \in {"completed", "expired"} => TakenBack(p)' = TakenBack(p)
<1>1. PICK pack : pack = purchase[p].pack
  OBVIOUS
<1>2. PICK n : n = session[p].refunded
  OBVIOUS
<1>3. PICK m : m = session'[p].refunded
  OBVIOUS
<1>4. /\ pack \in Nat /\ n \in 0..Cents /\ m \in 0..Cents
      /\ m = n \/ (m = n + 1 /\ n < Cents)
      /\ kind \in {"completed", "expired"} => m = n /\ session'[p].disputed = session[p].disputed
  BY <1>1, <1>2, <1>3, StripeChangesSession, PackIsNat DEF Sessions, BillingType
<1>5. /\ Part(pack, n) \in Nat /\ Part(pack, m) \in Nat
      /\ Part(pack, n) <= pack /\ Part(pack, m) <= pack
  BY <1>4, PartBounds
<1>6. Part(pack, n) <= Part(pack, m)
  BY <1>4, <1>5, PartMonotone
<1>7. session[p].disputed => session'[p].disputed
  BY StripeChangesSession
<1>8. purchase' = purchase
  BY DEF StripeChanges
<1>9. /\ TakenBack(p) = IF session[p].disputed THEN pack ELSE Part(pack, n)
      /\ TakenBack(p)' = IF session'[p].disputed THEN pack ELSE Part(pack, m)
  BY <1>1, <1>2, <1>3, <1>8 DEF TakenBack, Part
<1> QED BY <1>1, <1>4, <1>5, <1>6, <1>7, <1>9

LEMMA StripeChangesKeeps ==
  ASSUME BillingInv, NEW p \in Purchases, NEW kind \in EventKinds, StripeChanges(p, kind)
  PROVE  BillingInv'
<1>1. PurchaseFits(p) /\ sent \subseteq Events /\ worker \in [Workers -> RequestRows]
  BY DEF BillingInv, BillingType, PurchasesFit
<1>2. UNCHANGED <<creditOwner, account, purchase, job, receipts, intents, worker>>
  BY DEF StripeChanges
<1>3. purchase[p].status # "none"
  <2>1. session[p].status # "none"
    BY StripeChangesSession DEF BillingInv, EventKinds
  <2> QED BY <1>1, <2>1 DEF PurchaseFits, NoSession
<1>4. sent' \subseteq Events /\ \A event \in sent' \ sent : event[1] = p
  <2>1. <<p, kind>> \in Events
    BY DEF Events
  <2> QED BY <1>1, <2>1 DEF StripeChanges
<1>5. /\ session[p].status \in {"complete", "expired"} => session'[p].status = session[p].status
      /\ session'[p].status # "complete" => session'[p].refunded = 0 /\ ~session'[p].disputed
  BY <1>1, <1>3, StripeChangesSession DEF PurchaseFits, BillingInv, EventKinds
<1>6. SessionStep(p)
  BY <1>2, <1>3, <1>4, <1>5, StripeChangesSession, StripeTakesBack DEF SessionStep, BillingInv
<1>7. ASSUME NEW x \in Workers
      PROVE  \E t \in RequestRows : worker'[x] = t /\ RequestFits(x, t)
  BY <1>2, RowTyped
<1> QED BY <1>1, <1>2, <1>6, <1>7, SessionStepKeeps

------------------------------------------------------------------------------
(* The steps that write a purchase *)

\* A purchase that was made is written: its account and pack stay, it is pending
\* only if it was, and a balance changes only of an account that may have one.
PurchaseStep(p, row) ==
  /\ purchase[p].status # "none" /\ row \in PurchaseRows
  /\ purchase' = [purchase EXCEPT ![p] = row]
  /\ row.user = purchase[p].user /\ row.pack = purchase[p].pack
  /\ Backed(p, row)
  /\ row.status = "pending" => purchase[p].status = "pending"
  /\ account' \in [Users -> Accounts]
  /\ \A u \in Users :
       /\ account'[u].exists = account[u].exists /\ account'[u].lease = account[u].lease
       /\ account'[u].balance # account[u].balance => account[u].exists /\ creditOwner[u] = Nobody
  /\ UNCHANGED <<creditOwner, session, sent, job, intents>> /\ receipts' \subseteq Events

LEMMA PurchaseStands ==
  ASSUME BillingType, NEW p \in Purchases, NEW row, PurchaseStep(p, row)
  PROVE  PurchasesStay /\ PaymentsStand /\ \A x \in Workers : AccountsStay(x)
<1>1. /\ purchase'[p] = row /\ row.status # "none"
      /\ \A q \in Purchases \ {p} : purchase'[q] = purchase[q]
  BY DEF PurchaseStep, BillingType, Backed
<1>2. \A q \in Purchases : purchase'[q].pack = purchase[q].pack /\ purchase'[q].user = purchase[q].user
  BY <1>1 DEF PurchaseStep
<1>3. PurchasesStay
  BY <1>1, <1>2 DEF PurchasesStay, Made
<1>4. \A q \in Purchases : TakenBack(q)' = TakenBack(q)
  BY <1>2 DEF TakenBack, PurchaseStep
<1>5. ASSUME NEW q \in Purchases, NEW view, Backed(q, view)
      PROVE  Backed(q, view)'
  BY <1>2, <1>4, <1>5 DEF Backed, PurchaseStep
<1>6. \A x \in Workers : AccountsStay(x)
  BY DEF AccountsStay, PurchaseStep
<1> QED BY <1>3, <1>5, <1>6 DEF PaymentsStand

LEMMA PurchaseStepKeeps ==
  ASSUME BillingInv, NEW p \in Purchases, NEW row, PurchaseStep(p, row),
         worker' \in [Workers -> RequestRows],
         \A x \in Workers : \E s \in RequestRows :
           worker'[x] = s /\ RequestFits(x, s) /\ StaysPending(x, s)
  PROVE  BillingInv'
<1>1. PurchasesStay /\ PaymentsStand /\ \A x \in Workers : AccountsStay(x)
  BY PurchaseStands DEF BillingInv
<1>2. BillingType'
  BY DEF BillingInv, BillingType, PurchaseStep
<1>3. RequestsFit'
  <2> SUFFICES ASSUME NEW x \in Workers PROVE RequestFits(x, worker[x])'
    BY DEF RequestsFit
  <2>1. PICK s \in RequestRows : worker'[x] = s /\ RequestFits(x, s) /\ StaysPending(x, s)
    OBVIOUS
  <2>2. RequestFits(x, s)'
    BY <1>1, <2>1, RequestKept DEF BillingInv
  <2> QED BY <2>1, <2>2
<1>4. /\ purchase'[p] = row /\ row.status # "none"
      /\ \A q \in Purchases \ {p} : purchase'[q] = purchase[q]
      /\ session' = session
  BY DEF PurchaseStep, BillingInv, BillingType, Backed
<1>5. \A q \in Purchases : purchase'[q].pack = purchase[q].pack /\ purchase'[q].user = purchase[q].user
  BY <1>4 DEF PurchaseStep
<1>6. PurchasesFit'
  <2> SUFFICES ASSUME NEW q \in Purchases PROVE PurchaseFits(q)'
    BY DEF PurchasesFit
  <2>1. /\ PurchaseFits(q) /\ purchase \in [Purchases -> PurchaseRows]
        /\ \A u \in Users : account[u].exists => account'[u].exists
    BY DEF BillingInv, BillingType, PurchasesFit, PurchaseStep
  <2>2. CASE purchase[q].status = "none"
    <3>1. q # p
      BY <2>2 DEF PurchaseStep
    <3> QED BY <1>4, <2>1, <2>2, <3>1 DEF PurchaseFits
  <2>3. CASE purchase[q].status # "none"
    <3>1. PICK v : v = purchase'[q]
      OBVIOUS
    <3>2. v.reversed \in Nat /\ Backed(q, v)
      BY <1>4, <2>1, <2>3, <3>1 DEF PurchaseFits, PurchaseRows, PurchaseStep
    <3>3. Backed(q, v)'
      BY <1>1, <3>2 DEF PaymentsStand
    <3>4. Backed(q, purchase[q])'
      BY <3>1, <3>3
    <3>5. purchase'[q].status # "none"
      BY <1>4, <2>3
    <3>6. /\ purchase'[q].user \in Users /\ account'[purchase'[q].user].exists
          /\ purchase'[q].pack \in Packs
          /\ session'[q].status # "complete" => session'[q].refunded = 0 /\ ~session'[q].disputed
      BY <1>4, <1>5, <2>1, <2>3 DEF PurchaseFits
    <3> QED BY <3>4, <3>5, <3>6 DEF PurchaseFits
  <2> QED BY <2>2, <2>3
<1>7. OnePending'
  BY <1>4, <1>5 DEF BillingInv, OnePending, PurchaseStep
<1>8. EventsKnown'
  BY <1>4 DEF BillingInv, BillingType, EventsKnown, PurchaseStep, Events
<1>9. AccountsFit'
  BY DEF BillingInv, AccountsFit, PurchaseStep
<1>10. JobsFit'
  <2> SUFFICES ASSUME NEW j \in Jobs PROVE JobFits(j)'
    BY DEF JobsFit
  <2>1. JobFits(j) /\ job'[j] = job[j] /\ job[j].user \in Users \union {Nobody}
    BY DEF BillingInv, BillingType, JobsFit, JobRows, PurchaseStep
  <2> QED BY <2>1 DEF JobFits, PurchaseStep
<1>11. LinksFit'
  BY <1>5 DEF BillingInv, LinksFit, LinkedOwnNothing, PurchaseStep
<1> QED BY <1>2, <1>3, <1>6, <1>7, <1>8, <1>9, <1>10, <1>11 DEF BillingInv

\* A step that writes of a purchase only what nothing depends on.
LEMMA PurchaseNoted ==
  ASSUME BillingInv, NEW p \in Purchases, NEW row \in PurchaseRows, purchase[p].status # "none",
         row.status = purchase[p].status, row.user = purchase[p].user, row.pack = purchase[p].pack,
         row.granted = purchase[p].granted, row.reversed = purchase[p].reversed,
         purchase' = [purchase EXCEPT ![p] = row],
         UNCHANGED <<creditOwner, account, session, sent, receipts, job, intents>>
  PROVE  /\ PurchaseStep(p, row)
         /\ \A x \in Workers, s \in RequestRows : StaysPending(x, s)
<1>1. Backed(p, row)
  BY DEF BillingInv, PurchasesFit, PurchaseFits, Backed
<1>2. PurchaseStep(p, row)
  BY <1>1 DEF PurchaseStep, BillingInv, BillingType
<1>3. ASSUME NEW x \in Workers, NEW s \in RequestRows PROVE StaysPending(x, s)
  BY DEF StaysPending, BillingInv, BillingType
<1> QED BY <1>2, <1>3

LEMMA SaveSessionKeeps ==
  ASSUME BillingInv, NEW w \in Workers, SaveSession(w)
  PROVE  BillingInv'
<1>1. PICK s : s = worker[w]
  OBVIOUS
<1>2. PICK p : p = s.purchase
  OBVIOUS
<1>3. /\ s \in RequestRows /\ RequestFits(w, s) /\ s.pc = "save"
      /\ p \in Purchases /\ purchase[p].status # "none"
  BY <1>1, <1>2, RowTyped DEF SaveSession, RequestFits, Made
<1>4. PICK row : row = [purchase[p] EXCEPT !.session = TRUE]
  OBVIOUS
<1>5. /\ row \in PurchaseRows /\ purchase' = [purchase EXCEPT ![p] = row]
      /\ row.status = purchase[p].status /\ row.user = purchase[p].user
      /\ row.pack = purchase[p].pack
      /\ row.granted = purchase[p].granted /\ row.reversed = purchase[p].reversed
  BY <1>1, <1>2, <1>3, <1>4 DEF SaveSession, BillingInv, BillingType, PurchaseRows
<1>6. UNCHANGED <<creditOwner, account, session, sent, receipts, job, intents>>
  BY DEF SaveSession
<1>7. PurchaseStep(p, row) /\ \A x \in Workers, t \in RequestRows : StaysPending(x, t)
  BY <1>3, <1>5, <1>6, PurchaseNoted
<1>8. PICK r \in RequestRows : worker' = [worker EXCEPT ![w] = r] /\ RequestFits(w, r)
  BY <1>1, <1>3, EndsRow DEF SaveSession
<1>9. ASSUME NEW x \in Workers
      PROVE  \E t \in RequestRows : worker'[x] = t /\ RequestFits(x, t) /\ StaysPending(x, t)
  BY <1>7, <1>8, RowTyped DEF BillingInv, BillingType
<1>10. worker' \in [Workers -> RequestRows]
  BY <1>8 DEF BillingInv, BillingType
<1> QED BY <1>3, <1>7, <1>9, <1>10, PurchaseStepKeeps

LEMMA AgesKeeps ==
  ASSUME BillingInv, NEW p \in Purchases, Ages(p)
  PROVE  BillingInv'
<1>1. PICK row : row = [purchase[p] EXCEPT !.aged = TRUE]
  OBVIOUS
<1>2. /\ row \in PurchaseRows /\ purchase' = [purchase EXCEPT ![p] = row]
      /\ row.status = purchase[p].status /\ row.user = purchase[p].user
      /\ row.pack = purchase[p].pack
      /\ row.granted = purchase[p].granted /\ row.reversed = purchase[p].reversed
      /\ purchase[p].status # "none"
  BY <1>1 DEF Ages, BillingInv, BillingType, PurchaseRows
<1>3. UNCHANGED <<creditOwner, account, session, sent, receipts, job, intents, worker>>
  BY DEF Ages
<1>4. PurchaseStep(p, row) /\ \A x \in Workers, t \in RequestRows : StaysPending(x, t)
  BY <1>2, <1>3, PurchaseNoted
<1>5. ASSUME NEW x \in Workers
      PROVE  \E t \in RequestRows : worker'[x] = t /\ RequestFits(x, t) /\ StaysPending(x, t)
  BY <1>3, <1>4, RowTyped
<1>6. worker' \in [Workers -> RequestRows]
  BY <1>3 DEF BillingInv, BillingType
<1> QED BY <1>4, <1>5, <1>6, PurchaseStepKeeps

LEMMA CreatePurchaseKeeps ==
  ASSUME BillingInv, NEW w \in Workers, CreatePurchase(w)
  PROVE  BillingInv'
<1>1. PICK s : s = worker[w]
  OBVIOUS
<1>2. /\ s \in RequestRows /\ RequestFits(w, s) /\ s.pc = "create" /\ s.user \in Users
      /\ s.op = "checkout" /\ s.pack \in Packs /\ account[s.user].exists
      /\ creditOwner[s.user] = Nobody
  BY <1>1, RowTyped DEF CreatePurchase, RequestFits
<1>3. CASE Finish(w) /\ UNCHANGED purchase
  <2>1. RowsOnly
    BY <1>3 DEF CreatePurchase, RowsOnly, BillingInv, BillingType
  <2> QED BY <1>1, <1>2, <1>3, <2>1, EndsKeeps
<1>4. ASSUME NEW p \in Purchases, purchase[p].status = "none", Pending(s.user) = {},
             purchase' = [purchase EXCEPT ![p] = [NoPurchase EXCEPT !.status = "pending",
                            !.user = s.user, !.pack = s.pack]],
             worker' = [worker EXCEPT ![w].purchase = p, ![w].pc = "open"]
      PROVE  BillingInv'
  <2>1. PICK row : row = [NoPurchase EXCEPT !.status = "pending", !.user = s.user, !.pack = s.pack]
    OBVIOUS
  <2>2. /\ row.status = "pending" /\ row.user = s.user /\ row.pack = s.pack
        /\ row.granted = 0 /\ row.reversed = 0 /\ row \in PurchaseRows
    BY <1>2, <2>1 DEF NoPurchase, PurchaseRows, Statuses
  <2>3. /\ purchase' \in [Purchases -> PurchaseRows] /\ purchase'[p] = row
        /\ \A q \in Purchases \ {p} : purchase'[q] = purchase[q]
    BY <1>4, <2>1, <2>2 DEF BillingInv, BillingType
  <2>4. UNCHANGED <<creditOwner, account, session, sent, receipts, job, intents>>
    BY DEF CreatePurchase
  <2>5. purchase[p] = NoPurchase /\ session[p] = NoSession
    BY <1>4 DEF BillingInv, PurchasesFit, PurchaseFits
  <2>6. PurchasesStay
    BY <1>4, <2>3 DEF PurchasesStay, Made
  <2>7. PaymentsStand
    <3> SUFFICES ASSUME NEW q \in Purchases, NEW view, Backed(q, view)
                 PROVE  Backed(q, view)'
      BY DEF PaymentsStand
    <3>1. CASE q = p
      BY <2>2, <2>3, <2>4, <2>5, <3>1 DEF Backed, NoPurchase
    <3>2. CASE q # p
      <4>1. purchase'[q] = purchase[q] /\ TakenBack(q)' = TakenBack(q)
        BY <2>3, <2>4, <3>2 DEF TakenBack
      <4> QED BY <2>4, <4>1 DEF Backed
    <3> QED BY <3>1, <3>2
  <2>8. PICK r : r = [s EXCEPT !.purchase = p, !.pc = "open"]
    OBVIOUS
  <2>9. r \in RequestRows /\ worker' = [worker EXCEPT ![w] = r]
    BY <1>1, <1>2, <1>4, <2>8 DEF RequestRows, PCs, BillingInv, BillingType
  <2>10. RequestFits(w, r)'
    <3>1. /\ r.pc = "open" /\ r.op = s.op /\ r.user = s.user /\ r.pack = s.pack /\ r.todo = s.todo
          /\ r.purchase = p
      BY <1>2, <2>8 DEF RequestRows
    <3>2. Made(p, s.user)'
      BY <2>2, <2>3 DEF Made
    <3>3. \A q \in s.todo : Made(q, s.user)'
      BY <1>2, <2>6 DEF PurchasesStay, RequestFits
    <3> QED BY <1>2, <2>4, <3>1, <3>2, <3>3 DEF RequestFits
  <2>11. ASSUME NEW x \in Workers \ {w} PROVE RequestFits(x, worker[x])'
    <3>1. PICK t : t = worker[x]
      OBVIOUS
    <3>2. t \in RequestRows /\ RequestFits(x, t) /\ worker'[x] = t
      BY <2>9, <3>1, RowTyped DEF BillingInv, BillingType
    <3>3. AccountsStay(x)
      BY <2>4 DEF AccountsStay
    <3>4. StaysPending(x, t)
      <4>1. t.pc = "commit" => Made(t.purchase, t.user)
        BY <3>2 DEF RequestFits
      <4> QED BY <1>4, <2>3, <4>1 DEF StaysPending, Made
    <3>5. RequestFits(x, t)'
      BY <2>6, <2>7, <3>2, <3>3, <3>4, RequestKept DEF BillingInv
    <3> QED BY <3>2, <3>5
  <2>12. RequestsFit'
    <3>1. worker'[w] = r
      BY <2>9 DEF BillingInv, BillingType
    <3> QED BY <2>10, <2>11, <3>1 DEF RequestsFit
  <2>13. BillingType'
    BY <2>3, <2>4, <2>9 DEF BillingInv, BillingType
  <2>14. PurchasesFit'
    <3> SUFFICES ASSUME NEW q \in Purchases PROVE PurchaseFits(q)'
      BY DEF PurchasesFit
    <3>1. CASE q = p
      <4>1. Backed(p, row)'
        BY <2>2, <2>3, <2>4, <2>5 DEF Backed
      <4>2. session'[p].status # "complete" => session'[p].refunded = 0 /\ ~session'[p].disputed
        BY <2>4, <2>5 DEF NoSession
      <4>3. Backed(q, purchase[q])'
        BY <2>3, <3>1, <4>1
      <4> QED BY <1>2, <2>2, <2>3, <2>4, <3>1, <4>2, <4>3 DEF PurchaseFits
    <3>2. CASE q # p
      <4>1. purchase'[q] = purchase[q] /\ TakenBack(q)' = TakenBack(q) /\ PurchaseFits(q)
        BY <2>3, <2>4, <3>2 DEF TakenBack, BillingInv, PurchasesFit
      <4> QED BY <2>4, <4>1 DEF PurchaseFits, Backed
    <3> QED BY <3>1, <3>2
  <2>15. OnePending'
    BY <1>4, <2>2, <2>3 DEF BillingInv, OnePending, Pending
  <2>16. EventsKnown'
    BY <1>4, <2>3, <2>4 DEF BillingInv, BillingType, EventsKnown, Events
  <2>17. AccountsFit' /\ JobsFit'
    BY <2>4 DEF BillingInv, AccountsFit, JobsFit, JobFits
  <2>18. LinksFit'
    BY <1>2, <2>2, <2>3, <2>4 DEF BillingInv, LinksFit, LinkedOwnNothing
  <2> QED BY <2>12, <2>13, <2>14, <2>15, <2>16, <2>17, <2>18 DEF BillingInv
<1> QED BY <1>1, <1>3, <1>4 DEF CreatePurchase

\* What a fulfilment writes: what the balance has seen of the purchase becomes the
\* higher of what it had seen and what the request has read.
LEMMA FulfillWrites ==
  ASSUME BillingInv, NEW w \in Workers, NEW s, s = worker[w], s.pc = "commit",
         Holds(w), Fulfill(w), s.event \notin receipts,
         UNCHANGED <<creditOwner, session, sent, job, intents>>
  PROVE  /\ Made(s.purchase, s.user)
         /\ \E row :
              /\ PurchaseStep(s.purchase, row)
              /\ row.granted = Higher(purchase[s.purchase].granted, s.seen.granted)
              /\ row.reversed = Higher(purchase[s.purchase].reversed, s.seen.reversed)
              /\ account' = [account EXCEPT ![s.user].balance =
                   @ + (row.granted - purchase[s.purchase].granted)
                     - (row.reversed - purchase[s.purchase].reversed)]
<1>1. PICK p : p = s.purchase
  OBVIOUS
<1>2. PICK old : old = purchase[p]
  OBVIOUS
<1>3. PICK v : v = s.seen
  OBVIOUS
<1>4. PICK u : u = s.user
  OBVIOUS
<1>5. /\ s \in RequestRows /\ RequestFits(w, s) /\ Made(p, u) /\ Backed(p, v)
      /\ p \in Purchases /\ old.user = u
      /\ account[u].lease = w
  BY <1>1, <1>2, <1>3, <1>4, RowTyped DEF RequestFits, Made, Holds
<1>6. v \in Projections /\ old \in PurchaseRows /\ s.event \in Events \union {NoEvent}
  BY <1>2, <1>3, <1>5 DEF RequestRows, BillingInv, BillingType
<1>7. u \in Users /\ account[u].exists /\ old.pack \in Packs /\ Backed(p, old)
  BY <1>2, <1>5, MadeFacts DEF BillingInv
<1>8. creditOwner[u] = Nobody
  BY <1>2, <1>5, <1>7 DEF BillingInv, LinksFit, LinkedOwnNothing
<1>9. v.status = "pending" => old.status = "pending"
  BY <1>1, <1>2, <1>3, <1>4, <1>5 DEF RequestFits
<1>10. PICK g : g = Higher(old.granted, v.granted)
  OBVIOUS
<1>11. PICK r : r = Higher(old.reversed, v.reversed)
  OBVIOUS
<1>12. /\ old.granted \in Nat /\ old.reversed \in Nat /\ v.granted \in Nat /\ v.reversed \in Nat
       /\ g \in Nat /\ r \in Nat
  BY <1>6, <1>10, <1>11 DEF PurchaseRows, Projections, Higher
<1>13. PICK q : q = IF r > 0 THEN "reversed" ELSE IF g > 0 THEN "paid" ELSE v.status
  OBVIOUS
<1>14. PICK row : row = [old EXCEPT !.granted = g, !.reversed = r, !.session = TRUE,
                           !.payment = @ \/ v.payment, !.status = q]
  OBVIOUS
<1>15. /\ row \in PurchaseRows /\ row.granted = g /\ row.reversed = r /\ row.status = q
       /\ row.user = u /\ row.pack = old.pack
  BY <1>5, <1>6, <1>12, <1>13, <1>14 DEF PurchaseRows, Projections, Statuses
<1>16. Backed(p, row)
  <2>1. PICK m : m = TakenBack(p)
    OBVIOUS
  <2>2. m \in Nat
    BY <1>5, <2>1, TakenBackRange DEF BillingInv
  <2>3. PICK pack : pack = old.pack
    OBVIOUS
  <2>4. /\ old.granted \in {0, pack} /\ v.granted \in {0, pack}
        /\ old.granted = 0 => old.reversed = 0
        /\ v.granted = 0 => v.reversed = 0
        /\ old.granted > 0 => session[p].status = "complete" /\ old.reversed <= m
        /\ v.granted > 0 => session[p].status = "complete" /\ v.reversed <= m
        /\ v.status # "none"
        /\ v.status \in {"paid", "reversed"} => session[p].status = "complete"
        /\ v.status = "expired" => session[p].status = "expired"
    BY <1>2, <1>5, <1>7, <2>1, <2>3 DEF Backed
  <2>5. /\ g \in {0, pack}
        /\ g = 0 => r = 0
        /\ g > 0 => session[p].status = "complete" /\ r <= m
    BY <1>10, <1>11, <1>12, <2>2, <2>4 DEF Higher
  <2>6. /\ q # "none"
        /\ q \in {"paid", "reversed"} => session[p].status = "complete"
        /\ q = "expired" => session[p].status = "expired"
    BY <1>12, <1>13, <2>4, <2>5
  <2> QED BY <1>2, <1>15, <2>1, <2>3, <2>5, <2>6 DEF Backed
<1>17. row.status = "pending" => old.status = "pending"
  BY <1>9, <1>13, <1>15
<1>18. purchase' = [purchase EXCEPT ![p] = row]
  <2>1. purchase' = [purchase EXCEPT ![p].granted = g, ![p].reversed = r,
                       ![p].session = TRUE, ![p].payment = @ \/ v.payment, ![p].status = q]
    BY <1>1, <1>2, <1>3, <1>10, <1>11, <1>13 DEF Fulfill
  <2>2. purchase \in [Purchases -> PurchaseRows]
    BY DEF BillingInv, BillingType
  <2> QED BY <1>2, <1>5, <1>14, <2>1, <2>2 DEF PurchaseRows
<1>19. account' = [account EXCEPT ![u].balance = @ + (g - old.granted) - (r - old.reversed)]
  BY <1>1, <1>2, <1>3, <1>5, <1>10, <1>11 DEF Fulfill
<1>20. /\ account' \in [Users -> Accounts]
       /\ \A x \in Users :
            /\ account'[x].exists = account[x].exists /\ account'[x].lease = account[x].lease
            /\ account'[x].balance # account[x].balance => account[x].exists /\ creditOwner[x] = Nobody
  <2>1. PICK b : b = account[u]
    OBVIOUS
  <2>2. PICK a : a = [b EXCEPT !.balance = @ + (g - old.granted) - (r - old.reversed)]
    OBVIOUS
  <2>3. b \in Accounts /\ account \in [Users -> Accounts]
    BY <1>7, <2>1 DEF BillingInv, BillingType
  <2>4. a \in Accounts /\ a.exists = b.exists /\ a.lease = b.lease
    BY <1>12, <2>2, <2>3 DEF Accounts
  <2>5. account' = [account EXCEPT ![u] = a]
    BY <1>19, <2>1, <2>2
  <2> QED BY <1>7, <1>8, <2>1, <2>3, <2>4, <2>5
<1>21. receipts' \subseteq Events
  BY <1>6 DEF Fulfill, BillingInv, BillingType
<1>22. PurchaseStep(p, row)
  BY <1>2, <1>5, <1>15, <1>16, <1>17, <1>18, <1>20, <1>21 DEF PurchaseStep, Made
<1> QED BY <1>1, <1>2, <1>3, <1>4, <1>5, <1>10, <1>11, <1>15, <1>19, <1>22

LEMMA CommitKeeps ==
  ASSUME BillingInv, NEW w \in Workers, Commit(w)
  PROVE  BillingInv'
<1>1. PICK s : s = worker[w]
  OBVIOUS
<1>2. /\ s \in RequestRows /\ RequestFits(w, s) /\ s.pc = "commit" /\ s.op \in Operations
      /\ s.user \in Users
  BY <1>1, RowTyped DEF Commit, RequestFits
<1>3. UNCHANGED <<creditOwner, session, sent, job, intents>>
  BY DEF Commit
<1>4. CASE Throw(w) /\ UNCHANGED <<account, purchase, receipts>>
  <2>1. RowsOnly
    BY <1>3, <1>4 DEF RowsOnly, BillingInv, BillingType
  <2> QED BY <1>1, <1>2, <1>4, <2>1, EndsKeeps
<1>5. ASSUME Holds(w), Fulfill(w),
             worker' = [worker EXCEPT ![w].pc = Fulfilled(w), ![w].seen = NoProjection]
      PROVE  BillingInv'
  <2>1. PICK q : q = Fulfilled(w)
    OBVIOUS
  <2>2. q \in {"reopen", "pick", "release"} /\ (q = "reopen" => s.op = "checkout") /\ q \in PCs
    BY <1>1, <1>2, <2>1 DEF Fulfilled, Operations, PCs
  <2>3. PICK r : r = [s EXCEPT !.pc = q, !.seen = NoProjection]
    OBVIOUS
  <2>4. r \in RequestRows /\ worker' = [worker EXCEPT ![w] = r]
    BY <1>1, <1>2, <1>5, <2>1, <2>2, <2>3, NoProjectionTyped DEF RequestRows, BillingInv, BillingType
  <2>5. /\ r.pc = q /\ r.op = s.op /\ r.user = s.user /\ r.pack = s.pack /\ r.todo = s.todo
        /\ r.purchase = s.purchase
    BY <1>2, <2>3 DEF RequestRows
  <2>6. RequestFits(w, r)
    BY <1>2, <2>2, <2>5 DEF RequestFits
  <2>7. CASE s.event \in receipts
    <3>1. RowsOnly
      BY <1>1, <1>3, <1>5, <2>7 DEF Fulfill, RowsOnly, BillingInv, BillingType
    <3> QED BY <2>4, <2>6, <3>1, RowAlone
  <2>8. CASE s.event \notin receipts
    <3>1. PICK p : p = s.purchase
      OBVIOUS
    <3>2. Made(p, s.user) /\ \E row : PurchaseStep(p, row)
      BY <1>1, <1>2, <1>3, <1>5, <2>8, <3>1, FulfillWrites
    <3>3. PICK row : PurchaseStep(p, row)
      BY <3>2
    <3>4. ASSUME NEW x \in Workers
          PROVE  \E t \in RequestRows : worker'[x] = t /\ RequestFits(x, t) /\ StaysPending(x, t)
      <4>1. CASE x = w
        <5>1. StaysPending(w, r) /\ worker'[w] = r
          BY <2>2, <2>4, <2>5 DEF StaysPending, BillingInv, BillingType
        <5> QED BY <2>4, <2>6, <4>1, <5>1
      <4>2. CASE x # w
        <5>1. PICK t : t = worker[x]
          OBVIOUS
        <5>2. t \in RequestRows /\ RequestFits(x, t) /\ worker'[x] = t
          BY <2>4, <4>2, <5>1, RowTyped DEF BillingInv, BillingType
        <5>3. StaysPending(x, t)
          <6> SUFFICES ASSUME t.pc = "commit", account[t.user].lease = x,
                              purchase[t.purchase].status = "pending"
                       PROVE  purchase'[t.purchase].status = "pending"
            BY DEF StaysPending
          <6>1. Made(t.purchase, t.user) /\ account[s.user].lease = w
            BY <1>1, <1>5, <5>2 DEF RequestFits, Holds
          <6>2. t.purchase # p
            BY <3>2, <4>2, <6>1 DEF Made
          <6> QED BY <6>1, <6>2, <3>3 DEF PurchaseStep, Made, BillingInv, BillingType
        <5> QED BY <5>2, <5>3
      <4> QED BY <4>1, <4>2
    <3>5. worker' \in [Workers -> RequestRows] /\ p \in Purchases
      BY <2>4, <3>2 DEF BillingInv, BillingType, Made
    <3> QED BY <3>3, <3>4, <3>5, PurchaseStepKeeps
  <2> QED BY <2>7, <2>8
<1> QED BY <1>4, <1>5 DEF Commit

------------------------------------------------------------------------------
(* Jobs and links *)

\* A step of a job's accounting: it changes the balance of an account that may have
\* one, and the job belongs to such an account.
JobStep(j, row) ==
  /\ row \in JobRows /\ job' = [job EXCEPT ![j] = row]
  /\ row.user \in Users /\ row.inbox \in Users /\ row.moved <= row.requested
  /\ account[row.user].exists /\ creditOwner[row.user] = Nobody
  /\ account' \in [Users -> Accounts]
  /\ \A u \in Users :
       /\ account'[u].exists = account[u].exists /\ account'[u].lease = account[u].lease
       /\ u # row.user => account'[u].balance = account[u].balance
  /\ UNCHANGED <<creditOwner, purchase, session, sent, receipts, intents, worker>>

LEMMA JobStepKeeps ==
  ASSUME BillingInv, NEW j \in Jobs, NEW row, JobStep(j, row)
  PROVE  BillingInv'
<1>1. /\ job' \in [Jobs -> JobRows] /\ job'[j] = row
      /\ \A i \in Jobs \ {j} : job'[i] = job[i]
  BY DEF BillingInv, BillingType, JobStep
<1>2. BillingType'
  BY <1>1 DEF BillingInv, BillingType, JobStep
<1>3. PurchasesFit'
  <2> SUFFICES ASSUME NEW p \in Purchases PROVE PurchaseFits(p)'
    BY DEF PurchasesFit
  <2>1. PurchaseFits(p) /\ UNCHANGED <<purchase, session>>
    BY DEF BillingInv, PurchasesFit, JobStep
  <2> QED BY <2>1 DEF PurchaseFits, Backed, TakenBack, JobStep
<1>4. OnePending' /\ EventsKnown'
  BY DEF BillingInv, OnePending, EventsKnown, JobStep
<1>5. RequestsFit'
  <2> SUFFICES ASSUME NEW x \in Workers PROVE RequestFits(x, worker[x])'
    BY DEF RequestsFit
  <2>1. PICK s : s = worker[x]
    OBVIOUS
  <2>2. worker'[x] = s /\ s \in RequestRows /\ RequestFits(x, s)
    BY <2>1, RowTyped DEF JobStep
  <2>3. AccountsStay(x) /\ PurchasesStay /\ PaymentsStand /\ StaysPending(x, s)
    BY StayedBehind DEF JobStep, StaysPending, AccountsStay
  <2>4. RequestFits(x, s)'
    BY <2>2, <2>3, RequestKept DEF BillingInv
  <2> QED BY <2>2, <2>4
<1>6. AccountsFit'
  BY DEF BillingInv, AccountsFit, JobStep
<1>7. JobsFit'
  <2> SUFFICES ASSUME NEW i \in Jobs PROVE JobFits(i)'
    BY DEF JobsFit
  <2>1. CASE i = j
    BY <1>1, <2>1, NobodyAssumption DEF JobFits, JobStep
  <2>2. CASE i # j
    <3>1. JobFits(i) /\ job'[i] = job[i] /\ job[i].user \in Users \union {Nobody}
      BY <1>1, <2>2 DEF BillingInv, BillingType, JobsFit, JobRows
    <3> QED BY <3>1 DEF JobFits, JobStep
  <2> QED BY <2>1, <2>2
<1>8. LinksFit'
  BY <1>1 DEF BillingInv, LinksFit, LinkedOwnNothing, JobStep
<1> QED BY <1>2, <1>3, <1>4, <1>5, <1>6, <1>7, <1>8 DEF BillingInv

\* The account an inbox spends from is not linked itself.
LEMMA OwnerFacts ==
  ASSUME BillingInv, NEW u \in Users
  PROVE  OwnerOf(u) \in Users /\ creditOwner[OwnerOf(u)] = Nobody
<1>1. creditOwner[u] \in Users \union {Nobody}
  BY DEF BillingInv, BillingType
<1> QED BY <1>1 DEF OwnerOf, BillingInv, LinksFit, LinkedOwnNothing

LEMMA ReserveCreditsKeeps ==
  ASSUME BillingInv, NEW j \in Jobs, NEW u \in Users, NEW n \in Packs, ReserveCredits(j, u, n)
  PROVE  \E row : JobStep(j, row) /\ row = [NoJob EXCEPT !.user = OwnerOf(u), !.inbox = u,
                                                         !.requested = n, !.active = TRUE]
<1>1. PICK o : o = OwnerOf(u)
  OBVIOUS
<1>2. o \in Users /\ creditOwner[o] = Nobody
  BY <1>1, OwnerFacts
<1>3. PICK row : row = [NoJob EXCEPT !.user = o, !.inbox = u, !.requested = n, !.active = TRUE]
  OBVIOUS
<1>4. /\ row \in JobRows /\ row.user = o /\ row.inbox = u /\ row.moved = 0 /\ row.requested = n
      /\ n \in Nat
  BY <1>2, <1>3, PacksAssumption DEF NoJob, JobRows
<1>5. /\ job' = [job EXCEPT ![j] = row] /\ account[o].exists
      /\ UNCHANGED <<creditOwner, account, purchase, session, sent, receipts, intents, worker>>
  BY <1>1, <1>3 DEF ReserveCredits
<1>6. JobStep(j, row)
  BY <1>2, <1>4, <1>5 DEF JobStep, BillingInv, BillingType
<1> QED BY <1>1, <1>3, <1>6

\* The record of a job and the accounts after a step of its progress.
Progressed(row, moved, restored, closed) ==
  [row EXCEPT !.moved = moved, !.restored = restored, !.closed = @ \/ closed]

Charged(row, moved) == [account EXCEPT ![row.user].balance = @ + row.moved - moved]

LEMMA AccountProgressKeeps ==
  ASSUME BillingInv, NEW j \in Jobs, NEW moved, NEW restored, NEW closed,
         AccountProgress(j, moved, restored, closed)
  PROVE  /\ moved \in Nat /\ job[j].user \in Users
         /\ account' = Charged(job[j], moved)
         /\ JobStep(j, Progressed(job[j], moved, restored, closed))
<1>1. PICK old : old = job[j]
  OBVIOUS
<1>2. old \in JobRows /\ JobFits(j) /\ old.active
  BY <1>1 DEF AccountProgress, BillingInv, BillingType, JobsFit
<1>3. /\ old.user \in Users /\ old.inbox \in Users /\ account[old.user].exists
      /\ old.requested \in Nat /\ old.moved \in Nat
  <2>1. old.user # Nobody
    BY <1>1, <1>2 DEF JobFits, NoJob
  <2> QED BY <1>1, <1>2, <2>1 DEF JobFits, JobRows
<1>4. old.user = OwnerOf(old.inbox) /\ creditOwner[old.user] = Nobody
  BY <1>1, <1>3, OwnerFacts DEF AccountProgress
<1>5. moved \in Nat /\ restored \in Nat /\ moved <= old.requested
  <2>1. moved \in old.moved..old.requested /\ restored \in old.restored..moved
    BY <1>1 DEF AccountProgress
  <2>2. old.restored \in Nat
    BY <1>2 DEF JobRows
  <2> QED BY <1>3, <2>1, <2>2
<1>6. PICK row : row = [old EXCEPT !.moved = moved, !.restored = restored, !.closed = @ \/ closed]
  OBVIOUS
<1>7. /\ row \in JobRows /\ row.user = old.user /\ row.inbox = old.inbox /\ row.moved = moved
      /\ row.requested = old.requested
  BY <1>2, <1>5, <1>6 DEF JobRows
<1>8. job' = [job EXCEPT ![j] = row]
  <2>1. job' = [job EXCEPT ![j].moved = moved, ![j].restored = restored, ![j].closed = @ \/ closed]
    BY DEF AccountProgress
  <2> QED BY <1>1, <1>2, <1>6, <2>1 DEF BillingInv, BillingType, JobRows
<1>9. account' = [account EXCEPT ![old.user].balance = @ + old.moved - moved]
  BY <1>1, <1>4 DEF AccountProgress
<1>10. /\ account' \in [Users -> Accounts]
       /\ \A u \in Users :
            /\ account'[u].exists = account[u].exists /\ account'[u].lease = account[u].lease
            /\ u # old.user => account'[u].balance = account[u].balance
  <2>1. PICK b : b = account[old.user]
    OBVIOUS
  <2>2. PICK a : a = [b EXCEPT !.balance = @ + old.moved - moved]
    OBVIOUS
  <2>3. b \in Accounts /\ account \in [Users -> Accounts]
    BY <1>3, <2>1 DEF BillingInv, BillingType
  <2>4. a \in Accounts /\ a.exists = b.exists /\ a.lease = b.lease
    BY <1>3, <1>5, <2>2, <2>3 DEF Accounts
  <2>5. account' = [account EXCEPT ![old.user] = a]
    BY <1>9, <2>1, <2>2
  <2> QED BY <1>3, <2>1, <2>3, <2>4, <2>5
<1>11. UNCHANGED <<creditOwner, purchase, session, sent, receipts, intents, worker>>
  BY DEF AccountProgress
<1>12. JobStep(j, row)
  BY <1>3, <1>4, <1>5, <1>7, <1>8, <1>10, <1>11 DEF JobStep
<1>13. row = Progressed(job[j], moved, restored, closed)
  BY <1>1, <1>6 DEF Progressed
<1>14. account' = Charged(job[j], moved)
  BY <1>1, <1>9 DEF Charged
<1> QED BY <1>1, <1>3, <1>5, <1>12, <1>13, <1>14

LEMMA JobStateDeletedKeeps ==
  ASSUME BillingInv, NEW j \in Jobs, JobStateDeleted(j)
  PROVE  \E row : JobStep(j, row) /\ row = [job[j] EXCEPT !.active = FALSE]
<1>1. PICK old : old = job[j]
  OBVIOUS
<1>2. old \in JobRows /\ JobFits(j) /\ old.active
  BY <1>1 DEF JobStateDeleted, BillingInv, BillingType, JobsFit
<1>3. /\ old.user \in Users /\ old.inbox \in Users /\ account[old.user].exists
      /\ old.moved <= old.requested /\ creditOwner[old.user] = Nobody
  <2>1. old.user # Nobody
    BY <1>1, <1>2 DEF JobFits, NoJob
  <2>2. old.user \in Users
    BY <1>2, <2>1 DEF JobRows
  <2> QED BY <1>1, <1>2, <2>1, <2>2 DEF JobFits, BillingInv, LinksFit, LinkedOwnNothing
<1>4. PICK row : row = [old EXCEPT !.active = FALSE]
  OBVIOUS
<1>5. /\ row \in JobRows /\ row.user = old.user /\ row.inbox = old.inbox /\ row.moved = old.moved
      /\ row.requested = old.requested
  BY <1>2, <1>4 DEF JobRows
<1>6. job' = [job EXCEPT ![j] = row]
  BY <1>1, <1>4 DEF JobStateDeleted, BillingInv, BillingType
<1>7. UNCHANGED <<creditOwner, account, purchase, session, sent, receipts, intents, worker>>
  BY DEF JobStateDeleted
<1>8. JobStep(j, row)
  BY <1>3, <1>5, <1>6, <1>7 DEF JobStep, BillingInv, BillingType
<1> QED BY <1>1, <1>4, <1>8

\* An inbox that is linked had no account, so no checkout of it is past the owner's
\* check, and nothing is its own.
LEMMA LinkKeeps ==
  ASSUME BillingInv, NEW u \in Users, NEW v \in Users, Link(u, v)
  PROVE  BillingInv'
<1>1. UNCHANGED <<purchase, session, sent, receipts, job, worker>> /\ intents' \subseteq Users
  BY DEF Link, BillingInv, BillingType
<1>2. CASE OwnerOf(v) = OwnerOf(u)
  <2>1. RowsOnly
    BY <1>1, <1>2 DEF Link, RowsOnly, BillingInv, BillingType
  <2>2. AccountsOnly /\ \A x \in Workers : AccountsStay(x)
    BY <2>1, RowsOnlyStay DEF BillingInv
  <2> QED BY <1>1, <2>2, AccountsMove
<1>3. CASE OwnerOf(v) # OwnerOf(u)
  <2>1. PICK o : o = OwnerOf(u)
    OBVIOUS
  <2>2. MayLink(u, v) /\ u # v
    BY <1>3 DEF Link
  <2>3. o \in Users /\ creditOwner[o] = Nobody /\ o # Nobody
    BY <2>1, OwnerFacts, NobodyAssumption
  <2>4. o # v
    BY <2>1, <2>2 DEF OwnerOf, MayLink
  <2>5. /\ account' = [account EXCEPT ![v].exists = TRUE]
        /\ creditOwner' = [creditOwner EXCEPT ![v] = o]
    BY <1>3, <2>1 DEF Link
  <2>6. /\ creditOwner' \in [Users -> Users \union {Nobody}] /\ creditOwner'[v] = o
        /\ \A t \in Users \ {v} : creditOwner'[t] = creditOwner[t]
    BY <2>3, <2>5 DEF BillingInv, BillingType
  <2>7. /\ account' \in [Users -> Accounts]
        /\ account'[v].exists
        /\ \A t \in Users :
             /\ account'[t].balance = account[t].balance /\ account'[t].lease = account[t].lease
             /\ account[t].exists => account'[t].exists
             /\ t # v => account'[t].exists = account[t].exists
    BY <2>5 DEF BillingInv, BillingType, Accounts
  <2>8. \A x \in Workers : AccountsStay(x)
    BY <2>2, <2>6, <2>7 DEF AccountsStay, MayLink
  <2>9. BillingType'
    BY <1>1, <2>6, <2>7 DEF BillingInv, BillingType
  <2>10. PurchasesFit'
    <3> SUFFICES ASSUME NEW p \in Purchases PROVE PurchaseFits(p)'
      BY DEF PurchasesFit
    <3>1. PurchaseFits(p) /\ UNCHANGED <<purchase, session>>
      BY <1>1 DEF BillingInv, PurchasesFit
    <3> QED BY <2>7, <3>1 DEF PurchaseFits, Backed, TakenBack
  <2>11. OnePending' /\ EventsKnown'
    BY <1>1 DEF BillingInv, OnePending, EventsKnown
  <2>12. RequestsFit'
    <3> SUFFICES ASSUME NEW x \in Workers PROVE RequestFits(x, worker[x])'
      BY DEF RequestsFit
    <3>1. PICK s : s = worker[x]
      OBVIOUS
    <3>2. worker'[x] = s /\ s \in RequestRows /\ RequestFits(x, s)
      BY <1>1, <3>1, RowTyped
    <3>3. AccountsStay(x) /\ PurchasesStay /\ PaymentsStand /\ StaysPending(x, s)
      BY <1>1, <2>8, StayedBehind DEF StaysPending
    <3>4. RequestFits(x, s)'
      BY <3>2, <3>3, RequestKept DEF BillingInv
    <3> QED BY <3>2, <3>4
  <2>13. AccountsFit'
    BY <2>7 DEF BillingInv, AccountsFit
  <2>14. JobsFit'
    <3> SUFFICES ASSUME NEW j \in Jobs PROVE JobFits(j)'
      BY DEF JobsFit
    <3>1. JobFits(j) /\ job'[j] = job[j] /\ job[j].user \in Users \union {Nobody}
      BY <1>1 DEF BillingInv, BillingType, JobsFit, JobRows
    <3> QED BY <2>7, <3>1 DEF JobFits
  <2>15. LinksFit'
    <3> SUFFICES ASSUME NEW t \in Users, creditOwner'[t] # Nobody
                 PROVE  /\ creditOwner'[creditOwner'[t]] = Nobody
                        /\ account'[t].balance = 0
                        /\ \A p \in Purchases : purchase'[p].user # t
                        /\ \A j \in Jobs : job'[j].user # t
                        /\ account'[t].exists
      BY DEF LinksFit, LinkedOwnNothing
    <3>1. CASE t = v
      <4>1. account[v].balance = 0
        BY <2>2 DEF MayLink, BillingInv, AccountsFit
      <4> QED BY <1>1, <2>2, <2>3, <2>4, <2>6, <2>7, <3>1, <4>1 DEF MayLink
    <3>2. CASE t # v
      <4>1. /\ creditOwner'[t] = creditOwner[t] /\ creditOwner[t] # Nobody
            /\ creditOwner[creditOwner[t]] = Nobody /\ account[t].balance = 0
            /\ \A p \in Purchases : purchase[p].user # t
            /\ \A j \in Jobs : job[j].user # t
            /\ account[t].exists
        BY <2>6, <3>2 DEF BillingInv, LinksFit, LinkedOwnNothing
      <4>2. creditOwner[t] # v /\ creditOwner[t] \in Users
        BY <2>2, <4>1 DEF MayLink, BillingInv, BillingType
      <4> QED BY <1>1, <2>6, <2>7, <4>1, <4>2
    <3> QED BY <3>1, <3>2
  <2> QED BY <2>9, <2>10, <2>11, <2>12, <2>13, <2>14, <2>15 DEF BillingInv
<1> QED BY <1>2, <1>3

------------------------------------------------------------------------------
(* The invariant *)

LEMMA InitBilling == Init => BillingInv
<1> SUFFICES ASSUME Init PROVE BillingInv
  OBVIOUS
<1>1. BillingType
  <2>1. NoAccount \in Accounts /\ NoSession \in Sessions /\ NoJob \in JobRows /\ NoPurchase \in PurchaseRows
    BY PacksAssumption DEF NoAccount, Accounts, NoSession, Sessions, SessionStatuses, NoJob, JobRows,
       NoPurchase, PurchaseRows, Statuses
  <2> QED BY <2>1, IdleTyped DEF Init, BillingType
<1>2. /\ \A p \in Purchases : purchase[p] = NoPurchase /\ session[p] = NoSession
      /\ \A w \in Workers : worker[w] = Idle
      /\ \A u \in Users : account[u] = NoAccount /\ creditOwner[u] = Nobody
      /\ \A j \in Jobs : job[j] = NoJob
      /\ sent = {}
  BY DEF Init
<1>3. PurchasesFit /\ OnePending
  <2>1. NoPurchase.status = "none"
    BY DEF NoPurchase
  <2>2. \A p \in Purchases : purchase[p].status = "none"
    BY <1>2, <2>1
  <2> QED BY <1>2, <2>2 DEF PurchasesFit, PurchaseFits, OnePending
<1>4. EventsKnown /\ AccountsFit
  BY <1>2 DEF EventsKnown, AccountsFit, NoAccount
<1>5. RequestsFit
  BY <1>2, IdleFits DEF RequestsFit
<1>6. JobsFit
  <2>1. NoJob.user = Nobody
    BY DEF NoJob
  <2> QED BY <1>2, <2>1 DEF JobsFit, JobFits
<1>7. LinksFit
  BY <1>2 DEF LinksFit, LinkedOwnNothing
<1> QED BY <1>1, <1>3, <1>4, <1>5, <1>6, <1>7 DEF BillingInv

LEMMA StepBilling == BillingInv /\ [Next]_vars => BillingInv'
<1> SUFFICES ASSUME BillingInv, [Next]_vars PROVE BillingInv'
  OBVIOUS
<1>1. CASE UNCHANGED vars
  <2>1. RowsOnly /\ worker' = worker
    BY <1>1 DEF vars, RowsOnly, BillingInv, BillingType
  <2>2. AccountsOnly /\ \A x \in Workers : AccountsStay(x)
    BY <2>1, RowsOnlyStay DEF BillingInv
  <2> QED BY <2>1, <2>2, AccountsMove
<1>2. ASSUME NEW w \in Workers, Work(w) PROVE BillingInv'
  BY <1>2, UpsertAccountKeeps, ClaimLeaseKeeps, CheckOwnerKeeps, FindPurchaseKeeps, CreatePurchaseKeeps,
     OpenSessionKeeps, SaveSessionKeeps, RetrieveKeeps, CommitKeeps, ReopenKeeps, RereadKeeps,
     ListPurchasesKeeps, PickPurchaseKeeps, ReleaseLeaseKeeps DEF Work
<1>3. ASSUME NEW w \in Workers, StripeFails(w) \/ WorkerDies(w) PROVE BillingInv'
  BY <1>3, RequestFailsKeeps
<1>4. ASSUME NEW w \in Workers, NEW u \in Users, NEW pack \in Packs, Checkout(w, u, pack) PROVE BillingInv'
  BY <1>4, CheckoutKeeps
<1>5. ASSUME NEW w \in Workers, NEW u \in Users, Reconcile(w, u) PROVE BillingInv'
  BY <1>5, ReconcileKeeps
<1>6. ASSUME NEW w \in Workers, NEW event \in sent, Webhook(w, event) PROVE BillingInv'
  BY <1>6, WebhookKeeps
<1>7. ASSUME NEW u \in Users, LeaseEnds(u) \/ LeaseLapses(u) \/ Stales(u) \/ StartLink(u) PROVE BillingInv'
  BY <1>7, AccountClockKeeps, StartLinkKeeps
<1>8. ASSUME NEW p \in Purchases, NEW kind \in EventKinds, StripeChanges(p, kind) PROVE BillingInv'
  BY <1>8, StripeChangesKeeps
<1>9. ASSUME NEW p \in Purchases, Ages(p) PROVE BillingInv'
  BY <1>9, AgesKeeps
<1>10. ASSUME NEW j \in Jobs, NEW u \in Users, NEW n \in Packs, ReserveCredits(j, u, n) PROVE BillingInv'
  BY <1>10, ReserveCreditsKeeps, JobStepKeeps
<1>11. ASSUME NEW j \in Jobs, NEW moved \in 0..job[j].requested, NEW restored \in 0..job[j].requested,
              NEW closed \in BOOLEAN, AccountProgress(j, moved, restored, closed)
       PROVE  BillingInv'
  <2>1. PICK row : row = Progressed(job[j], moved, restored, closed)
    OBVIOUS
  <2>2. JobStep(j, row)
    BY <1>11, <2>1, AccountProgressKeeps
  <2> QED BY <2>2, JobStepKeeps
<1>12. ASSUME NEW j \in Jobs, JobStateDeleted(j) PROVE BillingInv'
  BY <1>12, JobStateDeletedKeeps, JobStepKeeps
<1>13. ASSUME NEW u \in Users, NEW v \in Users, Link(u, v) PROVE BillingInv'
  BY <1>13, LinkKeeps
<1> QED BY <1>1, <1>2, <1>3, <1>4, <1>5, <1>6, <1>7, <1>8, <1>9, <1>10, <1>11, <1>12, <1>13
        DEF Next, EventKinds

\* The rows of billing, Stripe's side and the requests at work fit together in every
\* state (StripeBillingService in src/lib/billing/service.ts, credits.ts and
\* inbox-link.ts).
THEOREM BillingFits == Spec => []BillingInv
BY InitBilling, StepBilling, PTL DEF Spec

\* A session a customer could pay belongs to a pending purchase, and the unique index
\* leaves an account one of those: no interleaving of checkouts under a lapsed lease
\* opens two (StripeBillingService.createCheckout).
THEOREM OneCheckout == Spec => []OneOpenCheckout
<1>1. BillingInv => OneOpenCheckout
  <2> SUFFICES ASSUME BillingInv, NEW p \in Purchases, NEW q \in Purchases, p # q,
                      purchase[p].user = purchase[q].user,
                      session[p].status = "open", session[q].status = "open"
               PROVE  FALSE
    BY DEF OneOpenCheckout
  <2>1. ASSUME NEW t \in Purchases, session[t].status = "open" PROVE purchase[t].status = "pending"
    <3>1. PurchaseFits(t) /\ purchase[t].status \in Statuses
      BY DEF BillingInv, PurchasesFit, BillingType, PurchaseRows
    <3> QED BY <2>1, <3>1 DEF PurchaseFits, NoSession, Backed, Statuses
  <2> QED BY <2>1 DEF BillingInv, OnePending
<1> QED BY <1>1, BillingFits, PTL

\* A linked inbox has nothing of its own that the link would hide, however a checkout
\* of it and the link interleave (linkInbox in src/lib/billing/inbox-link.ts).
THEOREM LinksHideNothing == Spec => []LinkedOwnNothing
<1>1. BillingInv => LinkedOwnNothing
  BY DEF BillingInv, LinksFit
<1> QED BY <1>1, BillingFits, PTL

------------------------------------------------------------------------------
(* Billing implements the ledger *)

\* The sum is the same operator in both modules.
LEMMA SameSum == \A f, S : SumFunctionOnSet(f, S) = Ledger!SumFunctionOnSet(f, S)
<1> SUFFICES ASSUME NEW f, NEW S PROVE SumFunctionOnSet(f, S) = Ledger!SumFunctionOnSet(f, S)
  OBVIOUS
<1> QED BY Zenon DEF SumFunctionOnSet, Ledger!SumFunctionOnSet, FoldFunctionOnSet, Ledger!FoldFunctionOnSet,
           MapThenFoldSet, Ledger!MapThenFoldSet

\* What the jobs of an account are promised is what they have reserved.
LEMMA PromisedIsReserved ==
  ASSUME NEW u \in Users
  PROVE  Ledger!Promised(u) = Reserved(u)
<1>1. PICK f : f = [j \in Jobs |-> job[j].requested - job[j].moved]
  OBVIOUS
<1>2. PICK S : S = {j \in Jobs : job[j].user = u /\ Held(j)}
  OBVIOUS
<1>3. PICK g : g = [j \in Jobs |-> Holdings[j].requested - Holdings[j].spent]
  OBVIOUS
<1>4. PICK T : T = {j \in Jobs : Holdings[j].held /\ Holdings[j].of = {u}}
  OBVIOUS
<1>5. \A j \in Jobs : /\ Holdings[j].requested = job[j].requested /\ Holdings[j].spent = job[j].moved
                      /\ Holdings[j].of = {job[j].user} \ {Nobody}
                      /\ Holdings[j].held <=> Held(j)
  BY DEF Holdings
<1>6. f = g
  BY <1>1, <1>3, <1>5
<1>7. S = T
  BY <1>2, <1>4, <1>5, NobodyAssumption
<1>8. Ledger!Promised(u) = Ledger!SumFunctionOnSet(g, T)
  BY <1>3, <1>4 DEF Ledger!Promised
<1>9. Reserved(u) = SumFunctionOnSet(f, S)
  BY <1>1, <1>2 DEF Reserved
<1> QED BY <1>6, <1>7, <1>8, <1>9, SameSum

\* The largest pack.
LEMMA MaxPack == Max(Packs) \in Packs /\ \A n \in Packs : n <= Max(Packs)
<1>1. \E x \in Packs : \A y \in Packs : x >= y
  BY PacksAssumption
<1> QED BY <1>1, PacksAssumption DEF Max

LEMMA InitLedger == Init => Ledger!LedgerInit
<1> SUFFICES ASSUME Init PROVE Ledger!LedgerInit
  OBVIOUS
<1>1. BillingType
  BY InitBilling DEF BillingInv
<1>2. /\ \A p \in Purchases : purchase[p] = NoPurchase /\ session[p] = NoSession
      /\ \A u \in Users : account[u] = NoAccount
      /\ \A j \in Jobs : job[j] = NoJob
  BY DEF Init
<1>3. Balances = [u \in Users |-> 0]
  BY <1>2 DEF Balances, NoAccount
<1>4. Payers = [p \in Purchases |-> {}]
  BY <1>2 DEF Payers, NoPurchase
<1>5. Payments = [p \in Purchases |-> 0]
  BY <1>2 DEF Payments, NoSession
<1>6. Returns = Payments
  <2>1. \A p \in Purchases : TakenBack(p) = 0
    BY <1>1, <1>2, TakenBackRange DEF NoSession
  <2> QED BY <1>5, <2>1 DEF Returns
<1>7. Grants = Payments /\ Reversals = Payments
  BY <1>2, <1>5 DEF Grants, Reversals, NoPurchase
<1>8. Holdings = [j \in Jobs |-> Ledger!NoHold]
  <2>1. ASSUME NEW j \in Jobs
        PROVE  /\ {job[j].user} \ {Nobody} = {} /\ job[j].requested = 0 /\ job[j].moved = 0
               /\ Held(j) = FALSE
    BY <1>2 DEF NoJob, Held
  <2> QED BY <2>1 DEF Holdings, Ledger!NoHold
<1> QED BY <1>3, <1>4, <1>5, <1>6, <1>7, <1>8 DEF Ledger!LedgerInit

\* A step that moves no balance and writes no purchase, session or job is none of the
\* ledger's.
LEMMA LedgerStands ==
  ASSUME UNCHANGED <<purchase, session, job>>,
         \A u \in Users : account'[u].balance = account[u].balance
  PROVE  UNCHANGED Ledger!ledgerVars
<1>1. Balances' = Balances
  BY DEF Balances
<1>2. UNCHANGED <<Payers, Payments, Returns, Grants, Reversals, Holdings>>
  BY DEF Payers, Payments, Returns, Grants, Reversals, Holdings, Held, TakenBack
<1> QED BY <1>1, <1>2 DEF Ledger!ledgerVars

\* A new purchase is an order.
LEMMA CreatePurchaseOrders ==
  ASSUME BillingInv, NEW w \in Workers, CreatePurchase(w)
  PROVE  (\E p \in Purchases, u \in Users : Ledger!Order(p, u)) \/ UNCHANGED Ledger!ledgerVars
<1>1. PICK s : s = worker[w]
  OBVIOUS
<1>2. s.user \in Users /\ s.pack \in Packs
  BY <1>1, RowTyped DEF CreatePurchase, RequestFits
<1>3. UNCHANGED <<account, session, job>>
  BY DEF CreatePurchase
<1>4. CASE UNCHANGED purchase
  BY <1>3, <1>4, LedgerStands
<1>5. ASSUME NEW p \in Purchases, purchase[p].status = "none",
             purchase' = [purchase EXCEPT ![p] = [NoPurchase EXCEPT !.status = "pending",
                            !.user = s.user, !.pack = s.pack]]
      PROVE  Ledger!Order(p, s.user)
  <2>1. purchase[p] = NoPurchase /\ session[p] = NoSession
    BY <1>5 DEF BillingInv, PurchasesFit, PurchaseFits
  <2>2. PICK row : row = [NoPurchase EXCEPT !.status = "pending", !.user = s.user, !.pack = s.pack]
    OBVIOUS
  <2>3. /\ row.user = s.user /\ row.pack = s.pack /\ row.granted = 0 /\ row.reversed = 0
        /\ row \in PurchaseRows
    BY <1>2, <2>2 DEF NoPurchase, PurchaseRows, Statuses
  <2>4. /\ purchase'[p] = row /\ \A q \in Purchases \ {p} : purchase'[q] = purchase[q]
        /\ purchase' \in [Purchases -> PurchaseRows]
    BY <1>5, <2>2, <2>3 DEF BillingInv, BillingType
  <2>5. /\ purchase[p].user = Nobody /\ purchase[p].granted = 0 /\ purchase[p].reversed = 0
        /\ session[p].status = "none" /\ session[p].refunded = 0 /\ ~session[p].disputed
    BY <2>1 DEF NoPurchase, NoSession
  <2>6. Payers[p] = {} /\ Payers' = [Payers EXCEPT ![p] = {s.user}]
    BY <1>2, <2>3, <2>4, <2>5, NobodyAssumption DEF Payers
  <2>7. Balances' = Balances /\ Holdings' = Holdings
    BY <1>3 DEF Balances, Holdings, Held
  <2>8. Payments' = Payments
    BY <1>3, <2>4, <2>5 DEF Payments
  <2>9. Returns' = Returns
    <3>1. TakenBack(p) = 0
      BY <2>5, TakenBackRange DEF BillingInv
    <3>2. TakenBack(p)' = 0
      <4>1. PICK pack : pack = s.pack
        OBVIOUS
      <4>2. pack \in Nat
        BY <1>2, <4>1, PacksAssumption
      <4>3. 0 \in 0..Cents
        BY PacksAssumption
      <4>4. Part(pack, 0) = 0
        BY <4>2, <4>3, PartBounds
      <4>5. TakenBack(p)' = Part(pack, 0)
        BY <1>3, <2>3, <2>4, <2>5, <4>1 DEF TakenBack, Part
      <4> QED BY <4>4, <4>5
    <3>3. \A q \in Purchases \ {p} : TakenBack(q)' = TakenBack(q)
      BY <1>3, <2>4 DEF TakenBack
    <3> QED BY <3>1, <3>2, <3>3 DEF Returns
  <2>10. Grants' = Grants /\ Reversals' = Reversals
    BY <2>3, <2>4, <2>5 DEF Grants, Reversals
  <2> QED BY <2>6, <2>7, <2>8, <2>9, <2>10 DEF Ledger!Order
<1> QED BY <1>1, <1>2, <1>4, <1>5 DEF CreatePurchase

\* A session that is completed is the payment, a refund or a dispute takes it back.
LEMMA StripeChangesLedger ==
  ASSUME BillingInv, NEW p \in Purchases, NEW kind \in EventKinds, StripeChanges(p, kind)
  PROVE  Ledger!Pay(p) \/ Ledger!TakeBack(p) \/ UNCHANGED Ledger!ledgerVars
<1>1. UNCHANGED <<account, purchase, job>>
  BY DEF StripeChanges
<1>2. Balances' = Balances /\ Payers' = Payers /\ Grants' = Grants /\ Reversals' = Reversals
      /\ Holdings' = Holdings
  BY <1>1 DEF Balances, Payers, Grants, Reversals, Holdings, Held
<1>3. /\ session' \in [Purchases -> Sessions] /\ BillingType
      /\ \A q \in Purchases \ {p} : session'[q] = session[q]
  BY StripeChangesSession DEF BillingInv
<1>4. \A q \in Purchases \ {p} : TakenBack(q)' = TakenBack(q)
  BY <1>1, <1>3 DEF TakenBack
<1>5. PICK pack : pack = purchase[p].pack
  OBVIOUS
<1>6. PurchaseFits(p) /\ purchase[p].status # "none" /\ pack \in Packs /\ pack \in Nat
  <2>1. PurchaseFits(p)
    BY DEF BillingInv, PurchasesFit
  <2>2. session[p].status # "none"
    BY StripeChangesSession DEF BillingInv, EventKinds
  <2>3. purchase[p].status # "none" /\ pack \in Packs
    BY <1>5, <2>1, <2>2 DEF PurchaseFits, NoSession
  <2> QED BY <2>1, <2>3, PacksAssumption
<1>7. PICK m : m = TakenBack(p)
  OBVIOUS
<1>8. PICK n : n = TakenBack(p)'
  OBVIOUS
<1>9. /\ m \in Nat /\ n \in Nat /\ m <= n /\ n <= pack
      /\ kind \in {"completed", "expired"} => n = m
  BY <1>3, <1>5, <1>7, <1>8, StripeTakesBack, TakenBackRange
<1>10. Returns' = [Returns EXCEPT ![p] = n] /\ Returns[p] = m
  BY <1>4, <1>7, <1>8 DEF Returns
<1>11. CASE kind = "completed"
  <2>1. session[p].status = "open" /\ session'[p].status = "complete"
    BY <1>11, StripeChangesSession DEF BillingInv
  <2>2. Payments[p] = 0 /\ Payments' = [Payments EXCEPT ![p] = pack]
    BY <1>1, <1>3, <1>5, <2>1 DEF Payments
  <2>3. Returns' = Returns
    BY <1>9, <1>10, <1>11 DEF Returns
  <2>4. Payers[p] # {}
    BY <1>6, NobodyAssumption DEF Payers, PurchaseFits
  <2>5. pack \in 1..Max(Packs)
    BY <1>6, MaxPack, PacksAssumption
  <2>6. \E k \in 1..Max(Packs) : Payments' = [Payments EXCEPT ![p] = k]
    BY <2>2, <2>5
  <2> QED BY <1>2, <2>2, <2>3, <2>4, <2>6 DEF Ledger!Pay
<1>12. CASE kind = "expired"
  <2>1. session[p].status = "open" /\ session'[p].status = "expired"
    BY <1>12, StripeChangesSession DEF BillingInv
  <2>2. Payments' = Payments
    BY <1>1, <1>3, <2>1 DEF Payments
  <2>3. Returns' = Returns
    BY <1>9, <1>10, <1>12 DEF Returns
  <2> QED BY <1>2, <2>2, <2>3 DEF Ledger!ledgerVars
<1>13. CASE kind \in {"refunded", "disputed"}
  <2>1. session[p].status = "complete" /\ session'[p].status = "complete"
    BY <1>13, StripeChangesSession DEF BillingInv
  <2>2. Payments' = Payments /\ Payments[p] = pack
    BY <1>1, <1>3, <1>5, <2>1 DEF Payments
  <2>3. CASE m = n
    <3>1. Returns' = Returns
      BY <1>10, <2>3 DEF Returns
    <3> QED BY <1>2, <2>2, <3>1 DEF Ledger!ledgerVars
  <2>4. CASE m # n
    <3>1. n \in (m + 1)..pack
      BY <1>6, <1>9, <2>4
    <3>2. \E k \in (Returns[p] + 1)..Payments[p] : Returns' = [Returns EXCEPT ![p] = k]
      BY <1>10, <2>2, <3>1
    <3> QED BY <1>2, <2>2, <3>2 DEF Ledger!TakeBack
  <2> QED BY <2>3, <2>4
<1> QED BY <1>11, <1>12, <1>13 DEF EventKinds

\* A fulfilment settles the purchase, or finds nothing the balance has not seen.
LEMMA FulfillSettles ==
  ASSUME BillingInv, NEW w \in Workers, NEW s, s = worker[w], s.pc = "commit",
         Holds(w), Fulfill(w), s.event \notin receipts,
         UNCHANGED <<creditOwner, session, sent, job, intents>>
  PROVE  (\E p \in Purchases, u \in Users : Ledger!Settle(p, u)) \/ UNCHANGED Ledger!ledgerVars
<1>1. PICK p : p = s.purchase
  OBVIOUS
<1>2. PICK u : u = s.user
  OBVIOUS
<1>3. PICK old : old = purchase[p]
  OBVIOUS
<1>4. PICK v : v = s.seen
  OBVIOUS
<1>5. /\ Made(p, u)
      /\ \E row :
           /\ PurchaseStep(p, row)
           /\ row.granted = Higher(old.granted, v.granted)
           /\ row.reversed = Higher(old.reversed, v.reversed)
           /\ account' = [account EXCEPT ![u].balance =
                @ + (row.granted - old.granted) - (row.reversed - old.reversed)]
  BY <1>1, <1>2, <1>3, <1>4, FulfillWrites
<1>6. PICK row : /\ PurchaseStep(p, row)
                 /\ row.granted = Higher(old.granted, v.granted)
                 /\ row.reversed = Higher(old.reversed, v.reversed)
                 /\ account' = [account EXCEPT ![u].balance =
                      @ + (row.granted - old.granted) - (row.reversed - old.reversed)]
  BY <1>5
<1>7. p \in Purchases /\ u \in Users /\ old.user = u /\ old.pack \in Packs /\ Backed(p, old)
  BY <1>3, <1>5, MadeFacts DEF Made, BillingInv
<1>8. s \in RequestRows /\ Backed(p, v)
  BY <1>1, <1>4, RowTyped DEF RequestFits
<1>9. PICK pack : pack = old.pack
  OBVIOUS
<1>10. PICK g : g = row.granted
  OBVIOUS
<1>11. PICK r : r = row.reversed
  OBVIOUS
<1>12. PICK og : og = old.granted
  OBVIOUS
<1>13. PICK or : or = old.reversed
  OBVIOUS
<1>14. PICK vg : vg = v.granted
  OBVIOUS
<1>15. PICK vr : vr = v.reversed
  OBVIOUS
<1>16. PICK m : m = TakenBack(p)
  OBVIOUS
<1>17. /\ og \in Nat /\ or \in Nat /\ vg \in Nat /\ vr \in Nat /\ m \in Nat
       /\ pack \in Nat /\ pack > 0
  <2>1. old \in PurchaseRows /\ v \in Projections
    BY <1>3, <1>4, <1>7, <1>8 DEF RequestRows, BillingInv, BillingType
  <2>2. og \in Nat /\ or \in Nat /\ vg \in Nat /\ vr \in Nat
    BY <1>12, <1>13, <1>14, <1>15, <2>1 DEF PurchaseRows, Projections
  <2>3. m \in Nat
    BY <1>7, <1>16, TakenBackRange DEF BillingInv
  <2>4. pack \in Packs
    BY <1>7, <1>9
  <2> QED BY <2>2, <2>3, <2>4, PacksAssumption
<1>18. /\ og \in {0, pack} /\ vg \in {0, pack}
       /\ og = 0 => or = 0
       /\ vg = 0 => vr = 0
       /\ og > 0 => session[p].status = "complete" /\ or <= m
       /\ vg > 0 => session[p].status = "complete" /\ vr <= m
  BY <1>3, <1>7, <1>8, <1>9, <1>12, <1>13, <1>14, <1>15, <1>16 DEF Backed
<1>19. /\ g = IF og > vg THEN og ELSE vg
       /\ r = IF or > vr THEN or ELSE vr
  BY <1>6, <1>10, <1>11, <1>12, <1>13, <1>14, <1>15 DEF Higher
<1>20. /\ purchase'[p] = row /\ row.user = old.user /\ row.pack = old.pack /\ session' = session
       /\ job' = job
       /\ \A q \in Purchases \ {p} : purchase'[q] = purchase[q]
  <2>1. purchase \in [Purchases -> PurchaseRows]
    BY DEF BillingInv, BillingType
  <2>2. /\ purchase' = [purchase EXCEPT ![p] = row]
        /\ row.user = old.user /\ row.pack = old.pack /\ session' = session /\ job' = job
    BY <1>3, <1>6 DEF PurchaseStep
  <2> QED BY <1>7, <2>1, <2>2
<1>21. \A q \in Purchases : purchase'[q].user = purchase[q].user /\ purchase'[q].pack = purchase[q].pack
  BY <1>3, <1>20
<1>22. Payers' = Payers /\ Payments' = Payments /\ Holdings' = Holdings
  BY <1>20, <1>21 DEF Payers, Payments, Holdings, Held
<1>23. Returns' = Returns
  <2>1. \A q \in Purchases : TakenBack(q)' = TakenBack(q)
    BY <1>20, <1>21 DEF TakenBack
  <2> QED BY <2>1 DEF Returns
<1>24. /\ Grants' = [Grants EXCEPT ![p] = g] /\ Grants[p] = og
       /\ Reversals' = [Reversals EXCEPT ![p] = r] /\ Reversals[p] = or
  BY <1>3, <1>7, <1>10, <1>11, <1>12, <1>13, <1>20 DEF Grants, Reversals
<1>25. /\ Balances' = [Balances EXCEPT ![u] = @ + (g - og) - (r - or)]
       /\ \A x \in Users : Balances[x] \in Int
  <2>1. account \in [Users -> Accounts]
    BY DEF BillingInv, BillingType
  <2>2. account' = [account EXCEPT ![u].balance = @ + (g - og) - (r - or)]
    BY <1>6, <1>10, <1>11, <1>12, <1>13
  <2>3. \A x \in Users : account'[x].balance = IF x = u THEN account[u].balance + (g - og) - (r - or)
                                               ELSE account[x].balance
    BY <1>7, <2>1, <2>2 DEF Accounts
  <2> QED BY <1>7, <2>1, <2>3 DEF Balances, Accounts
<1>26. CASE g = 0
  <2>1. og = 0 /\ vg = 0 /\ or = 0 /\ vr = 0 /\ r = 0
    BY <1>17, <1>18, <1>19, <1>26
  <2>2. Grants' = Grants /\ Reversals' = Reversals
    BY <1>24, <1>26, <2>1 DEF Grants, Reversals
  <2>3. Balances' = Balances
    <3>1. PICK b : b = Balances[u]
      OBVIOUS
    <3>2. b \in Int /\ b + (g - og) - (r - or) = b
      BY <1>7, <1>25, <1>26, <2>1, <3>1
    <3>3. Balances' = [Balances EXCEPT ![u] = b]
      BY <1>25, <3>1, <3>2
    <3> QED BY <3>1, <3>3 DEF Balances
  <2> QED BY <1>22, <1>23, <2>2, <2>3 DEF Ledger!ledgerVars
<1>27. CASE g # 0
  <2>1. /\ g = pack /\ session[p].status = "complete" /\ r <= m /\ or <= r /\ r \in Nat
    BY <1>17, <1>18, <1>19, <1>27
  <2>2. Payments[p] = pack /\ Payers[p] = {u} /\ Returns[p] = m
    BY <1>3, <1>7, <1>9, <1>16, <2>1, NobodyAssumption DEF Payments, Payers, Returns
  <2>3. r \in Reversals[p]..Returns[p]
    BY <1>17, <1>24, <2>1, <2>2
  <2>4. /\ Reversals' = [Reversals EXCEPT ![p] = r]
        /\ Grants' = [Grants EXCEPT ![p] = Payments[p]]
        /\ Balances' = [Balances EXCEPT ![u] = @ + (Payments[p] - Grants[p]) - (r - Reversals[p])]
    BY <1>24, <1>25, <2>1, <2>2
  <2>5. Payments[p] > 0
    BY <1>17, <2>2
  <2>6. Ledger!Settle(p, u)
    BY <1>22, <1>23, <2>2, <2>3, <2>4, <2>5 DEF Ledger!Settle
  <2> QED BY <1>7, <2>6
<1> QED BY <1>26, <1>27

LEMMA CommitSettles ==
  ASSUME BillingInv, NEW w \in Workers, Commit(w)
  PROVE  (\E p \in Purchases, u \in Users : Ledger!Settle(p, u)) \/ UNCHANGED Ledger!ledgerVars
<1>1. PICK s : s = worker[w]
  OBVIOUS
<1>2. s.pc = "commit" /\ UNCHANGED <<creditOwner, session, sent, job, intents>>
  BY <1>1 DEF Commit
<1>3. CASE UNCHANGED <<account, purchase>>
  BY <1>2, <1>3, LedgerStands
<1>4. CASE Holds(w) /\ Fulfill(w) /\ s.event \notin receipts
  BY <1>1, <1>2, <1>4, FulfillSettles
<1>5. CASE Holds(w) /\ Fulfill(w) /\ s.event \in receipts
  <2>1. UNCHANGED <<account, purchase>>
    BY <1>1, <1>5 DEF Fulfill
  <2> QED BY <1>3, <2>1
<1> QED BY <1>3, <1>4, <1>5 DEF Commit

\* What a checkout notes of a purchase is not in the ledger.
LEMMA NotesStand ==
  ASSUME BillingInv,
         (\E w \in Workers : SaveSession(w)) \/ (\E p \in Purchases : Ages(p))
  PROVE  UNCHANGED Ledger!ledgerVars
<1>1. UNCHANGED <<account, session, job>>
  BY DEF SaveSession, Ages
<1>2. \A q \in Purchases :
        /\ purchase'[q].user = purchase[q].user /\ purchase'[q].pack = purchase[q].pack
        /\ purchase'[q].granted = purchase[q].granted /\ purchase'[q].reversed = purchase[q].reversed
  <2>1. PICK p : \/ purchase' = [purchase EXCEPT ![p].session = TRUE]
                 \/ purchase' = [purchase EXCEPT ![p].aged = TRUE]
    BY DEF SaveSession, Ages
  <2>2. purchase \in [Purchases -> PurchaseRows]
    BY DEF BillingInv, BillingType
  <2> QED BY <2>1, <2>2 DEF PurchaseRows
<1>3. Balances' = Balances /\ Holdings' = Holdings /\ Payers' = Payers /\ Payments' = Payments
  BY <1>1, <1>2 DEF Balances, Holdings, Held, Payers, Payments
<1>4. Grants' = Grants /\ Reversals' = Reversals
  BY <1>2 DEF Grants, Reversals
<1>5. Returns' = Returns
  <2>1. \A q \in Purchases : TakenBack(q)' = TakenBack(q)
    BY <1>1, <1>2 DEF TakenBack
  <2> QED BY <2>1 DEF Returns
<1> QED BY <1>3, <1>4, <1>5 DEF Ledger!ledgerVars

\* A job that reserves gets no more than nothing else is promised.
LEMMA ReserveCreditsReserves ==
  ASSUME BillingInv, NEW j \in Jobs, NEW u \in Users, NEW n \in Packs, ReserveCredits(j, u, n)
  PROVE  Ledger!Reserve(j, OwnerOf(u))
<1>1. PICK o : o = OwnerOf(u)
  OBVIOUS
<1>2. o \in Users
  BY <1>1, OwnerFacts
<1>3. PICK row : row = [NoJob EXCEPT !.user = o, !.inbox = u, !.requested = n, !.active = TRUE]
  OBVIOUS
<1>4. /\ row.user = o /\ row.requested = n /\ row.moved = 0 /\ row.active = TRUE /\ row.closed = FALSE
  BY <1>3 DEF NoJob
<1>5. /\ job[j] = NoJob /\ Available(o) >= n
      /\ job' = [job EXCEPT ![j] = row]
      /\ UNCHANGED <<account, purchase, session>>
  BY <1>1, <1>3 DEF ReserveCredits
<1>6. job'[j] = row /\ \A i \in Jobs \ {j} : job'[i] = job[i]
  BY <1>5 DEF BillingInv, BillingType
<1>7. Holdings[j] = Ledger!NoHold
  <2>1. /\ {job[j].user} \ {Nobody} = {} /\ job[j].requested = 0 /\ job[j].moved = 0
        /\ Held(j) = FALSE
    BY <1>5 DEF NoJob, Held
  <2> QED BY <2>1 DEF Holdings, Ledger!NoHold
<1>8. Holdings' = [Holdings EXCEPT ![j] = [of |-> {o}, requested |-> n, spent |-> 0, held |-> TRUE]]
  <2>1. /\ {job'[j].user} \ {Nobody} = {o} /\ job'[j].requested = n /\ job'[j].moved = 0
        /\ Held(j)' = TRUE
    BY <1>2, <1>4, <1>6, NobodyAssumption DEF Held
  <2>2. \A i \in Jobs \ {j} : job'[i] = job[i] /\ Held(i)' = Held(i)
    BY <1>6 DEF Held
  <2> QED BY <2>1, <2>2 DEF Holdings
<1>9. n <= Balances[o] - Ledger!Promised(o)
  <2>1. Ledger!Promised(o) = Reserved(o)
    BY <1>2, PromisedIsReserved
  <2>2. Balances[o] = account[o].balance
    BY <1>2 DEF Balances
  <2> QED BY <1>5, <2>1, <2>2 DEF Available
<1>10. UNCHANGED <<Balances, Payers, Payments, Returns, Grants, Reversals>>
  BY <1>5 DEF Balances, Payers, Payments, Returns, Grants, Reversals, TakenBack
<1> QED BY <1>1, <1>7, <1>8, <1>9, <1>10 DEF Ledger!Reserve

\* The record of a job after a step of its accounting.
LEMMA JobStepHolds ==
  ASSUME BillingInv, NEW j \in Jobs, NEW row, JobStep(j, row), row.user = job[j].user
  PROVE  /\ UNCHANGED <<Payers, Payments, Returns, Grants, Reversals>>
         /\ \A i \in Jobs \ {j} : Holdings'[i] = Holdings[i]
         /\ job'[j] = row
<1>1. UNCHANGED <<purchase, session>>
  BY DEF JobStep
<1>2. UNCHANGED <<Payers, Payments, Returns, Grants, Reversals>>
  BY <1>1 DEF Payers, Payments, Returns, Grants, Reversals, TakenBack
<1>3. job'[j] = row /\ \A i \in Jobs \ {j} : job'[i] = job[i]
  BY DEF JobStep, BillingInv, BillingType
<1>4. \A i \in Jobs \ {j} : Holdings'[i] = Holdings[i]
  BY <1>3 DEF Holdings, Held
<1> QED BY <1>2, <1>3, <1>4

\* The moves a job verifies are spent, and its end releases the rest.
LEMMA AccountProgressSpends ==
  ASSUME BillingInv, NEW j \in Jobs, NEW moved, NEW restored, NEW closed,
         AccountProgress(j, moved, restored, closed)
  PROVE  \/ \E u \in Users : Ledger!Spend(j, u)
         \/ Ledger!Release(j)
         \/ UNCHANGED Ledger!ledgerVars
<1>1. PICK old : old = job[j]
  OBVIOUS
<1>2. PICK u : u = old.user
  OBVIOUS
<1>3. /\ moved \in Nat /\ u \in Users
      /\ account' = [account EXCEPT ![u].balance = @ + old.moved - moved]
  <2>1. moved \in Nat /\ job[j].user \in Users /\ account' = Charged(job[j], moved)
    BY AccountProgressKeeps
  <2>2. account' = Charged(old, moved)
    BY <1>1, <2>1
  <2> QED BY <1>1, <1>2, <2>1, <2>2 DEF Charged
<1>4. PICK row : /\ JobStep(j, row)
                 /\ row = [old EXCEPT !.moved = moved, !.restored = restored, !.closed = @ \/ closed]
  <2>1. JobStep(j, Progressed(job[j], moved, restored, closed))
    BY AccountProgressKeeps
  <2>2. PICK row : row = Progressed(old, moved, restored, closed)
    OBVIOUS
  <2>3. JobStep(j, row)
    BY <1>1, <2>1, <2>2
  <2> QED BY <2>2, <2>3 DEF Progressed
<1>5. old \in JobRows /\ old.active /\ moved \in old.moved..old.requested
      /\ (old.closed => moved = old.moved)
  BY <1>1 DEF AccountProgress, BillingInv, BillingType
<1>6. /\ row.user = u /\ row.requested = old.requested /\ row.moved = moved
      /\ row.active = old.active /\ (row.closed <=> (old.closed \/ closed))
  BY <1>2, <1>4, <1>5 DEF JobRows
<1>7. /\ UNCHANGED <<Payers, Payments, Returns, Grants, Reversals>>
      /\ \A i \in Jobs \ {j} : Holdings'[i] = Holdings[i]
      /\ job'[j] = row
  <2>1. JobStep(j, row) /\ row.user = job[j].user
    BY <1>1, <1>2, <1>4, <1>6
  <2> QED BY <2>1, JobStepHolds, ZenonT(60)
<1>8. PICK h : h = Held(j)'
  OBVIOUS
<1>9. h \in BOOLEAN /\ (h <=> ~old.closed /\ ~closed)
  BY <1>5, <1>6, <1>7, <1>8 DEF Held, JobRows
<1>10. PICK b : b = Holdings[j]
  OBVIOUS
<1>11. PICK k : /\ b = [of |-> {u}, requested |-> old.requested, spent |-> old.moved, held |-> k]
                /\ k \in BOOLEAN /\ (k <=> ~old.closed)
  <2>1. PICK k : k = Held(j)
    OBVIOUS
  <2>2. k \in BOOLEAN /\ (k <=> ~old.closed)
    BY <1>1, <1>5, <2>1 DEF Held, JobRows
  <2>3. b = [of |-> {u}, requested |-> old.requested, spent |-> old.moved, held |-> k]
    BY <1>1, <1>2, <1>3, <1>10, <2>1, NobodyAssumption DEF Holdings
  <2> QED BY <2>2, <2>3
<1>12. Holdings'[j] = [of |-> {u}, requested |-> old.requested, spent |-> moved, held |-> h]
  <2>1. {job'[j].user} \ {Nobody} = {u} /\ job'[j].requested = old.requested /\ job'[j].moved = moved
    BY <1>3, <1>6, <1>7, NobodyAssumption
  <2>2. Holdings'[j] = [of |-> {job'[j].user} \ {Nobody}, requested |-> job'[j].requested,
                        spent |-> job'[j].moved, held |-> Held(j)']
    BY DEF Holdings
  <2> QED BY <1>8, <2>1, <2>2
<1>13. Balances' = [Balances EXCEPT ![u] = @ - (moved - old.moved)]
  <2>1. account \in [Users -> Accounts] /\ old.moved \in Nat
    BY <1>5 DEF BillingInv, BillingType, JobRows
  <2>2. \A x \in Users : account'[x].balance = IF x = u THEN account[u].balance + old.moved - moved
                                               ELSE account[x].balance
    BY <1>3, <2>1 DEF Accounts
  <2>3. account[u].balance \in Int
    BY <1>3, <2>1 DEF Accounts
  <2>4. account[u].balance + old.moved - moved = account[u].balance - (moved - old.moved)
    <3>1. PICK c : c = account[u].balance
      OBVIOUS
    <3>2. c + old.moved - moved = c - (moved - old.moved)
      BY <1>3, <2>1, <2>3, <3>1
    <3> QED BY <3>1, <3>2
  <2> QED BY <1>3, <2>2, <2>4 DEF Balances
<1>14. CASE moved > old.moved
  <2>1. ~old.closed /\ moved - old.moved \in 1..(b.requested - b.spent) /\ b.held /\ b.of = {u}
    BY <1>3, <1>5, <1>11, <1>14 DEF JobRows
  <2>2. Holdings' = [Holdings EXCEPT ![j].spent = @ + (moved - old.moved), ![j].held = h]
    <3>1. Holdings'[j] = [b EXCEPT !.spent = @ + (moved - old.moved), !.held = h]
      <4>1. old.moved + (moved - old.moved) = moved
        BY <1>3, <1>5 DEF JobRows
      <4>2. [b EXCEPT !.spent = @ + (moved - old.moved), !.held = h]
              = [of |-> {u}, requested |-> old.requested, spent |-> old.moved + (moved - old.moved), held |-> h]
        <5>1. PICK d : d = old.moved + (moved - old.moved)
          OBVIOUS
        <5>2. [b EXCEPT !.spent = @ + (moved - old.moved), !.held = h] = [b EXCEPT !.spent = d, !.held = h]
          BY <1>11, <5>1
        <5>3. [b EXCEPT !.spent = d, !.held = h]
                = [of |-> {u}, requested |-> old.requested, spent |-> d, held |-> h]
          <6>1. b = [of |-> {u}, requested |-> old.requested, spent |-> old.moved, held |-> k]
            BY <1>11
          <6>2. PICK c : c = [b EXCEPT !.spent = d]
            OBVIOUS
          <6>3. c = [of |-> {u}, requested |-> old.requested, spent |-> d, held |-> k]
            BY <6>1, <6>2
          <6>4. [c EXCEPT !.held = h] = [of |-> {u}, requested |-> old.requested, spent |-> d, held |-> h]
            BY <6>3
          <6> QED BY <6>2, <6>4, Zenon
        <5> QED BY <5>1, <5>2, <5>3
      <4> QED BY <1>12, <4>1, <4>2
    <3>2. Holdings' = [Holdings EXCEPT ![j] = [b EXCEPT !.spent = @ + (moved - old.moved), !.held = h]]
      BY <1>7, <3>1 DEF Holdings
    <3> QED BY <1>10, <3>2 DEF Holdings
  <2>3. Ledger!Spend(j, u)
    BY <1>7, <1>9, <1>10, <1>13, <2>1, <2>2 DEF Ledger!Spend
  <2> QED BY <1>3, <2>3
<1>15. CASE ~(moved > old.moved)
  <2>1. moved = old.moved
    BY <1>3, <1>5, <1>15 DEF JobRows
  <2>2. Balances' = Balances
    <3>1. \A x \in Users : Balances[x] \in Int
      BY DEF Balances, BillingInv, BillingType, Accounts
    <3>2. PICK c : c = Balances[u]
      OBVIOUS
    <3>3. c \in Int /\ old.moved \in Nat /\ c - (moved - old.moved) = c
      BY <1>3, <1>5, <2>1, <3>1, <3>2 DEF JobRows
    <3>4. Balances' = [Balances EXCEPT ![u] = c]
      BY <1>13, <3>2, <3>3
    <3> QED BY <3>2, <3>4 DEF Balances
  <2>3. CASE h = k
    <3>1. Holdings'[j] = Holdings[j]
      BY <1>10, <1>11, <1>12, <2>1, <2>3
    <3>2. Holdings' = Holdings
      BY <1>7, <3>1 DEF Holdings
    <3> QED BY <1>7, <2>2, <3>2 DEF Ledger!ledgerVars
  <2>4. CASE h # k
    <3>1. b.held /\ h = FALSE
      BY <1>9, <1>11, <2>4
    <3>2. Holdings'[j] = [b EXCEPT !.held = FALSE]
      <4>1. [b EXCEPT !.held = h]
              = [of |-> {u}, requested |-> old.requested, spent |-> old.moved, held |-> h]
        BY <1>11
      <4> QED BY <1>12, <2>1, <3>1, <4>1
    <3>3. Holdings' = [Holdings EXCEPT ![j] = [b EXCEPT !.held = FALSE]]
      BY <1>7, <3>2 DEF Holdings
    <3>4. Holdings' = [Holdings EXCEPT ![j].held = FALSE]
      BY <1>10, <3>3 DEF Holdings
    <3> QED BY <1>7, <1>10, <2>2, <3>1, <3>4 DEF Ledger!Release
  <2> QED BY <2>3, <2>4
<1> QED BY <1>14, <1>15

\* The end of a job's state keeps its accounting and gives up what is left of it.
LEMMA JobStateDeletedReleases ==
  ASSUME BillingInv, NEW j \in Jobs, JobStateDeleted(j)
  PROVE  Ledger!Release(j) \/ UNCHANGED Ledger!ledgerVars
<1>1. PICK old : old = job[j]
  OBVIOUS
<1>2. PICK row : JobStep(j, row) /\ row = [job[j] EXCEPT !.active = FALSE]
  BY JobStateDeletedKeeps
<1>3. old \in JobRows /\ old.active
  BY <1>1 DEF JobStateDeleted, BillingInv, BillingType
<1>4. /\ row.user = old.user /\ row.requested = old.requested /\ row.moved = old.moved
      /\ ~row.active
  BY <1>1, <1>2, <1>3 DEF JobRows
<1>5. /\ UNCHANGED <<Payers, Payments, Returns, Grants, Reversals>>
      /\ \A i \in Jobs \ {j} : Holdings'[i] = Holdings[i]
      /\ job'[j] = row
  <2>1. row.user = job[j].user
    BY <1>1, <1>4
  <2> QED BY <1>2, <2>1, JobStepHolds, ZenonT(60)
<1>6. Balances' = Balances
  BY DEF JobStateDeleted, Balances
<1>7. PICK b : b = Holdings[j]
  OBVIOUS
<1>8. PICK k : k = Held(j)
  OBVIOUS
<1>9. b = [of |-> {old.user} \ {Nobody}, requested |-> old.requested, spent |-> old.moved, held |-> k]
  BY <1>1, <1>7, <1>8 DEF Holdings
<1>10. Holdings'[j] = [of |-> {old.user} \ {Nobody}, requested |-> old.requested, spent |-> old.moved,
                       held |-> FALSE]
  <2>1. PICK h : h = Held(j)'
    OBVIOUS
  <2>2. h = FALSE
    BY <1>4, <1>5, <2>1 DEF Held
  <2>3. Holdings'[j] = [of |-> {job'[j].user} \ {Nobody}, requested |-> job'[j].requested,
                        spent |-> job'[j].moved, held |-> Held(j)']
    BY DEF Holdings
  <2> QED BY <1>4, <1>5, <2>1, <2>2, <2>3
<1>11. k \in BOOLEAN
  BY <1>8 DEF Held
<1>12. CASE k = FALSE
  <2>1. Holdings'[j] = Holdings[j]
    BY <1>7, <1>9, <1>10, <1>12
  <2>2. Holdings' = Holdings
    BY <1>5, <2>1 DEF Holdings
  <2> QED BY <1>5, <1>6, <2>2 DEF Ledger!ledgerVars
<1>13. CASE k = TRUE
  <2>1. b.held
    BY <1>9, <1>13
  <2>2. Holdings'[j] = [b EXCEPT !.held = FALSE]
    <3>1. PICK h : h = FALSE
      OBVIOUS
    <3>2. [b EXCEPT !.held = h]
            = [of |-> {old.user} \ {Nobody}, requested |-> old.requested, spent |-> old.moved, held |-> h]
      BY <1>9
    <3> QED BY <1>10, <3>1, <3>2
  <2>3. Holdings' = [Holdings EXCEPT ![j] = [b EXCEPT !.held = FALSE]]
    BY <1>5, <2>2 DEF Holdings
  <2>4. Holdings' = [Holdings EXCEPT ![j].held = FALSE]
    BY <1>7, <2>3 DEF Holdings
  <2> QED BY <1>5, <1>6, <1>7, <2>1, <2>4 DEF Ledger!Release
<1> QED BY <1>11, <1>12, <1>13

\* A session that is opened is not paid yet.
LEMMA OpenSessionStands ==
  ASSUME BillingInv, NEW w \in Workers, OpenSession(w)
  PROVE  UNCHANGED Ledger!ledgerVars
<1>1. UNCHANGED <<account, purchase, job>>
  BY DEF OpenSession
<1>2. \A q \in Purchases :
        /\ session'[q].refunded = session[q].refunded /\ session'[q].disputed = session[q].disputed
        /\ session'[q].status = "complete" <=> session[q].status = "complete"
  <2>1. PICK p : session' = [session EXCEPT ![p].status = IF @ = "none" THEN "open" ELSE @]
    BY DEF OpenSession
  <2>2. session \in [Purchases -> Sessions]
    BY DEF BillingInv, BillingType
  <2> QED BY <2>1, <2>2 DEF Sessions
<1>3. /\ Balances' = Balances /\ Holdings' = Holdings /\ Payers' = Payers
      /\ Grants' = Grants /\ Reversals' = Reversals
  BY <1>1 DEF Balances, Holdings, Held, Payers, Grants, Reversals
<1>4. Payments' = Payments
  BY <1>1, <1>2 DEF Payments
<1>5. Returns' = Returns
  <2>1. \A q \in Purchases : TakenBack(q)' = TakenBack(q)
    BY <1>1, <1>2 DEF TakenBack
  <2> QED BY <2>1 DEF Returns
<1> QED BY <1>3, <1>4, <1>5 DEF Ledger!ledgerVars

\* The steps of a request between its reads and its commit, its lease, its faults and
\* the links between inboxes move no credits.
LEMMA RequestsStand ==
  ASSUME BillingInv, NEW w \in Workers,
         \/ UpsertAccount(w) \/ ClaimLease(w) \/ CheckOwner(w) \/ FindPurchase(w) \/ Retrieve(w)
         \/ Reopen(w) \/ Reread(w) \/ ListPurchases(w) \/ PickPurchase(w) \/ ReleaseLease(w)
         \/ StripeFails(w) \/ WorkerDies(w)
         \/ \E u \in Users, pack \in Packs : Checkout(w, u, pack)
         \/ \E u \in Users : Reconcile(w, u)
         \/ \E event \in sent : Webhook(w, event)
  PROVE  UNCHANGED Ledger!ledgerVars
<1>1. UNCHANGED <<purchase, session, job>>
  BY DEF UpsertAccount, ClaimLease, CheckOwner, FindPurchase, Retrieve, Reopen, Reread, ListPurchases,
         PickPurchase, ReleaseLease, StripeFails, WorkerDies, Checkout, Reconcile, Webhook
<1>2. account \in [Users -> Accounts]
  BY DEF BillingInv, BillingType
<1>3. CASE account' = account
  BY <1>1, <1>3, LedgerStands
<1>4. ASSUME NEW x, \/ \E v : account' = [account EXCEPT ![x].exists = v]
                    \/ \E v : account' = [account EXCEPT ![x].customer = v]
                    \/ \E v : account' = [account EXCEPT ![x].synced = v]
                    \/ \E v : account' = [account EXCEPT ![x].lease = v]
      PROVE  UNCHANGED Ledger!ledgerVars
  <2>1. \A u \in Users : account'[u].balance = account[u].balance
    BY <1>2, <1>4 DEF Accounts
  <2> QED BY <1>1, <2>1, LedgerStands
<1>5. CASE UpsertAccount(w) \/ ClaimLease(w) \/ CheckOwner(w)
  BY <1>3, <1>4, <1>5 DEF UpsertAccount, ClaimLease, CheckOwner
<1>6. CASE PickPurchase(w)
  BY <1>3, <1>4, <1>6 DEF PickPurchase
<1>7. CASE ReleaseLease(w)
  <2>1. PICK v : v = IF account[worker[w].user].lease = w THEN Nobody ELSE account[worker[w].user].lease
    OBVIOUS
  <2>2. account' = [account EXCEPT ![worker[w].user].lease = v]
    BY <1>7, <2>1 DEF ReleaseLease
  <2> QED BY <1>4, <2>2
<1>8. CASE \/ FindPurchase(w) \/ Retrieve(w) \/ Reopen(w) \/ Reread(w) \/ ListPurchases(w)
           \/ StripeFails(w) \/ WorkerDies(w)
  BY <1>3, <1>8 DEF FindPurchase, Retrieve, Reopen, Reread, ListPurchases, StripeFails, WorkerDies
<1>9. CASE \/ \E u \in Users, pack \in Packs : Checkout(w, u, pack)
           \/ \E u \in Users : Reconcile(w, u)
           \/ \E event \in sent : Webhook(w, event)
  BY <1>3, <1>9 DEF Checkout, Reconcile, Webhook
<1> QED BY <1>5, <1>6, <1>7, <1>8, <1>9

LEMMA ClocksAndLinksStand ==
  ASSUME BillingInv, NEW u \in Users,
         \/ LeaseEnds(u) \/ LeaseLapses(u) \/ Stales(u) \/ StartLink(u)
         \/ \E v \in Users : Link(u, v)
  PROVE  UNCHANGED Ledger!ledgerVars
<1>1. UNCHANGED <<purchase, session, job>>
  BY DEF LeaseEnds, LeaseLapses, Stales, StartLink, Link
<1>2. \/ account' = account
      \/ \E x : \/ account' = [account EXCEPT ![x].lease = Nobody]
                \/ account' = [account EXCEPT ![x].synced = FALSE]
                \/ account' = [account EXCEPT ![x].exists = TRUE]
  BY DEF LeaseEnds, LeaseLapses, Stales, StartLink, Link
<1>3. account \in [Users -> Accounts]
  BY DEF BillingInv, BillingType
<1>4. \A x \in Users : account'[x].balance = account[x].balance
  BY <1>2, <1>3 DEF Accounts
<1> QED BY <1>1, <1>4, LedgerStands

LEMMA StepLedger == BillingInv /\ [Next]_vars => [Ledger!LedgerNext]_(Ledger!ledgerVars)
<1> SUFFICES ASSUME BillingInv, [Next]_vars
             PROVE  Ledger!LedgerNext \/ UNCHANGED Ledger!ledgerVars
  OBVIOUS
<1>1. CASE UNCHANGED vars
  BY <1>1, LedgerStands DEF vars
<1>2. ASSUME NEW w \in Workers, Work(w)
      PROVE  Ledger!LedgerNext \/ UNCHANGED Ledger!ledgerVars
  <2>1. CASE CreatePurchase(w)
    BY <2>1, CreatePurchaseOrders DEF Ledger!LedgerNext
  <2>2. CASE Commit(w)
    BY <2>2, CommitSettles DEF Ledger!LedgerNext
  <2>3. CASE SaveSession(w)
    BY <2>3, NotesStand
  <2>4. CASE OpenSession(w)
    BY <2>4, OpenSessionStands
  <2> QED BY <1>2, <2>1, <2>2, <2>3, <2>4, RequestsStand DEF Work
<1>3. ASSUME NEW w \in Workers, StripeFails(w) \/ WorkerDies(w) PROVE UNCHANGED Ledger!ledgerVars
  BY <1>3, RequestsStand
<1>4. ASSUME NEW w \in Workers, NEW u \in Users, NEW pack \in Packs, Checkout(w, u, pack)
      PROVE  UNCHANGED Ledger!ledgerVars
  BY <1>4, RequestsStand
<1>5. ASSUME NEW w \in Workers, NEW u \in Users, Reconcile(w, u) PROVE UNCHANGED Ledger!ledgerVars
  BY <1>5, RequestsStand
<1>6. ASSUME NEW w \in Workers, NEW event \in sent, Webhook(w, event) PROVE UNCHANGED Ledger!ledgerVars
  BY <1>6, RequestsStand
<1>7. ASSUME NEW u \in Users, LeaseEnds(u) \/ LeaseLapses(u) \/ Stales(u) \/ StartLink(u)
      PROVE  UNCHANGED Ledger!ledgerVars
  BY <1>7, ClocksAndLinksStand
<1>8. ASSUME NEW p \in Purchases, NEW kind \in EventKinds, StripeChanges(p, kind)
      PROVE  Ledger!LedgerNext \/ UNCHANGED Ledger!ledgerVars
  BY <1>8, StripeChangesLedger DEF Ledger!LedgerNext
<1>9. ASSUME NEW p \in Purchases, Ages(p) PROVE UNCHANGED Ledger!ledgerVars
  BY <1>9, NotesStand
<1>10. ASSUME NEW j \in Jobs, NEW u \in Users, NEW n \in Packs, ReserveCredits(j, u, n)
       PROVE  Ledger!LedgerNext
  <2>1. OwnerOf(u) \in Users
    BY OwnerFacts
  <2> QED BY <1>10, <2>1, ReserveCreditsReserves DEF Ledger!LedgerNext
<1>11. ASSUME NEW j \in Jobs, NEW moved \in 0..job[j].requested, NEW restored \in 0..job[j].requested,
              NEW closed \in BOOLEAN, AccountProgress(j, moved, restored, closed)
       PROVE  Ledger!LedgerNext \/ UNCHANGED Ledger!ledgerVars
  BY <1>11, AccountProgressSpends DEF Ledger!LedgerNext
<1>12. ASSUME NEW j \in Jobs, JobStateDeleted(j)
       PROVE  Ledger!LedgerNext \/ UNCHANGED Ledger!ledgerVars
  BY <1>12, JobStateDeletedReleases DEF Ledger!LedgerNext
<1>13. ASSUME NEW u \in Users, NEW v \in Users, Link(u, v) PROVE UNCHANGED Ledger!ledgerVars
  BY <1>13, ClocksAndLinksStand
<1> QED BY <1>1, <1>2, <1>3, <1>4, <1>5, <1>6, <1>7, <1>8, <1>9, <1>10, <1>11, <1>12, <1>13
        DEF Next, EventKinds

\* Leases, webhooks, reconciliation and cleanup jobs together are a ledger of credits:
\* each paid purchase is credited once, what was taken back is debited once, and a
\* job spends only what it reserved of what nothing else was promised
\* (StripeBillingService.fulfill in src/lib/billing/service.ts, credits.ts).
THEOREM CreditsLedger == Spec => CreditsAreLedger
BY InitLedger, StepLedger, BillingFits, PTL DEF Spec, CreditsAreLedger, Ledger!LedgerSpec
=============================================================================
