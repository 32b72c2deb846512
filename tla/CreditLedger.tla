---------------------------- MODULE CreditLedger ----------------------------
(***************************************************************************)
(* What the credits of an account promise, without leases, webhooks, Stripe *)
(* sessions or workers: a purchase that is paid is credited once, what      *)
(* Stripe took back is debited once, a job spends only what it reserved,    *)
(* and what one job has reserved is not promised to another.                *)
(***************************************************************************)
EXTENDS Integers, FiniteSets, Functions

CONSTANTS Users, Purchases, Jobs,
          MaxCredits,     \* the credits of the largest purchase
          Requests        \* how much a job may ask for

VARIABLES
  balance,            \* the credits of an account, those it has reserved included
  payer,              \* the account a purchase belongs to, {} before it is ordered
  paid,               \* the credits a purchase has paid for, 0 until it is paid
  back,               \* the credits of it that were paid back or are disputed
  granted, reversed,  \* what the balance has seen of the two
  hold                \* what a job has reserved, from which account, and spent

ledgerVars == <<balance, payer, paid, back, granted, reversed, hold>>

NoHold == [of |-> {}, requested |-> 0, spent |-> 0, held |-> FALSE]

\* What the jobs of an account have reserved and not spent.
Promised(u) ==
  SumFunctionOnSet([j \in Jobs |-> hold[j].requested - hold[j].spent],
                   {j \in Jobs : hold[j].held /\ hold[j].of = {u}})

LedgerInit ==
  /\ balance = [u \in Users |-> 0]
  /\ payer = [p \in Purchases |-> {}]
  /\ paid = [p \in Purchases |-> 0]
  /\ back = paid /\ granted = paid /\ reversed = paid
  /\ hold = [j \in Jobs |-> NoHold]

\* An account orders credits.
Order(p, u) ==
  /\ payer[p] = {}
  /\ payer' = [payer EXCEPT ![p] = {u}]
  /\ UNCHANGED <<balance, paid, back, granted, reversed, hold>>

\* The purchase is paid, once.
Pay(p) ==
  /\ payer[p] # {} /\ paid[p] = 0
  /\ \E n \in 1..MaxCredits : paid' = [paid EXCEPT ![p] = n]
  /\ UNCHANGED <<balance, payer, back, granted, reversed, hold>>

\* Some of the payment is taken back.
TakeBack(p) ==
  /\ \E n \in (back[p] + 1)..paid[p] : back' = [back EXCEPT ![p] = n]
  /\ UNCHANGED <<balance, payer, paid, granted, reversed, hold>>

\* The account hears of it: the balance moves by what it had not seen yet.
Settle(p, u) ==
  /\ payer[p] = {u} /\ paid[p] > 0
  /\ \E n \in reversed[p]..back[p] :
       /\ reversed' = [reversed EXCEPT ![p] = n]
       /\ granted' = [granted EXCEPT ![p] = paid[p]]
       /\ balance' = [balance EXCEPT ![u] = @ + (paid[p] - granted[p]) - (n - reversed[p])]
  /\ UNCHANGED <<payer, paid, back, hold>>

\* A job reserves what nothing else is promised.
Reserve(j, u) ==
  /\ hold[j] = NoHold
  /\ \E n \in Requests :
       /\ n <= balance[u] - Promised(u)
       /\ hold' = [hold EXCEPT ![j] = [of |-> {u}, requested |-> n, spent |-> 0, held |-> TRUE]]
  /\ UNCHANGED <<balance, payer, paid, back, granted, reversed>>

\* A job spends what it reserved, and may give up the rest with it.
Spend(j, u) ==
  /\ hold[j].held /\ hold[j].of = {u}
  /\ \E n \in 1..(hold[j].requested - hold[j].spent) :
       /\ \E held \in BOOLEAN : hold' = [hold EXCEPT ![j].spent = @ + n, ![j].held = held]
       /\ balance' = [balance EXCEPT ![u] = @ - n]
  /\ UNCHANGED <<payer, paid, back, granted, reversed>>

\* It gives up the rest and spends nothing from then on.
Release(j) ==
  /\ hold[j].held
  /\ hold' = [hold EXCEPT ![j].held = FALSE]
  /\ UNCHANGED <<balance, payer, paid, back, granted, reversed>>

LedgerNext ==
  \/ \E p \in Purchases : Pay(p) \/ TakeBack(p)
  \/ \E p \in Purchases, u \in Users : Order(p, u) \/ Settle(p, u)
  \/ \E j \in Jobs, u \in Users : Reserve(j, u) \/ Spend(j, u)
  \/ \E j \in Jobs : Release(j)

LedgerSpec == LedgerInit /\ [][LedgerNext]_ledgerVars
=============================================================================
