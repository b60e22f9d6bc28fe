------------------------------- MODULE Ledger -------------------------------
(***************************************************************************)
(* What the trading core promises about money, without prices, requests or *)
(* timers: the cash of every user and, per order, the margin it holds.     *)
(* Cash moves only when a user is granted the initial balance, when an     *)
(* order locks margin its owner can afford, and when an order is paid out: *)
(* exactly the margin locked and the profit recorded with the order.       *)
(*                                                                         *)
(* PayAgain is not a promise but what the code does: an order the engine   *)
(* has liquidated may be closed, and paid, a second time.  PaidOnce is the *)
(* promise without it.                                                     *)
(***************************************************************************)
EXTENDS Integers, Maps

CONSTANTS Users, OrderIds, InitialBalance

VARIABLES cash,     \* user -> balance
          account   \* order -> owner, margin, state, profit

ledgerVars == <<cash, account>>

\* "locked": open.  "paid": closed by its owner.  "auto": liquidated.
AccountState == {"locked", "paid", "auto"}

CashOf(user) == IF user \in DOMAIN cash THEN cash[user] ELSE 0

LedgerInit == cash = EmptyMap /\ account = EmptyMap

Grant(user) ==
  /\ user \notin DOMAIN cash
  /\ cash' = Put(cash, user, InitialBalance)
  /\ UNCHANGED account

Lock(user, id) ==
  /\ id \in DOMAIN account' \ DOMAIN account
  /\ account'[id].owner = user
  /\ account'[id].state = "locked"
  /\ account' = Put(account, id, account'[id])
  /\ account'[id].margin <= CashOf(user)
  /\ cash' = Put(cash, user, CashOf(user) - account'[id].margin)

\* The order keeps its owner and its margin, its profit is on record.
PayOut(id) ==
  LET owner == account[id].owner
      margin == account[id].margin
  IN  /\ id \in DOMAIN account'
      /\ account' = Put(account, id, account'[id])
      /\ account'[id].owner = owner /\ account'[id].margin = margin
      /\ cash' = Put(cash, owner, CashOf(owner) + margin + account'[id].profit)

Pay(id) ==
  /\ id \in DOMAIN account
  /\ account[id].state = "locked"
  /\ PayOut(id)
  /\ account'[id].state \in {"paid", "auto"}

\* The second payment is recorded in place of the first, or nowhere when
\* memory has dropped the order meanwhile.
PayAgain(id) ==
  /\ id \in DOMAIN account
  /\ account[id].state = "auto"
  /\ \/ /\ PayOut(id)
        /\ account'[id].state = "paid"
     \/ /\ account' = Without(account, {id})
        /\ \A user \in DOMAIN cash \ {account[id].owner} : cash'[user] = cash[user]
        /\ DOMAIN cash' = DOMAIN cash

Forget ==
  /\ \E ids \in SUBSET {id \in DOMAIN account : account[id].state # "locked"} :
       account' = Without(account, ids)
  /\ UNCHANGED cash

LedgerNext ==
  \/ \E user \in Users : Grant(user)
  \/ \E user \in Users, id \in OrderIds : Lock(user, id)
  \/ \E id \in OrderIds : Pay(id) \/ PayAgain(id)
  \/ Forget

LedgerSpec == LedgerInit /\ [][LedgerNext]_ledgerVars

\* An order whose payment is on record is not paid again: cash moves only with
\* a grant, a lock or a first payment.
PaidOnce ==
  [][\/ \E user \in Users : Grant(user)
     \/ \E user \in Users, id \in OrderIds : Lock(user, id)
     \/ \E id \in OrderIds : Pay(id)
     \/ Forget]_ledgerVars
=============================================================================
