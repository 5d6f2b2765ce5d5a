---------------------------- MODULE OrderLedger ----------------------------
(***************************************************************************)
(* What the orders table promises, without handlers, threads, cache or     *)
(* faults: an order number is free, holds a pending order or holds a paid  *)
(* order.  The amount and the creation time of an order never change while *)
(* it exists, a payment is never undone, and a number in use is never      *)
(* given to a second order.                                                *)
(***************************************************************************)
CONSTANTS OrderNo, Amounts, Times

VARIABLE ledger

Free == [status |-> "ABSENT", amount |-> 0, created_at |-> 0]

Order == [status : {"PENDING", "PAID"}, amount : Amounts, created_at : Times]

Init == ledger = [o \in OrderNo |-> Free]

\* INSERT INTO orders ... 'PENDING'
Place(o, a, t) ==
  /\ ledger[o] = Free
  /\ ledger' = [ledger EXCEPT ![o] =
        [status |-> "PENDING", amount |-> a, created_at |-> t]]

\* UPDATE orders SET status = 'PAID'
Settle(o) ==
  /\ ledger[o].status = "PENDING"
  /\ ledger' = [ledger EXCEPT ![o].status = "PAID"]

\* DELETE FROM orders
Remove(o) ==
  /\ ledger[o] # Free
  /\ ledger' = [ledger EXCEPT ![o] = Free]

Next == \E o \in OrderNo :
  \/ \E a \in Amounts, t \in Times : Place(o, a, t)
  \/ Settle(o)
  \/ Remove(o)

Spec == Init /\ [][Next]_ledger
=============================================================================
