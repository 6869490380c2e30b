---------------------------- MODULE PaperOrders ----------------------------
(***************************************************************************)
(* The paper orders of one user (src/modules/orders/orders.service.ts)     *)
(* behind the feature gate of src/middleware/compliance.middleware.ts.     *)
(*                                                                         *)
(* createOrder is one interactive transaction at PostgreSQL's default      *)
(* READ COMMITTED: a read sees the last committed rows, the first write    *)
(* takes the lock of the user's row and keeps it to the end, and the value *)
(* written is absolute: computed from what was read before the lock.       *)
(* Average prices, fees and the text of the answer are left out.           *)
(***************************************************************************)
EXTENDS Integers, FiniteSets, FiniteSetsExt

CONSTANTS Order, Nobody,    \* calls of createOrder; no call
          Coin, Price, Quantity,
          StartCash

PaperAssumption ==
  /\ IsFiniteSet(Order) /\ Nobody \notin Order /\ Coin # {}
  /\ Price \cup Quantity \subseteq Int /\ StartCash \in Nat

VARIABLES flags,            \* the transactional features switched on
          cash, holding,    \* committed: user.cash, quantity by coin (0: no row)
          row,              \* how often the row of a coin was deleted
          lock,             \* whose transaction holds the user's row
          tx,               \* the calls
          apart             \* history: no two transactions ever overlapped

vars == <<flags, cash, holding, row, lock, tx, apart>>

Idle == [pc |-> "new", side |-> "buy", coin |-> CHOOSE c \in Coin : TRUE,
         quantity |-> 0, total |-> 0, cash |-> 0, held |-> 0, row |-> 0]

Init == /\ flags \in SUBSET {"order", "trading"}
        /\ cash = StartCash
        /\ holding = [c \in Coin |-> 0] /\ row = [c \in Coin |-> 0]
        /\ lock = Nobody
        /\ tx = [o \in Order |-> Idle]
        /\ apart = TRUE

-----------------------------------------------------------------------------
(* detectTransactionalFeatureFromPath: a path by its prefix and segments.  *)
FeatureOf(method, path) ==
  CASE path = "public market"                          -> "none"
    [] path \in {"/trading", "/portfolio/history",
                 "/private/open-orders"}               -> "trading"
    [] path \in {"/private/orders", "/orders/history"} -> "order"
    [] path = "any/orders" -> IF method = "GET" THEN "trading" ELSE "order"

Passes(method, path) == FeatureOf(method, path) \in flags \cup {"none"}

InTransaction(o) == tx[o].pc \in {"read", "checked", "locked"}

(* POST /private/orders, the gate, the input, the price at this moment.    *)
Ask(o) ==
  /\ tx[o].pc = "new"
  /\ \E side \in {"buy", "sell"}, c \in Coin, p \in Price, q \in Quantity :
       tx' = [tx EXCEPT ![o] =
         [Idle EXCEPT !.side = side, !.coin = c, !.quantity = q, !.total = p * q,
            !.pc = IF /\ Passes("POST", "/private/orders")
                      /\ "order" \in flags
                      /\ q > 0 /\ p > 0
                   THEN "priced" ELSE "refused"]]
  /\ UNCHANGED <<flags, cash, holding, row, lock, apart>>

Affords(o) == tx[o].side = "buy" => tx[o].total <= cash

(* The transaction starts: it reads the user, and a buy its balance.       *)
Begin(o) ==
  /\ tx[o].pc = "priced"
  /\ tx' = [tx EXCEPT ![o].cash = cash,
              ![o].pc = IF ~Affords(o) THEN "refused"
                        ELSE IF tx[o].side = "buy" THEN "checked" ELSE "read"]
  /\ apart' = (apart /\ \A p \in Order : ~InTransaction(p))
  /\ UNCHANGED <<flags, cash, holding, row, lock>>

(* A sell reads the holding before it locks anything.                      *)
ReadHolding(o) ==
  /\ tx[o].pc = "read"
  /\ tx' = [tx EXCEPT ![o].held = holding[tx[o].coin],
              ![o].row = row[tx[o].coin],
              ![o].pc = IF holding[tx[o].coin] < tx[o].quantity
                        THEN "refused" ELSE "checked"]
  /\ UNCHANGED <<flags, cash, holding, row, lock, apart>>

WriteCash(o) ==
  /\ tx[o].pc = "checked" /\ lock = Nobody
  /\ lock' = o
  /\ tx' = [tx EXCEPT ![o].pc = "locked"]
  /\ UNCHANGED <<flags, cash, holding, row, apart>>

Signed(o) == IF tx[o].side = "buy" THEN tx[o].total ELSE - tx[o].total

(* A buy reads the holding under the lock, a sell has read it before.      *)
HoldsAfter(o) ==
  IF tx[o].side = "buy" THEN holding[tx[o].coin] + tx[o].quantity
  ELSE tx[o].held - tx[o].quantity

(* A sell updates or deletes the row it read: one deleted since then fails *)
(* the transaction, one changed since then is overwritten.                 *)
Commit(o) ==
  LET c == tx[o].coin
  IN /\ lock = o
     /\ lock' = Nobody
     /\ IF tx[o].side = "sell" /\ row[c] # tx[o].row
        THEN /\ tx' = [tx EXCEPT ![o].pc = "failed"]
             /\ UNCHANGED <<cash, holding, row>>
        ELSE /\ cash' = tx[o].cash - Signed(o)
             /\ holding' = [holding EXCEPT ![c] = HoldsAfter(o)]
             /\ row' = [row EXCEPT ![c] = IF HoldsAfter(o) = 0 THEN @ + 1 ELSE @]
             /\ tx' = [tx EXCEPT ![o].pc = "filled"]
     /\ UNCHANGED <<flags, apart>>

(* The five seconds of an interactive transaction pass, or the connection  *)
(* is lost: everything is rolled back.                                     *)
RollBack(o) ==
  /\ InTransaction(o)
  /\ tx' = [tx EXCEPT ![o].pc = "failed"]
  /\ lock' = IF lock = o THEN Nobody ELSE lock
  /\ UNCHANGED <<flags, cash, holding, row, apart>>

Next == \E o \in Order : Ask(o) \/ Begin(o) \/ ReadHolding(o) \/ WriteCash(o)
                         \/ Commit(o) \/ RollBack(o)

Spec == Init /\ [][Next]_vars

-----------------------------------------------------------------------------
Filled(c) == {o \in Order : tx[o].pc = "filled" /\ tx[o].coin = c}

Bought(c) ==
  MapThenSumSet(LAMBDA o : IF tx[o].side = "buy" THEN tx[o].quantity
                           ELSE - tx[o].quantity, Filled(c))

Spent == MapThenSumSet(Signed, UNION {Filled(c) : c \in Coin})

(* However the orders of a user overlap, neither his cash nor a holding    *)
(* goes below zero; and as long as no two of them overlapped, both are     *)
(* what his filled orders add up to.  (Overlapping orders can lose a       *)
(* deduction: see the hazard of createOrder.)                              *)
BooksBalance ==
  /\ cash >= 0 /\ \A c \in Coin : holding[c] >= 0
  /\ apart => /\ cash = StartCash - Spent
              /\ \A c \in Coin : holding[c] = Bought(c)
=============================================================================
