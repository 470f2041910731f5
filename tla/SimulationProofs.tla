-------------------------- MODULE SimulationProofs --------------------------
(***************************************************************************)
(* Theorems about Simulation for every roster, set of market makers and    *)
(* noise traders, price unit, history and number of steps: the books of    *)
(* the participants, the rewards of the RL agent, the series of a backtest *)
(* and the quotes of a market maker.                                       *)
(*                                                                         *)
(* A call of the engine sweeps a queue of any length, so what it does is   *)
(* found by induction on the orders of the queue (SweepShape,              *)
(* WithoutShape, with the facts on folds and sums of FoldProofs), and the  *)
(* rest of the module uses SubmitShape and CancelShape only.  The          *)
(* invariants are Typed, Idle and Snapshots, Owners, Rewards and WashInv,  *)
(* each inductive with those before it.                                    *)
(***************************************************************************)
EXTENDS Simulation, FoldProofs

-----------------------------------------------------------------------------
(* The invariants.                                                         *)

\* The orders there can be, by the ids of a run.
OrderIds == (Participants \cup {Source}) \X Nat
Orders == [id : OrderIds, side : Side, price : Int, quantity : Nat \ {0},
           kind : {"GTC", "IOC", "Market"}]

\* What may rest on a side: only good-till-cancel orders do.
Restable(s) == {o \in Orders : o.side = s /\ o.kind = "GTC"}

\* A book: on each side what may rest there.
Filed(b) ==
  /\ b \in [Side -> Seq(Orders)]
  /\ \A s \in Side : b[s] \in Seq(Restable(s))

Typed ==
  /\ driver \in Drivers
  /\ Filed(book)
  /\ pending \in Seq(Orders)
  /\ known \subseteq OrderIds
  /\ turn \in Nat /\ steps \in Nat /\ warm \in Nat
  /\ inventory \in [Participants -> Int] /\ pnl \in [Participants -> Int]
  /\ counter \in [Participants \cup {Source} -> Nat]
  /\ outstanding \in [MarketMakers -> SUBSET OrderIds]
  /\ prev_pnl \in Int /\ paid \in Int
  /\ finished \in BOOLEAN

\* Nothing is pending between two steps, and a run that has returned is there.
Idle == /\ turn = 0 => pending = <<>>
        /\ finished => turn = 0

\* Whose order i may be: a participant's of the roster, or of the history.
Invited(i) == \/ driver = "backtest" /\ Owner(i) = Source
              \/ \E k \in DOMAIN Roster[driver] : Owner(i) = Roster[driver][k]

\* Every order is of one who takes part, and fills of those at rest find their
\* owners.
Owners ==
  /\ \A i \in RestingIds(book) \cup Ids(pending) : Invited(i)
  /\ \A i \in RestingIds(book) : Owner(i) # Source => i \in known

\* The snapshot that is due has been taken.
Snapshots ==
  driver = "backtest" /\ turn = 0 /\ steps > 0
    /\ (finished \/ steps % SnapshotInterval = 0)
    => captured = Figures \/ (skipped /\ steps % SnapshotInterval = 0)

\* The agent has been paid up to the last reward, and makes nothing while only
\* the noise traders warm the market up.
Rewards ==
  /\ driver \in Environments => paid = prev_pnl
  /\ driver \in Environments /\ (turn = 0 \/ warm > 0) => pnl["agent"] = prev_pnl
  /\ warm > 0 =>
       /\ driver \in Environments
       /\ turn = 0 \/ turn > Seats(driver)
       /\ \A i \in RestingIds(book) \cup Ids(pending) : Owner(i) \notin Players

Sorted(s, queue) ==
  \A j, k \in DOMAIN queue : j < k => ~Better(s, queue[k].price, queue[j].price)
Floored(queue) == \A k \in DOMAIN queue : queue[k].price >= Tick
Market(b) ==
  /\ \A s \in Side : Sorted(s, b[s]) /\ Floored(b[s])
  /\ \A j \in DOMAIN b["Buy"], k \in DOMAIN b["Sell"] : b["Buy"][j].price < b["Sell"][k].price

Floors(orders) == \A k \in DOMAIN orders : orders[k].kind = "GTC" => orders[k].price >= Tick
OneOwner(orders) == \A j, k \in DOMAIN orders : Owner(orders[j].id) = Owner(orders[k].id)

\* The k-th of the orders will not trade: it is a limit order that meets neither
\* what rests in book b nor one of the orders before it.
Quiet(orders, k, b) ==
  LET o == orders[k]
      opp == Opposite(o.side)
  IN  /\ o.kind = "GTC"
      /\ \A j \in DOMAIN b[opp] : Better(o.side, b[opp][j].price, o.price)
      /\ \A j \in 1 .. k - 1 : orders[j].side = opp => Better(o.side, orders[j].price, o.price)

\* It may trade, but with others.
Alone(orders, k, b) ==
  LET o == orders[k]
      opp == Opposite(o.side)
  IN  /\ \A j \in DOMAIN b[opp] : Owner(b[opp][j].id) # Owner(o.id)
      /\ \A j \in 1 .. k - 1 : orders[j].side = o.side

\* Market maker m will not trade with itself in these orders, or it is short and
\* remains so until the last of them.
Careful(orders, b, m) ==
  \/ \A k \in DOMAIN orders : Quiet(orders, k, b) \/ Alone(orders, k, b)
  \/ /\ inventory[m] < 0
     /\ \A k \in DOMAIN orders :
          k < Len(orders) => orders[k].side = "Sell" \/ Quiet(orders, k, b)

Unwashed ==
  \A m \in MarketMakers :
    (\E k \in DOMAIN pending : Owner(pending[k].id) = m) => Careful(pending, book, m)

WashInv == Market(book) /\ Floors(pending) /\ OneOwner(pending) /\ Unwashed

-----------------------------------------------------------------------------
(* What a call makes of a queue.                                             *)

\* A set of orders that may rest: some of one may trade.
Shrinks(R) ==
  /\ R \subseteq Orders
  /\ \A r \in R : \A x \in 1 .. r.quantity : [r EXCEPT !.quantity = x] \in R

\* The fills of order o with orders of R, and how far it may have got.
Trades(R, o) ==
  [maker : {r.id : r \in R}, taker : {o.id}, price : Int, quantity : Nat,
   aggressor_side : {o.side}]
Takings(R, o) == [left : Nat, queue : Seq(R), fills : Seq(Trades(R, o))]

\* One resting order takes its part, and what it has left stays.
LEMMA TakeType ==
  ASSUME NEW R, Shrinks(R), NEW o \in Orders, NEW m \in Takings(R, o), NEW r \in R
  PROVE  Take(m, r, o) \in Takings(R, o)
<1> DEFINE x == IF r.quantity < m.left THEN r.quantity ELSE m.left
           rest == [r EXCEPT !.quantity = r.quantity - x]
           fill == [maker |-> r.id, taker |-> o.id, price |-> r.price, quantity |-> x,
                    aggressor_side |-> o.side]
<1>1. r \in Orders /\ r.quantity \in Nat /\ r.quantity > 0 /\ r.price \in Int
  BY DEF Shrinks, Orders
<1>2. m.left \in Nat /\ m.queue \in Seq(R) /\ m.fills \in Seq(Trades(R, o))
  BY DEF Takings
<1>3. x \in Nat /\ m.left - x \in Nat /\ x =< r.quantity
  BY <1>1, <1>2
<1> HIDE DEF x
<1>4. x # r.quantity => rest \in R
  <2> SUFFICES ASSUME x # r.quantity PROVE rest \in R
    OBVIOUS
  <2>1. r.quantity - x \in 1 .. r.quantity
    BY <1>1, <1>3
  <2> QED BY <2>1 DEF Shrinks
<1>5. fill \in Trades(R, o)
  BY <1>1, <1>3 DEF Trades
<1> DEFINE queue == IF x = r.quantity THEN m.queue ELSE Append(m.queue, rest)
           fills == IF x = 0 THEN m.fills ELSE Append(m.fills, fill)
<1>6. queue \in Seq(R) /\ fills \in Seq(Trades(R, o))
  <2> HIDE DEF rest, fill
  <2> QED BY <1>2, <1>4, <1>5
<1>7. Take(m, r, o) = [left |-> m.left - x, queue |-> queue, fills |-> fills]
  BY DEF Take, x
<1> HIDE DEF queue, fills
<1> QED
  BY <1>3, <1>6, <1>7 DEF Takings

\* A sweep, order by order.
Sweeping(run, queue, o) ==
  /\ run[0] = [left |-> o.quantity, queue |-> <<>>, fills |-> <<>>]
  /\ \A k \in 1 .. Len(queue) : run[k] = Take(run[k - 1], queue[k], o)

\* A sweep takes from one resting order after the other.
LEMMA SweepRuns ==
  ASSUME NEW R, Shrinks(R), NEW o \in Orders, NEW queue \in Seq(R)
  PROVE  \E run \in [0 .. Len(queue) -> Takings(R, o)] :
           Sweeping(run, queue, o) /\ Sweep(queue, o) = run[Len(queue)]
<1> DEFINE n == Len(queue)
           V == Takings(R, o)
           base == [left |-> o.quantity, queue |-> <<>>, fills |-> <<>>]
           step == [k \in 1 .. n |-> [v \in V |-> Take(v, queue[k], o)]]
           Eqn(f) == f = [s \in SUBSET (DOMAIN queue) |->
                            IF s = {} THEN base
                            ELSE Take(f[s \ {Max(s)}], queue[Max(s)], o)]
           c == CHOOSE f : Eqn(f)
<1>1. /\ n \in Nat /\ DOMAIN queue = 1 .. n
      /\ \A k \in 1 .. n : queue[k] \in R
  OBVIOUS
<1>2. base \in V
  BY DEF Takings, Orders
<1> HIDE DEF V, base
<1>3. \A k \in 1 .. n : \A v \in V : step[k][v] = Take(v, queue[k], o) /\ step[k][v] \in V
  <2> SUFFICES ASSUME NEW k \in 1 .. n, NEW v \in V
               PROVE  Take(v, queue[k], o) \in V
    BY <1>1
  <2> QED BY <1>1, TakeType DEF V
<1>4. PICK f : LeftFolds(f, n, base, step) /\ \A s \in SUBSET (1 .. n) : f[s] \in V
  <2> HIDE DEF step, n
  <2> QED BY <1>1, <1>2, <1>3, FoldLeftExists
<1> HIDE DEF step
<1>5. Eqn(f)
  <2>1. \A s \in SUBSET (1 .. n) :
          s # {} => /\ Max(s) \in 1 .. n /\ f[s \ {Max(s)}] \in V
    BY <1>1, <1>4, GreatestIndex
  <2>2. \A s \in SUBSET (1 .. n) :
          s # {} => step[Max(s)][f[s \ {Max(s)}]] = Take(f[s \ {Max(s)}], queue[Max(s)], o)
    BY <1>3, <2>1
  <2>3. f = [s \in SUBSET (1 .. n) |->
               IF s = {} THEN base ELSE step[Max(s)][f[s \ {Max(s)}]]]
    BY <1>4 DEF LeftFolds
  <2> QED BY <1>1, <2>2, <2>3
<1>6. Sweep(queue, o) = c[DOMAIN queue]
  BY DEF Sweep, FoldLeft, MapThenFoldSet, base
<1>7. Eqn(c)
  <2> HIDE DEF Eqn
  <2> QED BY <1>5
<1> HIDE DEF c
<1>8. \A s \in SUBSET (1 .. n) :
        c[s] = IF s = {} THEN base ELSE Take(c[s \ {Max(s)}], queue[Max(s)], o)
  BY <1>1, <1>7
<1>9. Follows(c, f, n, base, step)
  <2>1. ASSUME NEW s \in SUBSET (1 .. n), s # {},
               c[s \ {Max(s)}] = f[s \ {Max(s)}]
        PROVE  c[s] = step[Max(s)][f[s \ {Max(s)}]]
    <3>1. Max(s) \in 1 .. n /\ f[s \ {Max(s)}] \in V
      BY <1>1, <1>4, <2>1, GreatestIndex
    <3> QED BY <1>3, <1>8, <2>1, <3>1
  <2>2. c[{}] = base
    BY <1>8
  <2> QED BY <2>1, <2>2 DEF Follows
<1>10. PICK run \in [0 .. n -> V] :
         /\ run[0] = base
         /\ \A k \in 1 .. n : run[k] = step[k][run[k - 1]]
         /\ run[n] = c[1 .. n]
  <2> HIDE DEF n
  <2> QED BY <1>1, <1>2, <1>4, <1>9, LeftRuns
<1>11. \A k \in 1 .. n : run[k] = Take(run[k - 1], queue[k], o)
  <2> SUFFICES ASSUME NEW k \in 1 .. n PROVE run[k] = Take(run[k - 1], queue[k], o)
    OBVIOUS
  <2>1. k - 1 \in 0 .. n
    BY <1>1
  <2>2. run[k - 1] \in V
    BY <1>10, <2>1
  <2> QED BY <1>3, <1>10, <2>2
<1> QED
  BY <1>1, <1>6, <1>10, <1>11 DEF Sweeping, V, base

\* The ids of a queue that are given drop out of it, order by order.
LEMMA WithoutRuns ==
  ASSUME NEW R, NEW queue \in Seq(R), NEW ids
  PROVE  \E run \in [0 .. Len(queue) -> Seq({r \in R : r.id \notin ids})] :
           /\ run[0] = <<>>
           /\ \A k \in 1 .. Len(queue) :
                run[k] = IF queue[k].id \in ids THEN run[k - 1]
                         ELSE Append(run[k - 1], queue[k])
           /\ Without(queue, ids) = run[Len(queue)]
<1> DEFINE n == Len(queue)
           V == Seq({r \in R : r.id \notin ids})
           base == <<>>
           put(v, r) == IF r.id \in ids THEN v ELSE Append(v, r)
           step == [k \in 1 .. n |-> [v \in V |-> put(v, queue[k])]]
           Eqn(f) == f = [s \in SUBSET (DOMAIN queue) |->
                            IF s = {} THEN base
                            ELSE put(f[s \ {Max(s)}], queue[Max(s)])]
           c == CHOOSE f : Eqn(f)
<1>1. /\ n \in Nat /\ DOMAIN queue = 1 .. n
      /\ \A k \in 1 .. n : queue[k] \in R
  OBVIOUS
<1>2. base \in V
  OBVIOUS
<1>12. \A v \in V : \A r \in R : put(v, r) \in V
  OBVIOUS
<1>13. Without(queue, ids) = c[DOMAIN queue]
  BY DEF Without, FoldLeft, MapThenFoldSet
<1>14. \A v, r : put(v, r) = IF r.id \in ids THEN v ELSE Append(v, r)
  OBVIOUS
<1> HIDE DEF V, base, put
<1>3. \A k \in 1 .. n : \A v \in V : step[k][v] = put(v, queue[k]) /\ step[k][v] \in V
  BY <1>1, <1>12
<1>4. PICK f : LeftFolds(f, n, base, step) /\ \A s \in SUBSET (1 .. n) : f[s] \in V
  <2> HIDE DEF step, n
  <2> QED BY <1>1, <1>2, <1>3, FoldLeftExists
<1> HIDE DEF step
<1>5. Eqn(f)
  <2>1. \A s \in SUBSET (1 .. n) :
          s # {} => /\ Max(s) \in 1 .. n /\ f[s \ {Max(s)}] \in V
    BY <1>1, <1>4, GreatestIndex
  <2>2. \A s \in SUBSET (1 .. n) :
          s # {} => step[Max(s)][f[s \ {Max(s)}]] = put(f[s \ {Max(s)}], queue[Max(s)])
    BY <1>3, <2>1
  <2>3. f = [s \in SUBSET (1 .. n) |->
               IF s = {} THEN base ELSE step[Max(s)][f[s \ {Max(s)}]]]
    BY <1>4 DEF LeftFolds
  <2> QED BY <1>1, <2>2, <2>3
<1>7. Eqn(c)
  <2> HIDE DEF Eqn
  <2> QED BY <1>5
<1> HIDE DEF c
<1>8. \A s \in SUBSET (1 .. n) :
        c[s] = IF s = {} THEN base ELSE put(c[s \ {Max(s)}], queue[Max(s)])
  BY <1>1, <1>7
<1>9. Follows(c, f, n, base, step)
  <2>1. ASSUME NEW s \in SUBSET (1 .. n), s # {},
               c[s \ {Max(s)}] = f[s \ {Max(s)}]
        PROVE  c[s] = step[Max(s)][f[s \ {Max(s)}]]
    <3>1. Max(s) \in 1 .. n /\ f[s \ {Max(s)}] \in V
      BY <1>1, <1>4, <2>1, GreatestIndex
    <3> QED BY <1>3, <1>8, <2>1, <3>1
  <2>2. c[{}] = base
    BY <1>8
  <2> QED BY <2>1, <2>2 DEF Follows
<1>10. PICK run \in [0 .. n -> V] :
         /\ run[0] = base
         /\ \A k \in 1 .. n : run[k] = step[k][run[k - 1]]
         /\ run[n] = c[1 .. n]
  <2> HIDE DEF n
  <2> QED BY <1>1, <1>2, <1>4, <1>9, LeftRuns
<1>11. \A k \in 1 .. n : run[k] = put(run[k - 1], queue[k])
  <2> SUFFICES ASSUME NEW k \in 1 .. n PROVE run[k] = put(run[k - 1], queue[k])
    OBVIOUS
  <2>1. k - 1 \in 0 .. n
    BY <1>1
  <2>2. run[k - 1] \in V
    BY <1>10, <2>1
  <2> QED BY <1>3, <1>10, <2>2
<1> QED
  BY <1>1, <1>13, <1>10, <1>11, <1>14 DEF V, base

\* Every order of q has the price and the id of one of the first k of queue.
Drawn(q, queue, k) ==
  \A x \in DOMAIN q :
    \E j \in 1 .. k : q[x].price = queue[j].price /\ q[x].id = queue[j].id

\* What is left of the next order keeps the queue drawn from the old one.
LEMMA AppendDrawn ==
  ASSUME NEW R, NEW queue \in Seq(R), NEW q \in Seq(R), NEW k \in 1 .. Len(queue),
         Drawn(q, queue, k - 1),
         NEW r \in R, r.price = queue[k].price, r.id = queue[k].id
  PROVE  Drawn(Append(q, r), queue, k)
<1> DEFINE p == Append(q, r)
<1>1. /\ Len(q) \in Nat
      /\ DOMAIN p = 1 .. Len(q) + 1 /\ DOMAIN q = 1 .. Len(q)
      /\ p[Len(q) + 1] = r /\ \A x \in 1 .. Len(q) : p[x] = q[x]
  OBVIOUS
<1>2. k \in 1 .. k /\ \A j \in 1 .. k - 1 : j \in 1 .. k
  OBVIOUS
<1> HIDE DEF p
<1> SUFFICES ASSUME NEW x \in DOMAIN p
             PROVE  \E j \in 1 .. k : p[x].price = queue[j].price /\ p[x].id = queue[j].id
  BY DEF Drawn, p
<1>3. CASE x = Len(q) + 1
  BY <1>1, <1>2, <1>3
<1>4. CASE x \in 1 .. Len(q)
  BY <1>1, <1>2, <1>4 DEF Drawn
<1> QED BY <1>1, <1>3, <1>4

\* Order by order, what is drawn from a sorted queue is sorted.
LEMMA AppendSorted ==
  ASSUME NEW s, NEW R, NEW queue \in Seq(R), NEW q \in Seq(R), NEW k \in 1 .. Len(queue),
         Sorted(s, queue), Sorted(s, q), Drawn(q, queue, k - 1),
         NEW r \in R, r.price = queue[k].price
  PROVE  Sorted(s, Append(q, r))
<1> DEFINE p == Append(q, r)
<1>1. /\ Len(q) \in Nat /\ k \in Nat
      /\ DOMAIN p = 1 .. Len(q) + 1 /\ DOMAIN q = 1 .. Len(q)
      /\ p[Len(q) + 1] = r /\ \A x \in 1 .. Len(q) : p[x] = q[x]
  OBVIOUS
<1>2. k \in DOMAIN queue /\ \A j \in 1 .. k - 1 : j \in DOMAIN queue /\ j < k
  OBVIOUS
<1> HIDE DEF p
<1>3. ASSUME NEW x \in DOMAIN p, NEW y \in DOMAIN p, x < y
      PROVE  ~Better(s, p[y].price, p[x].price)
  <2>1. x \in 1 .. Len(q) /\ x \in DOMAIN q /\ p[x] = q[x]
    BY <1>1, <1>3
  <2>2. CASE y = Len(q) + 1
    <3>1. PICK j \in 1 .. k - 1 : q[x].price = queue[j].price
      BY <2>1 DEF Drawn
    <3>2. ~Better(s, queue[k].price, queue[j].price)
      BY <1>2, <3>1 DEF Sorted
    <3> QED BY <1>1, <2>1, <2>2, <3>1, <3>2
  <2>3. CASE y \in 1 .. Len(q)
    BY <1>1, <1>3, <2>1, <2>3 DEF Sorted
  <2> QED BY <1>1, <2>2, <2>3
<1> QED
  BY <1>3 DEF Sorted, p

\* What a sweep leaves of a queue: some of its orders, in their order, and none
\* when the order that swept has something left.
LEMMA SweepShape ==
  ASSUME NEW R, Shrinks(R), NEW o \in Orders, NEW queue \in Seq(R)
  PROVE  LET m == Sweep(queue, o)
         IN  /\ m \in Takings(R, o)
             /\ m.left > 0 => m.queue = <<>>
             /\ Drawn(m.queue, queue, Len(queue))
             /\ \A s : Sorted(s, queue) => Sorted(s, m.queue)
<1> DEFINE n == Len(queue)
<1>0. n \in Nat
  OBVIOUS
<1>1. PICK run \in [0 .. n -> Takings(R, o)] :
        Sweeping(run, queue, o) /\ Sweep(queue, o) = run[n]
  BY SweepRuns
<1>2. /\ run[0] = [left |-> o.quantity, queue |-> <<>>, fills |-> <<>>]
      /\ \A k \in 1 .. n : run[k] = Take(run[k - 1], queue[k], o)
  BY <1>1 DEF Sweeping
<1> DEFINE Good(k) == /\ run[k].left > 0 => run[k].queue = <<>>
                      /\ Drawn(run[k].queue, queue, k)
                      /\ \A s : Sorted(s, queue) => Sorted(s, run[k].queue)
           T == {k \in 0 .. n : ~Good(k)}
<1>3. Good(0)
  <2>1. run[0].queue = <<>>
    BY <1>2
  <2> QED BY <2>1 DEF Drawn, Sorted
<1>4. ASSUME NEW k \in 1 .. n, Good(k - 1)
      PROVE  Good(k)
  <2> DEFINE m == run[k - 1]
             r == queue[k]
             x == IF r.quantity < m.left THEN r.quantity ELSE m.left
             rest == [r EXCEPT !.quantity = r.quantity - x]
  <2>1. k - 1 \in 0 .. n
    BY <1>0
  <2>2. m \in Takings(R, o) /\ m.left \in Nat /\ m.queue \in Seq(R)
    BY <1>1, <2>1 DEF Takings
  <2>3. r \in R /\ r \in Orders /\ r.quantity \in Nat /\ r.quantity > 0
    BY DEF Shrinks, Orders
  <2>4. /\ run[k].left = m.left - x
        /\ run[k].queue = IF x = r.quantity THEN m.queue ELSE Append(m.queue, rest)
    <3>1. run[k] = Take(m, r, o)
      BY <1>2
    <3> HIDE DEF m, r
    <3>2. /\ Take(m, r, o).left = m.left - x
          /\ Take(m, r, o).queue =
               IF x = r.quantity THEN m.queue ELSE Append(m.queue, rest)
      BY DEF Take
    <3> QED BY <3>1, <3>2
  <2>5. x \in Nat /\ x =< r.quantity /\ x =< m.left
    BY <2>2, <2>3
  <2>6. CASE x = r.quantity
    <3>1. run[k].queue = m.queue
      BY <2>4, <2>6
    <3>2. Drawn(m.queue, queue, k)
      BY <1>4, <1>0 DEF Drawn
    <3>3. run[k].left > 0 => m.left > 0
      BY <2>2, <2>4, <2>5
    <3> HIDE DEF m
    <3> QED BY <1>4, <3>1, <3>2, <3>3 DEF m
  <2>7. CASE x # r.quantity
    <3>1. run[k].queue = Append(m.queue, rest) /\ x = m.left
      BY <2>2, <2>3, <2>4, <2>7
    <3>2. run[k].left = 0
      BY <2>2, <2>4, <3>1
    <3>3. rest \in R /\ rest.price = r.price /\ rest.id = r.id
      <4>1. r.quantity - x \in 1 .. r.quantity
        BY <2>3, <2>5, <2>7
      <4>2. rest \in R
        <5> HIDE DEF x
        <5> QED BY <2>3, <4>1 DEF Shrinks
      <4> QED BY <2>3, <4>2 DEF Orders
    <3> HIDE DEF m, rest, x
    <3>4. Drawn(m.queue, queue, k - 1)
      BY <1>4 DEF m
    <3>5. Drawn(Append(m.queue, rest), queue, k)
      BY <2>2, <3>3, <3>4, AppendDrawn
    <3>6. \A s : Sorted(s, queue) => Sorted(s, Append(m.queue, rest))
      <4> SUFFICES ASSUME NEW s, Sorted(s, queue)
                   PROVE  Sorted(s, Append(m.queue, rest))
        OBVIOUS
      <4>1. Sorted(s, m.queue)
        BY <1>4 DEF m
      <4> QED BY <2>2, <3>3, <3>4, <4>1, AppendSorted
    <3> QED BY <3>1, <3>2, <3>5, <3>6
  <2> QED BY <2>6, <2>7
<1> HIDE DEF Good
<1>5. T = {}
  <2> SUFFICES ASSUME T # {} PROVE FALSE
    OBVIOUS
  <2>1. PICK k \in T : \A j \in T : k =< j
    <3>1. T \in SUBSET Nat
      BY <1>0
    <3> HIDE DEF T
    <3> QED BY <3>1, LeastNumber
  <2>2. k # 0
    BY <1>3
  <2>3. k \in 1 .. n /\ k - 1 \in 0 .. n /\ k - 1 < k
    BY <1>0, <2>2
  <2>4. Good(k - 1)
    BY <2>1, <2>3
  <2> QED BY <1>4, <2>3, <2>4
<1>6. n \in 0 .. n
  BY <1>0
<1>7. Good(n) /\ run[n] \in Takings(R, o)
  BY <1>1, <1>5, <1>6
<1> QED
  BY <1>1, <1>7 DEF Good

\* What is left of a queue without some ids, in its order.
LEMMA WithoutShape ==
  ASSUME NEW R, NEW queue \in Seq(R), NEW ids
  PROVE  LET q == Without(queue, ids)
         IN  /\ q \in Seq({r \in R : r.id \notin ids})
             /\ Drawn(q, queue, Len(queue))
             /\ \A s : Sorted(s, queue) => Sorted(s, q)
<1> DEFINE n == Len(queue)
           Kept == {r \in R : r.id \notin ids}
<1>0. n \in Nat
  OBVIOUS
<1>1. PICK run \in [0 .. n -> Seq(Kept)] :
        /\ run[0] = <<>>
        /\ \A k \in 1 .. n : run[k] = IF queue[k].id \in ids THEN run[k - 1]
                                      ELSE Append(run[k - 1], queue[k])
        /\ Without(queue, ids) = run[n]
  BY WithoutRuns
<1> DEFINE Good(k) == /\ Drawn(run[k], queue, k)
                      /\ \A s : Sorted(s, queue) => Sorted(s, run[k])
           T == {k \in 0 .. n : ~Good(k)}
<1>3. Good(0)
  BY <1>1 DEF Drawn, Sorted
<1>4. ASSUME NEW k \in 1 .. n, Good(k - 1)
      PROVE  Good(k)
  <2> DEFINE q == run[k - 1]
             r == queue[k]
  <2>1. k - 1 \in 0 .. n
    BY <1>0
  <2>2. q \in Seq(Kept)
    BY <1>1, <2>1
  <2>3. q \in Seq(R) /\ r \in R
    BY <2>2
  <2>4. run[k] = IF r.id \in ids THEN q ELSE Append(q, r)
    BY <1>1
  <2>5. Drawn(q, queue, k - 1) /\ \A s : Sorted(s, queue) => Sorted(s, q)
    BY <1>4
  <2>6. Drawn(q, queue, k)
    BY <1>0, <2>5 DEF Drawn
  <2>7. r.price = queue[k].price /\ r.id = queue[k].id
    OBVIOUS
  <2> HIDE DEF q, r
  <2>8. Drawn(Append(q, r), queue, k)
    BY <2>3, <2>5, <2>7, AppendDrawn
  <2>9. \A s : Sorted(s, queue) => Sorted(s, Append(q, r))
    BY <2>3, <2>5, <2>7, AppendSorted
  <2> QED BY <2>4, <2>5, <2>6, <2>8, <2>9
<1> HIDE DEF Good
<1>5. T = {}
  <2> SUFFICES ASSUME T # {} PROVE FALSE
    OBVIOUS
  <2>1. PICK k \in T : \A j \in T : k =< j
    <3>1. T \in SUBSET Nat
      BY <1>0
    <3> HIDE DEF T
    <3> QED BY <3>1, LeastNumber
  <2>2. k # 0
    BY <1>3
  <2>3. k \in 1 .. n /\ k - 1 \in 0 .. n /\ k - 1 < k
    BY <1>0, <2>2
  <2>4. Good(k - 1)
    BY <2>1, <2>3
  <2> QED BY <1>4, <2>3, <2>4
<1>6. n \in 0 .. n
  BY <1>0
<1>7. Good(n) /\ run[n] \in Seq(Kept)
  BY <1>1, <1>5, <1>6
<1> QED
  BY <1>1, <1>7 DEF Good

\* Indexes without gaps from 1 on are as many as the last of them.
LEMMA FirstIndexes ==
  ASSUME NEW n \in Nat, NEW P \in SUBSET (1 .. n),
         \A k \in P : \A j \in 1 .. k : j \in P
  PROVE  Cardinality(P) \in 0 .. n /\ P = 1 .. Cardinality(P)
<1>1. CASE P = {}
  <2>1. Cardinality(P) = 0
    BY <1>1, FS_EmptySet
  <2> QED BY <1>1, <2>1
<1>2. CASE P # {}
  <2> DEFINE m == Max(P)
  <2>1. m \in P /\ \A k \in P : k =< m
    BY <1>2, GreatestIndex
  <2> HIDE DEF m
  <2>2. m \in 1 .. n /\ \A j \in 1 .. m : j \in P
    BY <2>1
  <2>4. P = 1 .. m
    <3>1. \A k \in P : k \in 1 .. m
      BY <2>1
    <3>2. \A k \in 1 .. m : k \in P
      BY <2>2
    <3> QED BY <3>1, <3>2
  <2>3. Cardinality(1 .. m) = m
    BY <2>2, FS_Interval
  <2> QED BY <2>2, <2>3, <2>4
<1> QED BY <1>1, <1>2

\* q is queue with o after its first k elements.
Extends(q, queue, k, o) ==
  /\ Len(q) = Len(queue) + 1
  /\ \A x \in 1 .. k : q[x] = queue[x]
  /\ q[k + 1] = o
  /\ \A x \in k + 2 .. Len(queue) + 1 : q[x] = queue[x - 1]

\* An order inserted after the k-th extends the queue at that place.
LEMMA Inserted ==
  ASSUME NEW R, NEW queue \in Seq(R), NEW k, k \in 0 .. Len(queue), NEW o \in R
  PROVE  /\ InsertAt(queue, k + 1, o) \in Seq(R)
         /\ Extends(InsertAt(queue, k + 1, o), queue, k, o)
<1> DEFINE n == Len(queue)
           q == InsertAt(queue, k + 1, o)
           a == SubSeq(queue, 1, k)
           c == SubSeq(queue, k + 1, n)
           b == a \o <<o>>
<1>0. n \in Nat /\ k \in Nat /\ k =< n /\ \A x \in 1 .. n : queue[x] \in R
  OBVIOUS
<1>1. q = b \o c
  <2>1. (k + 1) - 1 = k
    BY <1>0
  <2> QED BY <2>1 DEF InsertAt
<1>2. /\ a \in Seq(R) /\ Len(a) = k
      /\ \A x \in 1 .. k : a[x] = queue[x]
  <2>1. Len(a) = k /\ \A x \in 1 .. k : a[x] = queue[x] 
    BY <1>0
  <2>2. a \in Seq(R)
    BY <1>0
  <2> QED BY <2>1, <2>2
<1>3. /\ c \in Seq(R) /\ Len(c) = n - k
      /\ \A x \in 1 .. n - k : c[x] = queue[k + x]
  <2>1. Len(c) = n - k /\ \A x \in 1 .. n - k : c[x] = queue[k + x]
    BY <1>0
  <2>2. c \in Seq(R)
    BY <1>0
  <2> QED BY <2>1, <2>2
<1> HIDE DEF q, a, c, n
<1>4. /\ b \in Seq(R) /\ Len(b) = k + 1
  BY <1>0, <1>2
<1>5. /\ b[k + 1] = o /\ \A x \in 1 .. k : b[x] = queue[x]
  BY <1>0, <1>2
<1> HIDE DEF b
<1>6. q \in Seq(R) /\ Len(q) = n + 1
  <2>1. q \in Seq(R)
    BY <1>1, <1>3, <1>4
  <2>2. Len(q) = Len(b) + Len(c)
    <3>1. b \in Seq(R) /\ c \in Seq(R)
      BY <1>3, <1>4
    <3>2. Len(b \o c) = Len(b) + Len(c)
      BY <3>1
    <3> QED BY <1>1, <3>2
  <2> QED BY <1>0, <1>3, <1>4, <2>1, <2>2
<1>7. \A x \in 1 .. k + 1 : q[x] = b[x]
  BY <1>0, <1>1, <1>3, <1>4
<1>8. ASSUME NEW x \in k + 2 .. n + 1 PROVE q[x] = queue[x - 1]
  <2>1. q[x] = c[x - (k + 1)]
    BY <1>0, <1>1, <1>3, <1>4
  <2>2. x - (k + 1) \in 1 .. n - k /\ k + (x - (k + 1)) = x - 1
    BY <1>0
  <2> QED BY <1>3, <2>1, <2>2
<1>9. \A x \in 1 .. k : q[x] = queue[x]
  BY <1>0, <1>5, <1>7
<1>10. q[k + 1] = o
  BY <1>0, <1>5, <1>7
<1> QED BY <1>6, <1>8, <1>9, <1>10 DEF q, n, Extends

\* The place of an order that comes to rest: behind all that are no worse.
LEMMA RestShape ==
  ASSUME NEW s \in Side, NEW R, R \subseteq Restable(s), NEW queue \in Seq(R), NEW o \in R
  PROVE  LET q == Rest(queue, o)
         IN  /\ q \in Seq(R)
             /\ \A x \in DOMAIN q : q[x] = o \/ \E j \in DOMAIN queue : q[x] = queue[j]
             /\ Sorted(s, queue) => Sorted(s, q)
<1> DEFINE n == Len(queue)
           P == {i \in DOMAIN queue : ~Better(o.side, o.price, queue[i].price)}
           k == Cardinality(P)
           q == Rest(queue, o)
<1>0. n \in Nat /\ DOMAIN queue = 1 .. n /\ o.side = s
  BY DEF Restable
<1>1. P \subseteq 1 .. n /\ k \in 0 .. n
  <2>1. P \subseteq 1 .. n /\ IsFiniteSet(1 .. n) /\ Cardinality(1 .. n) = n
    BY <1>0, FS_Interval
  <2>2. k =< n /\ IsFiniteSet(P)
    <3> DEFINE D == 1 .. n
    <3>1. IsFiniteSet(D) /\ Cardinality(D) = n /\ P \in SUBSET D
      BY <2>1
    <3> HIDE DEF D, P
    <3> QED BY <3>1, FS_Subset
  <2>3. k \in Nat
    BY <2>2, FS_CardinalityType
  <2> QED BY <1>0, <2>1, <2>2, <2>3
<1>2. q = InsertAt(queue, k + 1, o)
  BY DEF Rest
<1> HIDE DEF P, k
<1>3. /\ Len(q) = n + 1 /\ q \in Seq(R)
      /\ \A x \in 1 .. k : q[x] = queue[x]
      /\ q[k + 1] = o
      /\ \A x \in k + 2 .. n + 1 : q[x] = queue[x - 1]
  <2>1. k \in 0 .. Len(queue)
    BY <1>1
  <2> HIDE DEF q, n
  <2>2. q \in Seq(R) /\ Extends(q, queue, k, o)
    BY <1>2, <2>1, Inserted
  <2> QED BY <2>2 DEF n, Extends
<1> HIDE DEF q
<1>4. ASSUME NEW x \in DOMAIN q
      PROVE  q[x] = o \/ \E j \in DOMAIN queue : q[x] = queue[j]
  <2>1. x \in 1 .. n + 1
    BY <1>3
  <2>2. CASE x \in 1 .. k
    BY <1>0, <1>1, <1>3, <2>2
  <2>3. CASE x = k + 1
    BY <1>3, <2>3
  <2>4. CASE x \in k + 2 .. n + 1
    <3>1. x - 1 \in DOMAIN queue
      BY <1>0, <1>1, <2>4
    <3> QED BY <1>3, <2>4, <3>1
  <2> QED BY <1>0, <1>1, <2>1, <2>2, <2>3, <2>4
<1>5. ASSUME Sorted(s, queue)
      PROVE  Sorted(s, q)
  <2>1. o.price \in Int /\ \A i \in 1 .. n : queue[i].price \in Int
    BY <1>0 DEF Restable, Orders
  <2>2. ASSUME NEW i \in P, NEW j \in 1 .. i PROVE j \in P
    <3>1. i \in 1 .. n /\ j \in 1 .. n /\ ~Better(s, o.price, queue[i].price)
      BY <1>0, <1>1 DEF P
    <3>2. j < i => ~Better(s, queue[i].price, queue[j].price)
      BY <1>0, <1>5, <3>1 DEF Sorted
    <3>3. ~Better(s, o.price, queue[j].price)
      BY <2>1, <3>1, <3>2 DEF Better
    <3> QED BY <1>0, <3>1, <3>3 DEF P
  <2>3. P = 1 .. k
    BY <1>0, <1>1, <2>2, FirstIndexes DEF k
  <2>4. /\ \A i \in 1 .. k : ~Better(s, o.price, queue[i].price)
        /\ \A i \in k + 1 .. n : Better(s, o.price, queue[i].price)
    <3>1. \A i \in 1 .. n : i \in P <=> ~Better(s, o.price, queue[i].price)
      BY <1>0 DEF P
    <3> QED BY <1>0, <1>1, <2>3, <3>1
  <2> SUFFICES ASSUME NEW x \in DOMAIN q, NEW y \in DOMAIN q, x < y
               PROVE  ~Better(s, q[y].price, q[x].price)
    BY DEF Sorted
  <2>5. x \in 1 .. n + 1 /\ y \in 1 .. n + 1
    BY <1>3
  <2>6. \A i, j \in 1 .. n : i < j => ~Better(s, queue[j].price, queue[i].price)
    BY <1>0, <1>5 DEF Sorted
  <2>7. CASE y \in 1 .. k
    BY <1>0, <1>1, <1>3, <2>5, <2>6, <2>7
  <2>8. CASE y = k + 1
    <3>1. x \in 1 .. k
      BY <1>1, <2>5, <2>8
    <3> QED BY <1>3, <2>4, <2>8, <3>1
  <2>9. CASE y \in k + 2 .. n + 1
    <3>1. y - 1 \in k + 1 .. n /\ y - 1 \in 1 .. n /\ q[y] = queue[y - 1]
      BY <1>0, <1>1, <1>3, <2>9
    <3>2. CASE x \in 1 .. k
      BY <1>0, <1>1, <1>3, <2>6, <3>1, <3>2
    <3>3. CASE x = k + 1
      BY <1>3, <2>1, <2>4, <3>1, <3>3 DEF Better
    <3>4. CASE x \in k + 2 .. n + 1
      <4>1. x - 1 \in 1 .. n /\ q[x] = queue[x - 1] /\ x - 1 < y - 1
        BY <1>0, <1>1, <1>3, <2>9, <3>4
      <4> QED BY <2>6, <3>1, <4>1
    <3> QED BY <1>0, <1>1, <2>5, <3>2, <3>3, <3>4
  <2> QED BY <1>0, <1>1, <2>5, <2>7, <2>8, <2>9
<1> QED
  BY <1>3, <1>4, <1>5 DEF q

\* A sequence over a set is one over any larger set.
LEMMA SeqWider ==
  ASSUME NEW S, NEW T, S \subseteq T, NEW q \in Seq(S)
  PROVE  q \in Seq(T)
  OBVIOUS

\* What rests has a price.
LEMMA RestablePrices ==
  ASSUME NEW s, NEW q \in Seq(Restable(s))
  PROVE  \A k \in DOMAIN q : q[k] \in Orders /\ q[k].price \in Int
<1>1. \A r \in Restable(s) : r \in Orders /\ r.price \in Int
  BY DEF Restable, Orders
<1> QED BY <1>1

\* Every order of q has the price and the id of one of queue.
Kin(q, queue) ==
  \A x \in DOMAIN q :
    \E j \in DOMAIN queue : q[x].price = queue[j].price /\ q[x].id = queue[j].id

\* What a submitted order o makes of book b.
Submitted(b, o, c) ==
  /\ Filed(c)
  /\ Kin(c[Opposite(o.side)], b[Opposite(o.side)])
  /\ \A x \in DOMAIN c[o.side] :
       \/ \E j \in DOMAIN b[o.side] : /\ c[o.side][x].price = b[o.side][j].price
                                      /\ c[o.side][x].id = b[o.side][j].id
       \/ o.kind = "GTC" /\ c[o.side][x].price = o.price /\ c[o.side][x].id = o.id
  /\ \A s \in Side : Sorted(s, b[s]) => Sorted(s, c[s])
  /\ \/ c[o.side] = b[o.side]
     \/ c[Opposite(o.side)] = <<>>
     \/ c[Opposite(o.side)] = b[Opposite(o.side)] /\ ~Marketable(b, o)

\* The fills it returns: with orders that rest on the other side.
Filled(b, o, fills) ==
  /\ fills \in Seq([maker : {b[Opposite(o.side)][k].id : k \in DOMAIN b[Opposite(o.side)]},
                    taker : {o.id}, price : Int, quantity : Nat,
                    aggressor_side : {o.side}])
  /\ fills # <<>> => Marketable(b, o)

\* submit trades with the other side, at its prices and in its order, and what
\* is left of a limit order rests on its own side.
LEMMA SubmitShape ==
  ASSUME NEW b, Filed(b), NEW o \in Orders
  PROVE  Submitted(b, o, Submit(b, o).book) /\ Filled(b, o, Submit(b, o).fills)
<1> DEFINE s == o.side
           t == Opposite(s)
           R == {r \in Restable(t) : \E k \in DOMAIN b[t] : r.id = b[t][k].id}
           m == IF Marketable(b, o) THEN Sweep(b[t], o)
                ELSE [left |-> o.quantity, queue |-> b[t], fills |-> <<>>]
           rest == [o EXCEPT !.quantity = m.left]
           own == IF o.kind = "GTC" /\ m.left > 0 THEN Rest(b[s], rest) ELSE b[s]
           c == Submit(b, o).book
<1>1. s \in Side /\ t \in Side /\ s # t /\ Side = {s, t}
  BY DEF Orders, Opposite, Side
<1>2. b[s] \in Seq(Restable(s)) /\ b[t] \in Seq(Restable(t))
  BY <1>1 DEF Filed
<1>3. /\ Submit(b, o).fills = m.fills
      /\ c = [x \in Side |-> IF x # s THEN m.queue ELSE own]
  <2>1. \A x \in Side : x # s \/ b[x] = b[s]
    BY <1>1
  <2> QED BY <1>1, <2>1 DEF Submit
<1> HIDE DEF s, t
<1>4. Shrinks(R)
  <2>1. R \subseteq Orders
    BY DEF Restable
  <2>2. ASSUME NEW r \in R, NEW x \in 1 .. r.quantity
        PROVE  [r EXCEPT !.quantity = x] \in R
    <3>1. r \in Orders /\ r.side = t /\ r.kind = "GTC"
      BY DEF Restable
    <3>2. x \in Nat \ {0}
      BY <3>1 DEF Orders
    <3>3. [r EXCEPT !.quantity = x] \in Orders
      BY <3>1, <3>2 DEF Orders
    <3>4. /\ [r EXCEPT !.quantity = x].side = t
          /\ [r EXCEPT !.quantity = x].kind = "GTC"
          /\ [r EXCEPT !.quantity = x].id = r.id
      BY <3>1 DEF Orders
    <3> QED BY <3>3, <3>4 DEF Restable
  <2> QED BY <2>1, <2>2 DEF Shrinks
<1>5. b[t] \in Seq(R)
  <2>1. \A k \in 1 .. Len(b[t]) : b[t][k] \in R
    BY <1>2
  <2> QED BY <1>2, <2>1
<1> HIDE DEF R
<1>6. /\ m.left \in Nat /\ m.queue \in Seq(R) /\ m.fills \in Seq(Trades(R, o))
      /\ Kin(m.queue, b[t])
      /\ Sorted(t, b[t]) => Sorted(t, m.queue)
      /\ Marketable(b, o) => m.left = 0 \/ m.queue = <<>>
      /\ ~Marketable(b, o) => m.queue = b[t] /\ m.fills = <<>>
  <2>1. CASE Marketable(b, o)
    <3> DEFINE p == Sweep(b[t], o)
    <3>1. /\ p \in Takings(R, o)
          /\ p.left > 0 => p.queue = <<>>
          /\ Drawn(p.queue, b[t], Len(b[t]))
          /\ \A x : Sorted(x, b[t]) => Sorted(x, p.queue)
      <4> DEFINE q == b[t]
      <4>1. q \in Seq(R)
        BY <1>5
      <4>2. LET w == Sweep(q, o)
            IN  /\ w \in Takings(R, o)
                /\ w.left > 0 => w.queue = <<>>
                /\ Drawn(w.queue, q, Len(q))
                /\ \A x : Sorted(x, q) => Sorted(x, w.queue)
        <5> HIDE DEF q
        <5> QED BY <4>1, <1>4, SweepShape
      <4> QED BY <4>2
    <3> HIDE DEF p
    <3>2. p.left \in Nat /\ p.queue \in Seq(R) /\ p.fills \in Seq(Trades(R, o))
      BY <3>1 DEF Takings
    <3>3. Kin(p.queue, b[t])
      <4>1. DOMAIN b[t] = 1 .. Len(b[t])
        BY <1>2
      <4> QED BY <3>1, <4>1 DEF Drawn, Kin
    <3>4. m = p
      BY <2>1 DEF p
    <3> HIDE DEF m
    <3> QED BY <2>1, <3>1, <3>2, <3>3, <3>4
  <2>2. CASE ~Marketable(b, o)
    <3>1. m.left = o.quantity /\ m.queue = b[t] /\ m.fills = <<>>
      BY <2>2
    <3>2. o.quantity \in Nat
      BY DEF Orders
    <3>3. Kin(b[t], b[t])
      BY DEF Kin
    <3> HIDE DEF m
    <3> QED BY <1>5, <2>2, <3>1, <3>2, <3>3
  <2> QED BY <2>1, <2>2
<1> HIDE DEF m
<1>7. /\ own \in Seq(Restable(s))
      /\ \A x \in DOMAIN own :
           \/ \E j \in DOMAIN b[s] : own[x].price = b[s][j].price /\ own[x].id = b[s][j].id
           \/ o.kind = "GTC" /\ own[x].price = o.price /\ own[x].id = o.id
      /\ Sorted(s, b[s]) => Sorted(s, own)
      /\ own = b[s] \/ m.left > 0
  <2>1. CASE o.kind = "GTC" /\ m.left > 0
    <3>1. rest \in Restable(s) /\ rest.price = o.price /\ rest.id = o.id
      <4>1. m.left \in Nat \ {0}
        BY <1>6, <2>1
      <4>2. rest \in Orders
        BY <4>1 DEF Orders
      <4>3. rest.price = o.price /\ rest.id = o.id /\ rest.kind = "GTC" /\ rest.side = s
        BY <2>1 DEF Orders, s
      <4> QED BY <4>2, <4>3 DEF Restable
    <3> HIDE DEF rest
    <3> DEFINE q == b[s]
    <3>2. q \in Seq(Restable(s))
      BY <1>2
    <3>3. LET w == Rest(q, rest)
          IN  /\ w \in Seq(Restable(s))
              /\ \A x \in DOMAIN w : w[x] = rest \/ \E j \in DOMAIN q : w[x] = q[j]
              /\ Sorted(s, q) => Sorted(s, w)
      <4> HIDE DEF q
      <4> QED BY <1>1, <3>1, <3>2, RestShape
    <3>4. own = Rest(q, rest)
      BY <2>1
    <3> HIDE DEF own
    <3> QED BY <2>1, <3>1, <3>3, <3>4
  <2>2. CASE ~(o.kind = "GTC" /\ m.left > 0)
    <3>1. own = b[s]
      BY <2>2
    <3> HIDE DEF own
    <3> QED BY <1>2, <3>1
  <2> QED BY <2>1, <2>2
<1> HIDE DEF own
<1>8. c[s] = own /\ c[t] = m.queue /\ DOMAIN c = Side /\ c = [x \in Side |-> c[x]]
  BY <1>1, <1>3
<1>9. m.queue \in Seq(Restable(t))
  <2>1. R \subseteq Restable(t)
    BY DEF R
  <2> QED BY <1>6, <2>1
<1> HIDE DEF c
<1>10. Filed(c)
  <2>1. \A x \in Side : c[x] \in Seq(Restable(x))
    BY <1>1, <1>7, <1>8, <1>9
  <2>2. \A x \in Side : c[x] \in Seq(Orders)
    <3>1. \A x : Restable(x) \subseteq Orders
      BY DEF Restable
    <3> QED BY <2>1, <3>1, SeqWider
  <2> QED BY <1>8, <2>1, <2>2 DEF Filed
<1>11. Submitted(b, o, c)
  <2>1. \A x \in Side : Sorted(x, b[x]) => Sorted(x, c[x])
    BY <1>1, <1>6, <1>7, <1>8
  <2>2. \/ c[s] = b[s]
        \/ c[t] = <<>>
        \/ c[t] = b[t] /\ ~Marketable(b, o)
    BY <1>6, <1>7, <1>8
  <2>3. Kin(c[t], b[t])
    BY <1>6, <1>8
  <2>4. \A x \in DOMAIN c[s] :
          \/ \E j \in DOMAIN b[s] : c[s][x].price = b[s][j].price /\ c[s][x].id = b[s][j].id
          \/ o.kind = "GTC" /\ c[s][x].price = o.price /\ c[s][x].id = o.id
    BY <1>7, <1>8
  <2> QED BY <1>10, <2>1, <2>2, <2>3, <2>4 DEF Submitted, s, t
<1>12. Filled(b, o, m.fills)
  <2>1. {r.id : r \in R} \subseteq {b[t][k].id : k \in DOMAIN b[t]}
    BY DEF R
  <2> DEFINE F == [maker : {b[t][k].id : k \in DOMAIN b[t]}, taker : {o.id},
                   price : Int, quantity : Nat, aggressor_side : {o.side}]
             G == Trades(R, o)
             f == m.fills
  <2>2. G \subseteq F
    BY <2>1 DEF Trades
  <2>3. f \in Seq(F)
    <3>1. f \in Seq(G)
      BY <1>6
    <3> HIDE DEF f, F, G
    <3> QED BY <2>2, <3>1, SeqWider
  <2>4. m.fills # <<>> => Marketable(b, o)
    BY <1>6
  <2> QED BY <2>3, <2>4 DEF Filled, s, t
<1> QED
  BY <1>3, <1>11, <1>12 DEF c

\* A book that is sorted and not crossed stays so.
LEMMA SubmitMarket ==
  ASSUME NEW b, Filed(b), Market(b), NEW o \in Orders,
         o.kind = "GTC" => o.price >= Tick,
         NEW c, Submitted(b, o, c)
  PROVE  Market(c)
<1> DEFINE s == o.side
           t == Opposite(s)
<1>1. s \in Side /\ t \in Side /\ s # t /\ Side = {s, t} /\ o.price \in Int
  BY DEF Orders, Opposite, Side
<1>2. /\ b[s] \in Seq(Restable(s)) /\ b[t] \in Seq(Restable(t))
      /\ c[s] \in Seq(Restable(s)) /\ c[t] \in Seq(Restable(t))
  BY <1>1 DEF Filed, Submitted
<1>3. /\ \A j \in DOMAIN b[s] : b[s][j].price \in Int
      /\ \A j \in DOMAIN b[t] : b[t][j].price \in Int
  BY <1>2, RestablePrices
<1>4. /\ \A x \in DOMAIN c[t] : \E j \in DOMAIN b[t] : c[t][x].price = b[t][j].price
      /\ \A x \in DOMAIN c[s] : \/ \E j \in DOMAIN b[s] : c[s][x].price = b[s][j].price
                                \/ o.kind = "GTC" /\ c[s][x].price = o.price
      /\ \/ c[s] = b[s]
         \/ c[t] = <<>>
         \/ c[t] = b[t] /\ ~Marketable(b, o)
  BY DEF Submitted, Kin
<1>5. Tick \in Int
  BY PriceAssumption
<1>6. Floored(c[s]) /\ Floored(c[t])
  <2>1. Floored(b[s]) /\ Floored(b[t])
    BY <1>1 DEF Market
  <2> QED BY <1>4, <2>1 DEF Floored
<1>7. Sorted(s, c[s]) /\ Sorted(t, c[t])
  BY <1>1 DEF Market, Submitted
<1> DEFINE Meet(p, q) == IF s = "Buy" THEN p >= q ELSE p =< q
<1>8. \A j \in DOMAIN b[s], k \in DOMAIN b[t] : ~Meet(b[s][j].price, b[t][k].price)
  BY <1>1, <1>3 DEF Market, Side
<1>9. ASSUME NEW j \in DOMAIN c[s], NEW k \in DOMAIN c[t]
      PROVE  ~Meet(c[s][j].price, c[t][k].price)
  <2>1. PICK i \in DOMAIN b[t] : c[t][k].price = b[t][i].price
    BY <1>4
  <2>2. CASE \E x \in DOMAIN b[s] : c[s][j].price = b[s][x].price
    <3> HIDE DEF Meet
    <3> QED BY <1>8, <2>1, <2>2
  <2>3. CASE /\ ~ \E x \in DOMAIN b[s] : c[s][j].price = b[s][x].price
             /\ o.kind = "GTC" /\ c[s][j].price = o.price
    <3>1. c[s] # b[s] /\ c[t] # <<>>
      BY <1>2, <2>3
    <3>2. ~Marketable(b, o) /\ b[t] # <<>>
      BY <1>4, <3>1
    <3>3. Better(s, b[t][1].price, o.price)
      BY <2>3, <3>2 DEF Marketable, Best
    <3>4. 1 \in DOMAIN b[t] /\ (i = 1 \/ 1 < i)
      BY <1>2, <3>2
    <3>5. i = 1 \/ ~Better(t, b[t][i].price, b[t][1].price)
      BY <1>1, <3>4 DEF Market, Sorted
    <3> QED BY <1>1, <1>3, <2>1, <2>3, <3>3, <3>4, <3>5 DEF Better, Opposite, Side
  <2> QED BY <1>4, <2>2, <2>3
<1>10. \A j \in DOMAIN c["Buy"], k \in DOMAIN c["Sell"] : c["Buy"][j].price < c["Sell"][k].price
  <2>1. \A x \in Side : \A j \in DOMAIN c[x] : c[x][j].price \in Int
    BY <1>1, <1>2 DEF Restable, Orders
  <2>2. CASE s = "Buy"
    <3>1. t = "Sell"
      BY <2>2 DEF Opposite
    <3>2. \A j \in DOMAIN c["Buy"], k \in DOMAIN c["Sell"] : ~(c["Buy"][j].price >= c["Sell"][k].price)
      BY <1>9, <2>2, <3>1
    <3> QED BY <2>1, <3>2 DEF Side
  <2>3. CASE s = "Sell"
    <3>1. t = "Buy"
      BY <2>3 DEF Opposite
    <3>2. \A j \in DOMAIN c["Buy"], k \in DOMAIN c["Sell"] : ~(c["Sell"][k].price =< c["Buy"][j].price)
      BY <1>9, <2>3, <3>1
    <3> QED BY <2>1, <3>2 DEF Side
  <2> QED BY <1>1, <2>2, <2>3 DEF Side
<1> QED
  BY <1>1, <1>6, <1>7, <1>10 DEF Market

\* What a cancel makes of a book: none of the ids, and nothing else.
LEMMA CancelShape ==
  ASSUME NEW b, Filed(b), NEW ids
  PROVE  LET c == Cancel(b, ids)
         IN  /\ Filed(c)
             /\ \A s \in Side : /\ Kin(c[s], b[s])
                                /\ \A k \in DOMAIN c[s] : c[s][k].id \notin ids
                                /\ Sorted(s, b[s]) => Sorted(s, c[s])
<1> DEFINE c == Cancel(b, ids)
<1>1. ASSUME NEW s \in Side
      PROVE  /\ c[s] \in Seq(Restable(s)) /\ c[s] \in Seq(Orders) /\ Kin(c[s], b[s])
             /\ \A k \in DOMAIN c[s] : c[s][k].id \notin ids
             /\ Sorted(s, b[s]) => Sorted(s, c[s])
  <2> DEFINE q == b[s]
             w == Without(q, ids)
             R == Restable(s)
  <2>1. q \in Seq(R) /\ DOMAIN q = 1 .. Len(q)
    BY DEF Filed
  <2>2. /\ w \in Seq({r \in R : r.id \notin ids})
        /\ Drawn(w, q, Len(q))
        /\ \A x : Sorted(x, q) => Sorted(x, w)
    <3> DEFINE p == Without(q, ids)
    <3>1. LET z == Without(q, ids)
          IN  /\ z \in Seq({r \in R : r.id \notin ids})
              /\ Drawn(z, q, Len(q))
              /\ \A x : Sorted(x, q) => Sorted(x, z)
      <4> HIDE DEF q, R
      <4> QED BY <2>1, WithoutShape
    <3> QED BY <3>1
  <2>3. c[s] = w
    BY DEF Cancel
  <2> HIDE DEF c, w, q
  <2>4. w \in Seq(R) /\ \A k \in DOMAIN w : w[k].id \notin ids
    <3> HIDE DEF R
    <3> QED BY <2>2
  <2>5. w \in Seq(Orders)
    BY <2>4 DEF Restable
  <2>6. Kin(w, q)
    BY <2>1, <2>2 DEF Drawn, Kin
  <2> QED BY <2>2, <2>3, <2>4, <2>5, <2>6 DEF q
<1>2. c = [s \in Side |-> c[s]] /\ DOMAIN c = Side
  BY DEF Cancel
<1> HIDE DEF c
<1>3. Filed(c)
  BY <1>1, <1>2 DEF Filed
<1> QED BY <1>1, <1>3 DEF c

\* A cancel takes no side out of order, and crosses nothing.
LEMMA CancelMarket ==
  ASSUME NEW b, Filed(b), Market(b), NEW ids
  PROVE  Market(Cancel(b, ids))
<1> DEFINE c == Cancel(b, ids)
<1>1. \A s \in Side : Kin(c[s], b[s]) /\ (Sorted(s, b[s]) => Sorted(s, c[s]))
  BY CancelShape
<1> HIDE DEF c
<1>2. "Buy" \in Side /\ "Sell" \in Side
  BY DEF Side
<1>3. \A s \in Side : Floored(c[s])
  BY <1>1 DEF Kin, Floored, Market
<1>4. \A j \in DOMAIN c["Buy"], k \in DOMAIN c["Sell"] : c["Buy"][j].price < c["Sell"][k].price
  BY <1>1, <1>2 DEF Kin, Market
<1> QED BY <1>1, <1>3, <1>4 DEF Market, c

-----------------------------------------------------------------------------
(* What the agents want.                                                     *)

\* The greater and the lesser of two numbers.
LEMMA MaxOfTwo ==
  ASSUME NEW a \in Int, NEW b \in Int
  PROVE  /\ Max({a, b}) = (IF a >= b THEN a ELSE b)
         /\ Min({a, b}) = (IF a =< b THEN a ELSE b)
<1> DEFINE S == {a, b}
           x == IF a >= b THEN a ELSE b
           y == IF a =< b THEN a ELSE b
<1>1. x \in S /\ (\A z \in S : x >= z) /\ \A u \in S : (\A z \in S : u >= z) => u = x
  OBVIOUS
<1>2. y \in S /\ (\A z \in S : y =< z) /\ \A u \in S : (\A z \in S : u =< z) => u = y
  OBVIOUS
<1> HIDE DEF S, x, y
<1>3. Max(S) = x
  BY <1>1 DEF Max
<1>4. Min(S) = y
  BY <1>2 DEF Min
<1> QED BY <1>3, <1>4 DEF S, x, y

\* What an agent, or an event of a history, may ask for.
Wish == [side : Side, price : Int, quantity : Nat \ {0}, kind : {"GTC", "IOC", "Market"}]
          \cup History

\* A wish, an agent's or the history's, has a side, a price and a quantity.
LEMMA WishType ==
  ASSUME NEW w \in Wish
  PROVE  /\ w.side \in Side /\ w.price \in Int /\ w.quantity \in Nat \ {0}
         /\ w.kind \in {"GTC", "IOC", "Market"}
  BY HistoryAssumption DEF Wish

\* A limit order is a wish.
LEMMA LimitType ==
  ASSUME NEW s \in Side, NEW price \in Int, NEW quantity \in Nat \ {0}
  PROVE  /\ Limit(s, price, quantity) \in Wish
         /\ Limit(s, price, quantity).kind = "GTC"
         /\ Limit(s, price, quantity).side = s
         /\ Limit(s, price, quantity).price = price
  BY DEF Limit, Wish

\* A side that is not missing has a best price.
LEMMA MissingSides ==
  ASSUME NEW b, Filed(b)
  PROVE  /\ Missing(b) \in Seq(Side) /\ Len(Missing(b)) =< 2
         /\ Missing(b) = <<>> => /\ \A s \in Side : b[s] # <<>> /\ 1 \in DOMAIN b[s]
                                                    /\ Best(b, s) = b[s][1].price
                                                    /\ Best(b, s) \in Int
<1> DEFINE x == IF b["Buy"] = <<>> THEN <<"Buy">> ELSE <<>>
           y == IF b["Sell"] = <<>> THEN <<"Sell">> ELSE <<>>
<1>1. Missing(b) = x \o y
  BY DEF Missing
<1>2. x \in Seq(Side) /\ y \in Seq(Side) /\ Len(x) =< 1 /\ Len(y) =< 1
  <2>1. <<"Buy">> \in Seq(Side) /\ <<"Sell">> \in Seq(Side)
    BY DEF Side
  <2>2. <<>> \in Seq(Side) /\ Len(<<>>) = 0 /\ Len(<<"Buy">>) = 1 /\ Len(<<"Sell">>) = 1
    OBVIOUS
  <2>3. x \in {<<>>, <<"Buy">>} /\ y \in {<<>>, <<"Sell">>}
    OBVIOUS
  <2> HIDE DEF x, y
  <2>4. x \in Seq(Side) /\ y \in Seq(Side)
    BY <2>1, <2>2, <2>3
  <2>5. Len(x) \in {0, 1} /\ Len(y) \in {0, 1}
    BY <2>2, <2>3
  <2>6. Len(x) =< 1 /\ Len(y) =< 1
    BY <2>5
  <2> QED BY <2>4, <2>6
<1>3. /\ x = <<>> <=> b["Buy"] # <<>>
      /\ y = <<>> <=> b["Sell"] # <<>>
  OBVIOUS
<1>4. x \o y \in Seq(Side) /\ Len(x \o y) = Len(x) + Len(y)
  <2> HIDE DEF x, y
  <2> QED BY <1>2
<1>5. x \o y = <<>> => x = <<>> /\ y = <<>>
  <2> HIDE DEF x, y
  <2>1. Len(x) \in Nat /\ Len(y) \in Nat
    BY <1>2
  <2>2. x \o y = <<>> => Len(x) = 0 /\ Len(y) = 0
    BY <1>4, <2>1
  <2> QED BY <1>2, <2>2
<1> HIDE DEF x, y
<1>6. Missing(b) = <<>> => \A s \in Side : b[s] # <<>>
  BY <1>1, <1>3, <1>5 DEF Side
<1>7. ASSUME NEW s \in Side, b[s] # <<>>
      PROVE  1 \in DOMAIN b[s] /\ Best(b, s) = b[s][1].price /\ Best(b, s) \in Int
  <2>1. b[s] \in Seq(Restable(s))
    BY DEF Filed
  <2>2. 1 \in DOMAIN b[s] /\ Head(b[s]) = b[s][1]
    BY <1>7, <2>1
  <2>3. b[s][1].price \in Int
    BY <2>1, <2>2, RestablePrices
  <2> QED BY <2>2, <2>3 DEF Best
<1> QED
  <2>1. Missing(b) \in Seq(Side) /\ Len(Missing(b)) =< 2
    BY <1>1, <1>2, <1>4
  <2> QED BY <1>6, <1>7, <2>1

\* What a RandomAgent wants is well formed.
LEMMA RandomWishesType ==
  ASSUME NEW b, Filed(b), NEW wishes \in RandomWishes(b)
  PROVE  wishes \in Seq(Wish)
<1> DEFINE missing == Missing(b)
<1>0. /\ BasePrice \in Int /\ Tick \in Nat /\ TickRange \in Nat /\ MaxQuantity \in Nat
  BY PriceAssumption
<1>1. missing \in Seq(Side)
  BY MissingSides
<1>2. CASE missing # <<>>
  <2>1. PICK d \in [DOMAIN missing -> 1 .. TickRange], q \in [DOMAIN missing -> 1 .. MaxQuantity] :
          wishes = [k \in DOMAIN missing |->
                      Limit(missing[k], Away(missing[k], BasePrice, Tick * d[k]), q[k])]
    BY <1>2 DEF RandomWishes
  <2> HIDE DEF missing
  <2>2. ASSUME NEW k \in DOMAIN missing
        PROVE  Limit(missing[k], Away(missing[k], BasePrice, Tick * d[k]), q[k]) \in Wish
    <3>1. missing[k] \in Side
      BY <1>1
    <3>2. d[k] \in Int /\ q[k] \in Nat \ {0}
      BY <1>0
    <3>3. Tick * d[k] \in Int
      BY <1>0, <3>2
    <3>4. Away(missing[k], BasePrice, Tick * d[k]) \in Int
      BY <1>0, <3>3 DEF Away
    <3> QED BY <3>1, <3>2, <3>4, LimitType
  <2>3. DOMAIN missing = 1 .. Len(missing) /\ Len(missing) \in Nat
    BY <1>1
  <2> QED BY <2>1, <2>2, <2>3
<1>3. CASE missing = <<>>
  <2> DEFINE mid == (Best(b, "Buy") + Best(b, "Sell")) \div 2
  <2>1. PICK s \in Side, d \in 0 .. TickRange, q \in 1 .. MaxQuantity :
          wishes = <<Limit(s, Max({Away(s, mid, Tick * d), Tick}), q)>>
    <3> DEFINE form(s, d, q) == <<Limit(s, Max({Away(s, mid, Tick * d), Tick}), q)>>
    <3>1. RandomWishes(b) = {form(s, d, q) : s \in Side, d \in 0 .. TickRange, q \in 1 .. MaxQuantity}
      BY <1>3 DEF RandomWishes
    <3> HIDE DEF form
    <3>2. \E s \in Side, d \in 0 .. TickRange, q \in 1 .. MaxQuantity : wishes = form(s, d, q)
      BY <3>1
    <3> QED BY <3>2 DEF form
  <2>2. mid \in Int
    <3>1. Best(b, "Buy") \in Int /\ Best(b, "Sell") \in Int
      BY <1>3, MissingSides DEF Side
    <3> QED BY <3>1
  <2> HIDE DEF mid
  <2>3. Tick * d \in Int /\ q \in Nat \ {0}
    BY <1>0
  <2>4. Away(s, mid, Tick * d) \in Int
    BY <2>2, <2>3 DEF Away
  <2>5. Max({Away(s, mid, Tick * d), Tick}) \in Int
    BY <1>0, <2>4, MaxOfTwo
  <2>6. Limit(s, Max({Away(s, mid, Tick * d), Tick}), q) \in Wish
    BY <2>3, <2>5, LimitType
  <2> QED BY <2>1, <2>6
<1> QED BY <1>2, <1>3

\* What a policy wants is well formed.
LEMMA PlayerWishesType ==
  ASSUME NEW b, Filed(b), NEW wishes \in PlayerWishes(b)
  PROVE  wishes \in Seq(Wish)
<1>1. CASE wishes = <<>>
  BY <1>1
<1>2. CASE wishes # <<>>
  <2>1. Missing(b) = <<>>
    BY <1>2 DEF PlayerWishes
  <2>2. \A s \in Side : Best(b, s) \in Int /\ Opposite(s) \in Side
    BY <2>1, MissingSides DEF Opposite, Side
  <2>3. PICK s \in Side : \/ wishes = <<Limit(s, Best(b, s), 1)>>
                          \/ wishes = <<[Limit(s, Best(b, Opposite(s)), 1) EXCEPT !.kind = "IOC"]>>
    BY <1>2 DEF PlayerWishes
  <2>4. Limit(s, Best(b, s), 1) \in Wish
    BY <2>2, LimitType
  <2>5. [Limit(s, Best(b, Opposite(s)), 1) EXCEPT !.kind = "IOC"] \in Wish
    <3>1. Best(b, Opposite(s)) \in Int
      BY <2>2
    <3> QED BY <3>1 DEF Limit, Wish
  <2>6. \A w \in Wish : <<w>> \in Seq(Wish)
    OBVIOUS
  <2> QED BY <2>3, <2>4, <2>5, <2>6
<1> QED BY <1>1, <1>2

\* The lower of two positive numbers is positive.
LEMMA MinPositive ==
  ASSUME NEW a \in Nat \ {0}, NEW b \in Nat \ {0}
  PROVE  Min({a, b}) \in Nat \ {0}
<1>1. a \in Int /\ b \in Int
  OBVIOUS
<1>2. Min({a, b}) = IF a =< b THEN a ELSE b
  BY <1>1, MaxOfTwo
<1> QED BY <1>2

\* Nothing, or one order at a best price: a sale of what there is too much of,
\* unless it is short.
Unwinding(u, b, q) ==
  \/ u = <<>>
  \/ \E w \in Wish :
       /\ u = <<w>>
       /\ w.kind = "GTC" /\ w.price \in {Best(b, "Buy"), Best(b, "Sell")}
       /\ q >= 0 => q > MaxInventory /\ w.side = "Sell"

\* A market maker that is not short unwinds by a sale, and only above its limit.
LEMMA UnwindShape ==
  ASSUME NEW b, Filed(b), Missing(b) = <<>>, NEW m, NEW q \in Int
  PROVE  Unwinding(Unwind(b, m, q), b, q)
<1>0. MaxInventory \in Nat /\ Quote \in Nat \ {0}
  BY PriceAssumption
<1>1. Best(b, "Buy") \in Int /\ Best(b, "Sell") \in Int /\ "Buy" \in Side /\ "Sell" \in Side
  BY MissingSides DEF Side
<1>2. CASE q > 2 * MaxInventory
  <2> DEFINE w == Limit("Sell", Best(b, "Buy"), Min({Quote, q - MaxInventory}))
  <2>1. q - MaxInventory \in Nat \ {0}
    BY <1>0, <1>2
  <2>2. Min({Quote, q - MaxInventory}) \in Nat \ {0}
    BY <1>0, <2>1, MinPositive
  <2>3. w \in Wish /\ w.kind = "GTC" /\ w.side = "Sell" /\ w.price = Best(b, "Buy")
    BY <1>1, <2>2, LimitType
  <2>4. Unwind(b, m, q) = <<w>>
    <3>1. ~(q \in MaxInventory + 1 .. 2 * MaxInventory) /\ ~(q < -2 * MaxInventory)
      BY <1>0, <1>2
    <3> QED BY <1>2, <3>1 DEF Unwind
  <2>5. q > MaxInventory
    BY <1>0, <1>2
  <2> HIDE DEF w
  <2> QED BY <2>3, <2>4, <2>5 DEF Unwinding
<1>3. CASE q \in MaxInventory + 1 .. 2 * MaxInventory
  <2> DEFINE w == Limit("Sell", Best(b, "Buy"), Min({Quote, q - MaxInventory \div 2}))
  <2>1. q - MaxInventory \div 2 \in Nat \ {0}
    BY <1>0, <1>3
  <2>2. Min({Quote, q - MaxInventory \div 2}) \in Nat \ {0}
    BY <1>0, <2>1, MinPositive
  <2>3. w \in Wish /\ w.kind = "GTC" /\ w.side = "Sell" /\ w.price = Best(b, "Buy")
    BY <1>1, <2>2, LimitType
  <2>4. Unwind(b, m, q) = <<w>> \/ Unwind(b, m, q) = <<>>
    <3>1. ~(q > 2 * MaxInventory) /\ ~(q < -2 * MaxInventory)
      BY <1>0, <1>3
    <3> QED BY <1>3, <3>1 DEF Unwind
  <2>5. q > MaxInventory
    BY <1>0, <1>3
  <2> HIDE DEF w
  <2> QED BY <2>3, <2>4, <2>5 DEF Unwinding
<1>4. CASE q < -2 * MaxInventory
  <2> DEFINE w == Limit("Buy", Best(b, "Sell"), Min({Quote, -q - MaxInventory}))
  <2>1. -q - MaxInventory \in Nat \ {0} /\ ~(q >= 0)
    BY <1>0, <1>4
  <2>2. Min({Quote, -q - MaxInventory}) \in Nat \ {0}
    BY <1>0, <2>1, MinPositive
  <2>3. w \in Wish /\ w.kind = "GTC" /\ w.price = Best(b, "Sell")
    BY <1>1, <2>2, LimitType
  <2>4. Unwind(b, m, q) = <<w>>
    <3>1. ~(q > 2 * MaxInventory) /\ ~(q \in MaxInventory + 1 .. 2 * MaxInventory)
      BY <1>0, <1>4
    <3> QED BY <1>4, <3>1 DEF Unwind
  <2> HIDE DEF w
  <2> QED BY <2>1, <2>3, <2>4 DEF Unwinding
<1>5. CASE ~(q > 2 * MaxInventory) /\ ~(q \in MaxInventory + 1 .. 2 * MaxInventory) /\ ~(q < -2 * MaxInventory)
  <2>1. Unwind(b, m, q) = <<>>
    BY <1>5 DEF Unwind
  <2> QED BY <2>1 DEF Unwinding
<1> QED BY <1>2, <1>3, <1>4, <1>5

\* Quotes are put together from a bid that may be missing, an ask and the rest.
LEMMA ConcatShape ==
  ASSUME NEW W, NEW x \in Seq(W), NEW a \in W, NEW u \in Seq(W), NEW w, w = x \o <<a>> \o u
  PROVE  /\ w \in Seq(W) /\ Len(w) = Len(x) + 1 + Len(u)
         /\ \A k \in 1 .. Len(x) : w[k] = x[k]
         /\ w[Len(x) + 1] = a
         /\ \A k \in 1 .. Len(u) : w[Len(x) + 1 + k] = u[k]
<1> DEFINE p == x \o <<a>>
<1>0. Len(x) \in Nat /\ Len(u) \in Nat
  OBVIOUS
<1>1. /\ p \in Seq(W) /\ Len(p) = Len(x) + 1 /\ p[Len(x) + 1] = a
  OBVIOUS
<1>2. \A k \in 1 .. Len(x) : p[k] = x[k]
  OBVIOUS
<1>3. w = p \o u
  OBVIOUS
<1> HIDE DEF p
<1>4. w \in Seq(W)
  BY <1>1, <1>3
<1>5. Len(w) = Len(p) + Len(u)
  <2>1. p \in Seq(W)
    BY <1>1
  <2>2. Len(p \o u) = Len(p) + Len(u)
    BY <2>1
  <2> QED BY <1>3, <2>2
<1>6. \A k \in 1 .. Len(p) : w[k] = p[k]
  <2>1. p \in Seq(W)
    BY <1>1
  <2> QED BY <1>3, <2>1
<1>7. \A k \in 1 .. Len(u) : w[Len(p) + k] = u[k]
  <2>1. p \in Seq(W)
    BY <1>1
  <2> QED BY <1>3, <2>1
<1>8. Len(w) = Len(x) + 1 + Len(u)
  BY <1>0, <1>1, <1>5
<1>9. /\ \A k \in 1 .. Len(x) : w[k] = x[k]
      /\ w[Len(x) + 1] = a
  BY <1>0, <1>1, <1>2, <1>6
<1>10. \A k \in 1 .. Len(u) : w[Len(x) + 1 + k] = u[k]
  BY <1>1, <1>7
<1> QED BY <1>4, <1>8, <1>9, <1>10

\* The quotes w of a market maker with inventory q in book b: a bid while it may
\* buy, an ask, and what unwinds.
Bid(b, q) == Limit("Buy", BidPrice(b, q), Quote)
Ask(b) == Limit("Sell", AskPrice(b), Quote)
Quotes(w, b, q) ==
  \E h \in {0, 1} :
    /\ Len(w) \in {h + 1, h + 2}
    /\ h = 1 <=> q < MaxInventory
    /\ h = 1 => w[1] = Bid(b, q)
    /\ w[h + 1] = Ask(b)
    /\ Len(w) = h + 2 =>
         /\ w[h + 2].kind = "GTC" /\ w[h + 2].price \in {Best(b, "Buy"), Best(b, "Sell")}
         /\ q >= 0 => h = 0 /\ w[h + 2].side = "Sell"

\* Prices of the quotes are numbers, and the orders are orders.
LEMMA QuotePrices ==
  ASSUME NEW b, Filed(b), Missing(b) = <<>>, NEW q \in Int
  PROVE  /\ BidPrice(b, q) \in Int /\ AskPrice(b) \in Int
         /\ Improvement(b) = (IF Spread(b) > 2 THEN 1 ELSE 0) /\ Spread(b) \in Int
         /\ Bid(b, q) \in Wish /\ Ask(b) \in Wish
<1> DEFINE D == Best(b, "Buy")
           A == Best(b, "Sell")
           skew == Min({Max({q, -q}) \div SkewUnit, Spread(b) \div 3})
<1>0. Quote \in Nat \ {0} /\ SkewUnit \in Nat \ {0} /\ Tick \in Int
  BY PriceAssumption
<1>1. D \in Int /\ A \in Int /\ "Buy" \in Side /\ "Sell" \in Side
  BY MissingSides DEF Side
<1>2. Spread(b) \in Int /\ Spread(b) \div 3 \in Int
  BY <1>1 DEF Spread
<1>3. Max({q, -q}) \in Int
  BY MaxOfTwo
<1>4. Max({q, -q}) \div SkewUnit \in Int
  BY <1>0, <1>3
<1>5. skew \in Int
  <2>1. \A x, y \in Int : Min({x, y}) \in Int
    BY MaxOfTwo
  <2> QED BY <1>2, <1>4, <2>1
<1> HIDE DEF skew
<1>6. Improvement(b) \in Int
  BY DEF Improvement
<1>7. BidPrice(b, q) = Max({D + Improvement(b) - (IF q > 0 THEN skew ELSE -skew), Tick})
  BY DEF BidPrice, skew
<1>8. BidPrice(b, q) \in Int
  <2>1. D + Improvement(b) - (IF q > 0 THEN skew ELSE -skew) \in Int
    BY <1>1, <1>5, <1>6
  <2>2. \A x, y \in Int : Max({x, y}) \in Int
    BY MaxOfTwo
  <2> QED BY <1>0, <1>7, <2>1, <2>2
<1>9. AskPrice(b) \in Int
  BY <1>1, <1>6 DEF AskPrice
<1> QED
  BY <1>0, <1>1, <1>2, <1>8, <1>9, LimitType DEF Bid, Ask, Improvement

\* With a best price on both sides a market maker makes Quotes.
LEMMA QuotesShape ==
  ASSUME NEW b, Filed(b), Missing(b) = <<>>, NEW m, inventory[m] \in Int
  PROVE  /\ MakerWishes(b, m) \in Seq(Wish)
         /\ Quotes(MakerWishes(b, m), b, inventory[m])
<1> DEFINE q == inventory[m]
           x == IF q < MaxInventory THEN <<Bid(b, q)>> ELSE <<>>
           u == Unwind(b, m, q)
           w == MakerWishes(b, m)
           h == IF q < MaxInventory THEN 1 ELSE 0
<1>1. w = x \o <<Ask(b)>> \o u
  BY DEF MakerWishes, Bid, Ask
<1>2. x \in Seq(Wish) /\ Len(x) = h /\ (h = 1 => x[1] = Bid(b, q))
  <2>1. Bid(b, q) \in Wish
    BY QuotePrices
  <2>2. CASE q < MaxInventory
    BY <2>1, <2>2
  <2>3. CASE ~(q < MaxInventory)
    BY <2>3
  <2> QED BY <2>2, <2>3
<1>3. Ask(b) \in Wish
  BY QuotePrices
<1>4. /\ u \in Seq(Wish) /\ Len(u) \in {0, 1}
      /\ Len(u) = 1 =>
           /\ u[1].kind = "GTC" /\ u[1].price \in {Best(b, "Buy"), Best(b, "Sell")}
           /\ q >= 0 => q > MaxInventory /\ u[1].side = "Sell"
  <2>1. Unwinding(u, b, q)
    BY UnwindShape
  <2> HIDE DEF u, q
  <2>2. CASE u = <<>>
    BY <2>2
  <2>3. CASE u # <<>>
    <3>1. PICK v \in Wish : 
            /\ u = <<v>>
            /\ v.kind = "GTC" /\ v.price \in {Best(b, "Buy"), Best(b, "Sell")}
            /\ q >= 0 => q > MaxInventory /\ v.side = "Sell"
      BY <2>1, <2>3 DEF Unwinding
    <3>2. u \in Seq(Wish) /\ Len(u) = 1 /\ u[1] = v
      BY <3>1
    <3> QED BY <3>1, <3>2
  <2> QED BY <2>2, <2>3
<1> HIDE DEF x, u, w, q
<1>5. /\ w \in Seq(Wish) /\ Len(w) = Len(x) + 1 + Len(u)
      /\ \A k \in 1 .. Len(x) : w[k] = x[k]
      /\ w[Len(x) + 1] = Ask(b)
      /\ \A k \in 1 .. Len(u) : w[Len(x) + 1 + k] = u[k]
  <2> DEFINE a == Ask(b)
  <2>1. a \in Wish /\ w = x \o <<a>> \o u /\ x \in Seq(Wish) /\ u \in Seq(Wish)
    BY <1>1, <1>2, <1>3, <1>4
  <2> HIDE DEF a
  <2>2. /\ w \in Seq(Wish) /\ Len(w) = Len(x) + 1 + Len(u)
        /\ \A k \in 1 .. Len(x) : w[k] = x[k]
        /\ w[Len(x) + 1] = a
        /\ \A k \in 1 .. Len(u) : w[Len(x) + 1 + k] = u[k]
    BY <2>1, ConcatShape
  <2> QED BY <2>2 DEF a
<1>6. h \in {0, 1} /\ (h = 1 <=> q < MaxInventory)
  OBVIOUS
<1> HIDE DEF h
<1>7. Quotes(w, b, q)
  <2>1. Len(w) = h + 1 + Len(u)
    BY <1>2, <1>5
  <2>2. h = 1 => w[1] = Bid(b, q)
    BY <1>2, <1>5
  <2>3. w[h + 1] = Ask(b)
    BY <1>2, <1>5
  <2>4. Len(u) = 1 => w[h + 2] = u[1]
    <3>1. Len(u) = 1 => w[h + 1 + 1] = u[1]
      BY <1>2, <1>5
    <3> QED BY <1>6, <3>1
  <2>5. Len(w) \in {h + 1, h + 2} /\ (Len(w) = h + 2 <=> Len(u) = 1)
    <3>1. Len(u) = 0 \/ Len(u) = 1
      BY <1>4
    <3>2. h \in Nat
      BY <1>6
    <3>3. Len(u) = 0 => Len(w) = h + 1 /\ Len(w) # h + 2
      BY <2>1, <3>2
    <3>4. Len(u) = 1 => Len(w) = h + 2
      BY <2>1, <3>2
    <3> QED BY <3>1, <3>3, <3>4
  <2>6. Len(w) = h + 2 =>
          /\ w[h + 2].kind = "GTC" /\ w[h + 2].price \in {Best(b, "Buy"), Best(b, "Sell")}
          /\ q >= 0 => q > MaxInventory /\ w[h + 2].side = "Sell"
    BY <1>4, <2>4, <2>5
  <2>7. q > MaxInventory => h = 0
    <3>1. q \in Int /\ MaxInventory \in Int
      BY PriceAssumption DEF q
    <3> QED BY <1>6, <3>1
  <2> QED
    BY <1>6, <2>2, <2>3, <2>5, <2>6, <2>7 DEF Quotes
<1> QED BY <1>5, <1>7 DEF w, q

\* The quotes that open a market.
Openings(w, b) ==
  /\ Len(w) = Len(Missing(b))
  /\ \A k \in 1 .. Len(w) :
       /\ w[k].side = Missing(b)[k] /\ w[k].kind = "GTC"
       /\ w[k].price = Away(Missing(b)[k], BasePrice, SeedOffset)

\* With a side missing a market maker makes Openings.
LEMMA OpeningsShape ==
  ASSUME NEW b, Filed(b), Missing(b) # <<>>, NEW m
  PROVE  /\ MakerWishes(b, m) \in Seq(Wish)
         /\ Openings(MakerWishes(b, m), b)
<1> DEFINE missing == Missing(b)
           w == MakerWishes(b, m)
<1>0. Quote \in Nat \ {0} /\ BasePrice \in Int /\ SeedOffset \in Int
  BY PriceAssumption
<1>1. missing \in Seq(Side) /\ DOMAIN missing = 1 .. Len(missing) /\ Len(missing) \in Nat
  BY MissingSides
<1>2. w = [k \in DOMAIN missing |-> Limit(missing[k], Away(missing[k], BasePrice, SeedOffset), Quote)]
  BY DEF MakerWishes
<1> HIDE DEF w, missing
<1>3. ASSUME NEW k \in DOMAIN missing
      PROVE  /\ w[k] \in Wish /\ w[k].side = missing[k] /\ w[k].kind = "GTC"
             /\ w[k].price = Away(missing[k], BasePrice, SeedOffset)
  <2>1. missing[k] \in Side /\ Away(missing[k], BasePrice, SeedOffset) \in Int
    BY <1>0, <1>1 DEF Away
  <2>2. w[k] = Limit(missing[k], Away(missing[k], BasePrice, SeedOffset), Quote)
    BY <1>2
  <2> QED BY <1>0, <2>1, <2>2, LimitType
<1>4. w \in Seq(Wish) /\ Len(w) = Len(missing)
  <2>1. DOMAIN w = 1 .. Len(missing) /\ \A k \in 1 .. Len(missing) : w[k] \in Wish
    BY <1>1, <1>2, <1>3
  <2>2. w = [k \in 1 .. Len(missing) |-> w[k]]
    BY <1>1, <1>2
  <2> QED BY <1>1, <2>1, <2>2
<1> QED BY <1>1, <1>3, <1>4 DEF Openings, w, missing

\* What a market maker wants is well formed, and at most three orders.
LEMMA MakerWishesType ==
  ASSUME NEW b, Filed(b), NEW m, inventory[m] \in Int
  PROVE  MakerWishes(b, m) \in Seq(Wish) /\ Len(MakerWishes(b, m)) =< 3
<1>1. CASE Missing(b) = <<>>
  <2>1. Quotes(MakerWishes(b, m), b, inventory[m]) /\ MakerWishes(b, m) \in Seq(Wish)
    BY <1>1, QuotesShape
  <2>2. PICK h \in {0, 1} : Len(MakerWishes(b, m)) \in {h + 1, h + 2}
    BY <2>1 DEF Quotes
  <2> QED BY <2>1, <2>2
<1>2. CASE Missing(b) # <<>>
  BY <1>2, OpeningsShape, MissingSides DEF Openings
<1> QED BY <1>1, <1>2

\* What is wished for becomes orders, with new ids of p.
LEMMA MadeShape ==
  ASSUME NEW p \in Participants \cup {Source}, counter[p] \in Nat,
         NEW wishes \in Seq(Wish)
  PROVE  /\ Made(p, wishes) \in Seq(Orders) /\ Len(Made(p, wishes)) = Len(wishes)
         /\ \A k \in 1 .. Len(wishes) :
              /\ Made(p, wishes)[k].id = <<p, counter[p] + k>>
              /\ Owner(Made(p, wishes)[k].id) = p
              /\ Made(p, wishes)[k].side = wishes[k].side
              /\ Made(p, wishes)[k].kind = wishes[k].kind
              /\ Made(p, wishes)[k].price = wishes[k].price
<1> DEFINE n == Len(wishes)
           made == Made(p, wishes)
<1>1. n \in Nat /\ DOMAIN wishes = 1 .. n /\ \A k \in 1 .. n : wishes[k] \in Wish
  OBVIOUS
<1>2. made = [k \in 1 .. n |-> Order(<<p, counter[p] + k>>, wishes[k].side, wishes[k].price,
                                     wishes[k].quantity, wishes[k].kind)]
  BY <1>1 DEF Made
<1> HIDE DEF made, n
<1>3. ASSUME NEW k \in 1 .. n
      PROVE  /\ made[k] \in Orders /\ made[k].id = <<p, counter[p] + k>>
             /\ made[k].side = wishes[k].side /\ made[k].kind = wishes[k].kind
             /\ made[k].price = wishes[k].price
  <2>1. <<p, counter[p] + k>> \in OrderIds
    <3>1. counter[p] + k \in Nat
      BY <1>1
    <3> QED BY <3>1 DEF OrderIds
  <2>2. made[k] = [id |-> <<p, counter[p] + k>>, side |-> wishes[k].side,
                   price |-> wishes[k].price, quantity |-> wishes[k].quantity,
                   kind |-> wishes[k].kind]
    BY <1>2 DEF Order
  <2>3. /\ wishes[k].side \in Side /\ wishes[k].price \in Int
        /\ wishes[k].quantity \in Nat \ {0} /\ wishes[k].kind \in {"GTC", "IOC", "Market"}
    BY <1>1, WishType
  <2> QED BY <2>1, <2>2, <2>3 DEF Orders
<1>4. made \in Seq(Orders) /\ Len(made) = n
  <2>1. made = [k \in 1 .. n |-> made[k]] /\ DOMAIN made = 1 .. n
    BY <1>2
  <2> QED BY <1>1, <1>3, <2>1
<1>5. \A k \in 1 .. n : Owner(made[k].id) = p
  BY <1>3 DEF Owner
<1> QED BY <1>3, <1>4, <1>5 DEF made, n

-----------------------------------------------------------------------------
(* The state keeps its types.                                                *)

\* What fills amount to is a number.
LEMMA GainType ==
  ASSUME NEW p, NEW fills, IsFiniteSet(DOMAIN fills), NEW told,
         \A k \in DOMAIN fills : fills[k].quantity \in Int /\ fills[k].price \in Int
  PROVE  SharesOf(p, fills, told) \in Int /\ CashOf(p, fills, told) \in Int
<1> DEFINE D == DOMAIN fills
           v == [k \in D |-> Shares(p, fills[k], told[k])]
           w == [k \in D |-> fills[k].price * Shares(p, fills[k], told[k])]
<1>1. \A k \in D : Shares(p, fills[k], told[k]) \in Int
  BY DEF Shares
<1>2. \A k \in D : v[k] \in Int
  BY <1>1
<1>3. \A k \in D : w[k] \in Int
  BY <1>1
<1>4. SharesOf(p, fills, told) = SumFunctionOnSet(v, D)
  BY DEF SharesOf, SumFunction
<1>5. CashOf(p, fills, told) = -SumFunctionOnSet(w, D)
  BY DEF CashOf, SumFunction
<1> HIDE DEF v, w, D
<1>6. IsFiniteSet(D)
  BY DEF D
<1>7. SumFunctionOnSet(v, D) \in Int /\ SumFunctionOnSet(w, D) \in Int
  BY <1>2, <1>3, <1>6, SumType
<1> QED BY <1>4, <1>5, <1>7

\* The fills of a book: their makers rest on the other side, their taker is o.
LEMMA FillShape ==
  ASSUME NEW b, Filed(b), NEW o \in Orders
  PROVE  LET fills == Submit(b, o).fills
         IN  /\ IsFiniteSet(DOMAIN fills)
             /\ \A k \in DOMAIN fills :
                  /\ fills[k].taker = o.id /\ fills[k].aggressor_side = o.side
                  /\ fills[k].quantity \in Nat /\ fills[k].price \in Int
                  /\ \E j \in DOMAIN b[Opposite(o.side)] :
                       fills[k].maker = b[Opposite(o.side)][j].id
                  /\ Marketable(b, o)
<1> DEFINE fills == Submit(b, o).fills
           M == {b[Opposite(o.side)][j].id : j \in DOMAIN b[Opposite(o.side)]}
           F == [maker : M, taker : {o.id}, price : Int, quantity : Nat, aggressor_side : {o.side}]
<1>1. fills \in Seq(F) /\ (fills # <<>> => Marketable(b, o))
  BY SubmitShape DEF Filled
<1>2. \A f \in F : /\ f.maker \in M /\ f.taker = o.id /\ f.aggressor_side = o.side
                   /\ f.quantity \in Nat /\ f.price \in Int
  OBVIOUS
<1> HIDE DEF fills, F
<1>3. DOMAIN fills = 1 .. Len(fills) /\ Len(fills) \in Nat /\ \A k \in DOMAIN fills : fills[k] \in F
  BY <1>1
<1>4. IsFiniteSet(DOMAIN fills)
  BY <1>3, FS_Interval
<1>5. ASSUME NEW k \in DOMAIN fills PROVE Marketable(b, o)
  BY <1>1, <1>3
<1>6. \A k \in DOMAIN fills : fills[k].maker \in M
  BY <1>2, <1>3
<1>7. \A k \in DOMAIN fills :
        \E j \in DOMAIN b[Opposite(o.side)] : fills[k].maker = b[Opposite(o.side)][j].id
  BY <1>6
<1> QED BY <1>2, <1>3, <1>4, <1>5, <1>7 DEF fills

\* The rest of a sequence of orders is the sequence from the second on.
LEMMA PendingTail ==
  ASSUME NEW S, NEW q \in Seq(S), q # <<>>
  PROVE  /\ Head(q) \in S /\ Head(q) = q[1] /\ 1 \in DOMAIN q
         /\ Tail(q) \in Seq(S)
         /\ DOMAIN Tail(q) = 1 .. Len(q) - 1
         /\ \A k \in 1 .. Len(q) - 1 : Tail(q)[k] = q[k + 1] /\ k + 1 \in DOMAIN q
<1>1. Len(q) \in Nat \ {0}
  OBVIOUS
<1> QED BY <1>1

\* A turn, whosever it is.
LEMMA TurnTyped ==
  ASSUME Typed, NEW p \in Participants, NEW wishes \in Seq(Wish), Turn(p, wishes)
  PROVE  /\ driver' \in Drivers /\ known' \subseteq OrderIds /\ pending' \in Seq(Orders)
         /\ turn' \in Nat /\ steps' \in Nat /\ warm' \in Nat
         /\ inventory' \in [Participants -> Int] /\ pnl' \in [Participants -> Int]
         /\ counter' \in [Participants \cup {Source} -> Nat]
         /\ prev_pnl' \in Int /\ paid' \in Int /\ finished' \in BOOLEAN
<1>1. counter[p] \in Nat
  BY DEF Typed
<1>2. pending' \in Seq(Orders)
  BY <1>1, MadeShape DEF Turn
<1>3. counter' \in [Participants \cup {Source} -> Nat]
  <2>1. Len(wishes) \in Nat
    OBVIOUS
  <2>2. counter[p] + Len(wishes) \in Nat
    BY <1>1, <2>1
  <2> QED BY <2>2 DEF Turn, Typed
<1>4. turn' \in Nat
  BY DEF Turn, Typed
<1> QED BY <1>2, <1>3, <1>4 DEF Turn, Typed, history

\* The orders a participant makes are its own.
LEMMA MadeIds ==
  ASSUME NEW p \in Participants \cup {Source}, counter[p] \in Nat,
         NEW wishes \in Seq(Wish)
  PROVE  /\ Ids(Made(p, wishes)) \subseteq OrderIds
         /\ \A i \in Ids(Made(p, wishes)) : Owner(i) = p
<1> DEFINE made == Made(p, wishes)
<1>1. made \in Seq(Orders) /\ \A k \in 1 .. Len(wishes) : Owner(made[k].id) = p
  BY MadeShape
<1>2. Len(made) = Len(wishes)
  BY MadeShape
<1> HIDE DEF made
<1>3. \A k \in DOMAIN made : made[k].id \in OrderIds /\ Owner(made[k].id) = p
  <2>1. \A o \in Orders : o.id \in OrderIds
    BY DEF Orders
  <2>2. DOMAIN made = 1 .. Len(made)
    BY <1>1
  <2> QED BY <1>1, <1>2, <2>1, <2>2
<1> QED BY <1>3 DEF Ids, made

\* An empty book is a book.
LEMMA EmptyFiled == Filed(EmptyBook)
<1>1. \A s \in Side : EmptyBook[s] = <<>>
  BY DEF EmptyBook
<1>2. \A s \in Side : EmptyBook[s] \in Seq(Restable(s))
  <2>1. \A R : <<>> \in Seq(R)
    OBVIOUS
  <2> QED BY <1>1, <2>1
<1>3. EmptyBook \in [Side -> Seq(Orders)]
  BY DEF EmptyBook
<1> QED BY <1>2, <1>3 DEF Filed

\* Every driver starts with a state of the right types.
LEMMA TypedInit == Init => Typed
<1> SUFFICES ASSUME Init PROVE Typed
  OBVIOUS
<1>1. <<>> \in Seq(Orders)
  OBVIOUS
<1>2. Nobody \in [Participants -> Int]
  BY DEF Nobody
<1>3. outstanding \in [MarketMakers -> SUBSET OrderIds]
  BY DEF Init
<1>4. counter \in [Participants \cup {Source} -> Nat]
  BY DEF Init
<1>5. Filed(book) /\ pending \in Seq(Orders)
  BY <1>1, EmptyFiled DEF Init
<1>6. driver \in Drivers /\ known \subseteq OrderIds /\ finished \in BOOLEAN
  BY DEF Init
<1>7. turn \in Nat /\ steps \in Nat /\ warm \in Nat /\ prev_pnl \in Int /\ paid \in Int
  BY DEF Init
<1>8. inventory \in [Participants -> Int] /\ pnl \in [Participants -> Int]
  BY <1>2 DEF Init
<1> QED BY <1>3, <1>4, <1>5, <1>6, <1>7, <1>8 DEF Typed

\* A submitted order leaves a state of the right types.
LEMMA TypedSubmit ==
  ASSUME Typed, SubmitNext
  PROVE  Typed'
<1> DEFINE o == Head(pending)
           result == Submit(book, o)
           ids == IF Owner(o.id) = Source THEN known ELSE known \cup {o.id}
           told == [k \in DOMAIN result.fills |-> Heard(result.fills[k], ids)]
<1>1. o \in Orders /\ Tail(pending) \in Seq(Orders)
  BY PendingTail DEF SubmitNext, Typed
<1>2. Filed(book')
  <2>1. Filed(result.book)
    BY <1>1, SubmitShape DEF Submitted, Typed
  <2> QED BY <2>1 DEF SubmitNext
<1>3. known' \subseteq OrderIds
  <2>1. o.id \in OrderIds
    BY <1>1 DEF Orders
  <2> QED BY <2>1 DEF SubmitNext, Typed
<1>4. /\ IsFiniteSet(DOMAIN result.fills)
      /\ \A k \in DOMAIN result.fills : result.fills[k].quantity \in Int /\ result.fills[k].price \in Int
  BY <1>1, FillShape DEF Typed
<1>5. /\ inventory' = [p \in Participants |-> inventory[p] + SharesOf(p, result.fills, told)]
      /\ pnl' = [p \in Participants |-> pnl[p] + CashOf(p, result.fills, told)]
  BY DEF SubmitNext
<1> HIDE DEF told, result
<1>6. \A p \in Participants : /\ SharesOf(p, result.fills, told) \in Int
                              /\ CashOf(p, result.fills, told) \in Int
  <2> DEFINE fills == result.fills
  <2>1. IsFiniteSet(DOMAIN fills) /\ \A k \in DOMAIN fills : fills[k].quantity \in Int /\ fills[k].price \in Int
    BY <1>4
  <2> HIDE DEF fills
  <2>2. \A p \in Participants : SharesOf(p, fills, told) \in Int /\ CashOf(p, fills, told) \in Int
    BY <2>1, GainType
  <2> QED BY <2>2 DEF fills
<1>7. inventory' \in [Participants -> Int] /\ pnl' \in [Participants -> Int]
  BY <1>5, <1>6 DEF Typed
<1>8. UNCHANGED <<driver, counter, outstanding, progress, prev_pnl, captured, paid, skipped>>
  BY DEF SubmitNext
<1>9. pending' \in Seq(Orders)
  BY <1>1 DEF SubmitNext
<1> QED BY <1>2, <1>3, <1>7, <1>8, <1>9 DEF Typed, progress

\* Every step keeps the types.
LEMMA TypedNext == Typed /\ [Next]_vars => Typed'
<1> SUFFICES ASSUME Typed, [Next]_vars PROVE Typed'
  OBVIOUS
<1>1. CASE BeginStep
  BY <1>1 DEF Typed, BeginStep, market, agents, history, Seats
<1>2. CASE Event
  <2>1. PICK h \in History : pending' = Made(Source, <<h>>)
    BY <1>2 DEF Event
  <2>2. <<h>> \in Seq(Wish) /\ Source \in Participants \cup {Source} /\ counter[Source] \in Nat
    BY DEF Wish, Typed
  <2>3. pending' \in Seq(Orders)
    BY <2>1, <2>2, MadeShape
  <2>4. counter' \in [Participants \cup {Source} -> Nat]
    BY <1>2, <2>2 DEF Event, Typed
  <2> QED BY <1>2, <2>3, <2>4 DEF Typed, Event
<1>3. CASE EventWithoutOrder
  BY <1>3 DEF Typed, EventWithoutOrder, market, agents
<1>4. CASE EndStep
  <2>1. paid' \in Int /\ prev_pnl' \in Int
    <3>1. driver \in Environments => pnl["agent"] \in Int
      BY DEF Typed, Participants, Players
    <3> QED BY <1>4, <3>1 DEF EndStep, Typed
  <2>2. turn' \in Nat /\ warm' \in Nat
    BY <1>4 DEF EndStep, Typed
  <2> QED BY <1>4, <2>1, <2>2 DEF Typed, EndStep, market, agents
<1>5. CASE Finish
  BY <1>5 DEF Typed, Finish, market, agents, history
<1>6. CASE Reset
  <2>1. Nobody \in [Participants -> Int]
    BY DEF Nobody
  <2>2. Warmup \in Nat
    BY PriceAssumption
  <2>3. /\ Filed(book') /\ known' \subseteq OrderIds
    BY <1>6, EmptyFiled DEF Reset
  <2> QED BY <1>6, <2>1, <2>2, <2>3 DEF Typed, Reset, FreshAgents
<1>7. CASE SubmitNext
  BY <1>7, TypedSubmit
<1>8. ASSUME NEW p \in Participants, NoiseTurn(p) PROVE Typed'
  <2>1. PICK wishes \in RandomWishes(book) : Turn(p, wishes)
    BY <1>8 DEF NoiseTurn
  <2>2. wishes \in Seq(Wish)
    BY RandomWishesType DEF Typed
  <2> QED BY <1>8, <2>1, <2>2, TurnTyped DEF Typed, NoiseTurn
<1>9. ASSUME NEW p \in Participants, PlayerTurn(p) PROVE Typed'
  <2>1. PICK wishes \in PlayerWishes(book) : Turn(p, wishes)
    BY <1>9 DEF PlayerTurn
  <2>2. wishes \in Seq(Wish)
    BY PlayerWishesType DEF Typed
  <2> QED BY <1>9, <2>1, <2>2, TurnTyped DEF Typed, PlayerTurn
<1>10. ASSUME NEW m \in Participants, MakerTurn(m) PROVE Typed'
  <2> DEFINE b == Cancel(book, outstanding[m])
             wishes == MakerWishes(b, m)
  <2>1. Filed(b) /\ inventory[m] \in Int
    BY CancelShape DEF Typed
  <2>2. wishes \in Seq(Wish)
    BY <2>1, MakerWishesType
  <2>3. /\ m \in MarketMakers /\ Turn(m, wishes) /\ book' = b
        /\ outstanding' = [outstanding EXCEPT ![m] = Ids(Made(m, wishes))]
    BY <1>10 DEF MakerTurn
  <2> HIDE DEF wishes
  <2>4. Ids(Made(m, wishes)) \subseteq OrderIds
    BY <2>2, MadeIds DEF Typed
  <2>5. outstanding' \in [MarketMakers -> SUBSET OrderIds]
    BY <2>3, <2>4 DEF Typed
  <2> QED BY <2>1, <2>2, <2>3, <2>5, TurnTyped DEF Typed
<1>11. CASE UNCHANGED vars
  BY <1>11 DEF Typed, vars, market, agents, progress, history
<1> QED
  BY <1>1, <1>2, <1>3, <1>4, <1>5, <1>6, <1>7, <1>8, <1>9, <1>10, <1>11 DEF Next

\* Type correctness: every state of the four drivers has the types of the
\* programs' data.  Books hold good-till-cancel orders on their own side only,
\* whatever is submitted and cancelled (simulation/loop.py, data/backtest.py,
\* rl/trading_env.py, rl/self_play_env.py).
THEOREM StateTyped == Spec => []Typed
  BY TypedInit, TypedNext, PTL DEF Spec

-----------------------------------------------------------------------------
(* Snapshots and rewards.                                                    *)

\* Nothing is left pending when a round ends.
LEMMA IdleNext ==
  ASSUME Typed, Idle, [Next]_vars
  PROVE  Idle'
<1>1. CASE BeginStep
  BY <1>1 DEF Idle, Typed, BeginStep, Between, market
<1>2. CASE Event
  BY <1>2 DEF Idle, Event, Between
<1>3. CASE EventWithoutOrder
  BY <1>3 DEF Idle, EventWithoutOrder, Between, market
<1>4. CASE EndStep
  <2>1. turn # 0
    <3>1. Len(Roster[driver]) \in Nat
      BY RosterAssumption DEF Typed
    <3> QED BY <1>4, <3>1 DEF EndStep
  <2> QED BY <1>4, <2>1 DEF Idle, EndStep, market
<1>5. CASE Finish
  BY <1>5 DEF Idle, Finish, Between, market
<1>6. CASE Reset
  BY <1>6 DEF Idle, Reset, Between
<1>7. CASE SubmitNext
  BY <1>7 DEF Idle, SubmitNext, progress
<1>8. ASSUME NEW p, NEW wishes, Turn(p, wishes) PROVE Idle'
  BY <1>8 DEF Idle, Typed, Turn
<1>9. ASSUME NEW p \in Participants, NoiseTurn(p) \/ PlayerTurn(p) \/ MakerTurn(p)
      PROVE  Idle'
  BY <1>8, <1>9 DEF NoiseTurn, PlayerTurn, MakerTurn
<1>10. CASE UNCHANGED vars
  BY <1>10 DEF Idle, vars, market, progress
<1> QED
  BY <1>1, <1>2, <1>3, <1>4, <1>5, <1>6, <1>7, <1>9, <1>10 DEF Next

\* Every step that a snapshot is due after takes it.
LEMMA SnapshotsNext ==
  ASSUME Typed, Idle, Snapshots, [Next]_vars
  PROVE  Snapshots'
<1>0. ASSUME UNCHANGED <<inventory, pnl>> PROVE Figures' = Figures
  BY <1>0 DEF Figures
<1>1. CASE BeginStep
  BY <1>1 DEF Snapshots, BeginStep
<1>2. CASE Event
  BY <1>2 DEF Snapshots, Event
<1>3. CASE EventWithoutOrder
  <2>1. skipped' = TRUE /\ finished' = FALSE
    BY <1>3 DEF EventWithoutOrder, Between, Typed
  <2> QED BY <2>1 DEF Snapshots
<1>4. CASE EndStep
  <2>1. ~finished
    <3>1. Len(Roster[driver]) \in Nat
      BY RosterAssumption DEF Typed
    <3>2. turn # 0
      BY <1>4, <3>1 DEF EndStep
    <3> QED BY <3>2 DEF Idle
  <2>2. Figures' = Figures
    BY <1>0, <1>4 DEF EndStep, agents
  <2>3. UNCHANGED <<driver, steps, finished>>
    BY <1>4 DEF EndStep
  <2>4. driver = "backtest" /\ steps % SnapshotInterval = 0 => captured' = Figures
    BY <1>4 DEF EndStep
  <2> HIDE DEF Figures
  <2> QED BY <2>1, <2>2, <2>3, <2>4 DEF Snapshots
<1>5. CASE Finish
  <2>1. Figures' = Figures
    BY <1>0, <1>5 DEF Finish, agents
  <2>2. UNCHANGED <<driver, steps, turn, skipped>> /\ turn = 0
    BY <1>5 DEF Finish, Between, history
  <2>3. /\ driver = "backtest" /\ steps % SnapshotInterval # 0 => captured' = Figures
        /\ steps % SnapshotInterval = 0 => captured' = captured
    BY <1>5 DEF Finish
  <2> QED BY <2>1, <2>2, <2>3 DEF Snapshots
<1>6. CASE Reset
  BY <1>6 DEF Snapshots, Reset, Environments
<1>7. CASE SubmitNext
  <2>1. turn' # 0
    BY <1>7 DEF Idle, SubmitNext, progress
  <2> QED BY <2>1 DEF Snapshots
<1>8. ASSUME NEW p, NEW wishes, Turn(p, wishes) PROVE Snapshots'
  <2>1. turn' # 0
    BY <1>8 DEF Typed, Turn
  <2> QED BY <2>1 DEF Snapshots
<1>9. ASSUME NEW p \in Participants, NoiseTurn(p) \/ PlayerTurn(p) \/ MakerTurn(p)
      PROVE  Snapshots'
  BY <1>8, <1>9 DEF NoiseTurn, PlayerTurn, MakerTurn
<1>10. CASE UNCHANGED vars
  <2>1. Figures' = Figures
    BY <1>0, <1>10 DEF vars, agents
  <2>2. UNCHANGED <<driver, turn, steps, finished, captured, skipped>>
    BY <1>10 DEF vars, progress, history
  <2> QED BY <2>1, <2>2 DEF Snapshots
<1> QED
  BY <1>1, <1>2, <1>3, <1>4, <1>5, <1>6, <1>7, <1>9, <1>10 DEF Next

\* Nothing is pending between two steps, and no snapshot that is due is missing.
LEMMA SeriesInv == Spec => [](Idle /\ Snapshots)
<1>1. Init => Idle /\ Snapshots
  BY DEF Init, Idle, Snapshots
<1>2. Idle /\ Snapshots /\ Typed /\ [Next]_vars => (Idle /\ Snapshots)'
  BY IdleNext, SnapshotsNext
<1> QED BY <1>1, <1>2, StateTyped, PTL DEF Spec

\* The series of a backtest end with the final figures (data/backtest.py): the
\* snapshot after the last event, or the one run_backtest takes when the last
\* event was not due one; a due one is lost only when that event made no order.
THEOREM SeriesEndRight == Spec => []SeriesEnd
<1>1. Typed /\ Idle /\ Snapshots => SeriesEnd
  BY DEF Idle, Snapshots, SeriesEnd
<1> QED BY <1>1, SeriesInv, StateTyped, PTL

-----------------------------------------------------------------------------
(* Whose the orders are.                                                     *)

\* A submit brings no id into the book but its order's.
LEMMA RestingAfterSubmit ==
  ASSUME NEW b, Filed(b), NEW o \in Orders
  PROVE  RestingIds(Submit(b, o).book) \subseteq RestingIds(b) \cup {o.id}
<1> DEFINE c == Submit(b, o).book
<1>1. Submitted(b, o, c)
  BY SubmitShape
<1> HIDE DEF c
<1>2. o.side \in Side /\ Opposite(o.side) \in Side /\ Side = {o.side, Opposite(o.side)}
  BY DEF Orders, Opposite, Side
<1>3. ASSUME NEW s \in Side, NEW k \in DOMAIN c[s]
      PROVE  c[s][k].id = o.id \/ \E j \in DOMAIN b[s] : c[s][k].id = b[s][j].id
  <2>1. CASE s = o.side
    BY <1>1, <1>3, <2>1 DEF Submitted
  <2>2. CASE s = Opposite(o.side)
    BY <1>1, <1>3, <2>2 DEF Submitted, Kin
  <2> QED BY <1>2, <2>1, <2>2
<1> SUFFICES ASSUME NEW i \in RestingIds(c) PROVE i \in RestingIds(b) \cup {o.id}
  BY DEF c
<1>4. PICK s \in Side : \E k \in DOMAIN c[s] : i = c[s][k].id
  BY DEF RestingIds
<1>5. PICK k \in DOMAIN c[s] : i = c[s][k].id
  BY <1>4
<1> QED BY <1>3, <1>5 DEF RestingIds

\* A cancel takes what it is given out of the book.
LEMMA RestingAfterCancel ==
  ASSUME NEW b, Filed(b), NEW ids
  PROVE  RestingIds(Cancel(b, ids)) \subseteq RestingIds(b) \ ids
<1> DEFINE c == Cancel(b, ids)
<1>1. \A s \in Side : Kin(c[s], b[s]) /\ \A k \in DOMAIN c[s] : c[s][k].id \notin ids
  BY CancelShape
<1> HIDE DEF c
<1> SUFFICES ASSUME NEW i \in RestingIds(c) PROVE i \in RestingIds(b) \ ids
  BY DEF c
<1>2. PICK s \in Side : \E k \in DOMAIN c[s] : i = c[s][k].id
  BY DEF RestingIds
<1>3. PICK k \in DOMAIN c[s] : i = c[s][k].id
  BY <1>2
<1>4. \E j \in DOMAIN b[s] : i = b[s][j].id
  BY <1>1, <1>3 DEF Kin
<1> QED BY <1>1, <1>3, <1>4 DEF RestingIds

\* An empty book has no ids, nor have no orders.
LEMMA NothingRests == RestingIds(EmptyBook) = {} /\ Ids(<<>>) = {}
  BY DEF RestingIds, EmptyBook, Ids

\* Orders that are pending: the next one, and the rest.
LEMMA PendingIds ==
  ASSUME NEW S, NEW q \in Seq(S), q # <<>>
  PROVE  Head(q).id \in Ids(q) /\ Ids(Tail(q)) \subseteq Ids(q)
<1>1. /\ Head(q) = q[1] /\ 1 \in DOMAIN q
      /\ DOMAIN Tail(q) = 1 .. Len(q) - 1
      /\ \A k \in 1 .. Len(q) - 1 : Tail(q)[k] = q[k + 1] /\ k + 1 \in DOMAIN q
  BY PendingTail
<1> DEFINE t == Tail(q)
           h == Head(q)
<1>2. h = q[1] /\ \A k \in DOMAIN t : k + 1 \in DOMAIN q /\ t[k] = q[k + 1]
  BY <1>1
<1> HIDE DEF t, h
<1> QED BY <1>1, <1>2 DEF Ids, t, h

\* The one whose turn it is takes part.
LEMMA TurnOwners ==
  ASSUME Typed, Owners, NEW p \in Participants, NEW wishes \in Seq(Wish), Turn(p, wishes),
         RestingIds(book') \subseteq RestingIds(book)
  PROVE  Owners'
<1>1. /\ pending' = Made(p, wishes) /\ counter[p] \in Nat
      /\ turn \in DOMAIN Roster[driver] /\ p = Roster[driver][turn]
      /\ UNCHANGED <<driver, known>>
  <2>1. DOMAIN Roster[driver] = 1 .. Len(Roster[driver])
    BY RosterAssumption DEF Typed
  <2> QED BY <2>1 DEF Turn, Typed
<1>2. \A i \in Ids(pending') : Owner(i) = p
  BY <1>1, MadeIds
<1>3. \A i : Owner(i) = p => Invited(i)'
  BY <1>1 DEF Invited
<1>4. \A i : Invited(i) => Invited(i)'
  BY <1>1 DEF Invited
<1>5. RestingIds(book)' = RestingIds(book') /\ Ids(pending)' = Ids(pending')
  BY DEF RestingIds, Ids
<1> HIDE DEF Invited
<1> QED BY <1>1, <1>2, <1>3, <1>4, <1>5 DEF Owners

\* Every step keeps the orders of the book and the pending ones to those who
\* take part, and known to the router.
LEMMA OwnersNext ==
  ASSUME Typed, Owners, [Next]_vars
  PROVE  Owners'
<1>0. RestingIds(book)' = RestingIds(book') /\ Ids(pending)' = Ids(pending')
  BY DEF RestingIds, Ids
<1>1. ASSUME UNCHANGED <<driver, market>> PROVE Owners'
  BY <1>1 DEF Owners, Invited, market, RestingIds, Ids
<1>2. CASE BeginStep \/ EventWithoutOrder \/ EndStep \/ Finish
  BY <1>1, <1>2 DEF BeginStep, EventWithoutOrder, EndStep, Finish
<1>3. CASE Event
  <2>1. PICK h \in History : pending' = Made(Source, <<h>>)
    BY <1>3 DEF Event
  <2>2. <<h>> \in Seq(Wish) /\ Source \in Participants \cup {Source} /\ counter[Source] \in Nat
    BY DEF Wish, Typed
  <2>3. \A i \in Ids(pending') : Owner(i) = Source
    BY <2>1, <2>2, MadeIds
  <2>4. driver = "backtest" /\ UNCHANGED <<driver, book, known>>
    BY <1>3 DEF Event
  <2>5. \A i : Owner(i) = Source => Invited(i)'
    BY <2>4 DEF Invited
  <2>6. \A i : Invited(i) => Invited(i)'
    BY <2>4 DEF Invited
  <2> HIDE DEF Invited
  <2> QED BY <1>0, <2>3, <2>4, <2>5, <2>6 DEF Owners
<1>4. CASE Reset
  <2>1. book' = EmptyBook /\ pending' = <<>>
    BY <1>4 DEF Reset, Between
  <2> QED BY <1>0, <2>1, NothingRests DEF Owners
<1>5. CASE SubmitNext
  <2> DEFINE o == Head(pending)
  <2>1. o \in Orders /\ o.id \in Ids(pending) /\ Ids(Tail(pending)) \subseteq Ids(pending)
    BY <1>5, PendingTail, PendingIds DEF SubmitNext, Typed
  <2>2. RestingIds(book') \subseteq RestingIds(book) \cup {o.id}
    <3>1. book' = Submit(book, o).book
      BY <1>5 DEF SubmitNext
    <3> HIDE DEF o
    <3> QED BY <2>1, <3>1, RestingAfterSubmit DEF Typed
  <2>3. /\ pending' = Tail(pending) /\ UNCHANGED driver
        /\ known' = IF Owner(o.id) = Source THEN known ELSE known \cup {o.id}
    BY <1>5 DEF SubmitNext
  <2>4. \A i : Invited(i) => Invited(i)'
    BY <2>3 DEF Invited
  <2> HIDE DEF o, Invited
  <2>5. \A i \in RestingIds(book') \cup Ids(pending') : Invited(i)'
    BY <2>1, <2>2, <2>3, <2>4 DEF Owners
  <2>6. \A i \in RestingIds(book') : Owner(i) # Source => i \in known'
    BY <2>2, <2>3 DEF Owners
  <2> QED BY <1>0, <2>5, <2>6 DEF Owners
<1>6. ASSUME NEW p \in Participants, NoiseTurn(p) PROVE Owners'
  <2>1. PICK wishes \in RandomWishes(book) : Turn(p, wishes)
    BY <1>6 DEF NoiseTurn
  <2>2. wishes \in Seq(Wish) /\ book' = book
    BY <1>6, RandomWishesType DEF Typed, NoiseTurn
  <2> QED BY <2>1, <2>2, TurnOwners
<1>7. ASSUME NEW p \in Participants, PlayerTurn(p) PROVE Owners'
  <2>1. PICK wishes \in PlayerWishes(book) : Turn(p, wishes)
    BY <1>7 DEF PlayerTurn
  <2>2. wishes \in Seq(Wish) /\ book' = book
    BY <1>7, PlayerWishesType DEF Typed, PlayerTurn
  <2> QED BY <2>1, <2>2, TurnOwners
<1>8. ASSUME NEW m \in Participants, MakerTurn(m) PROVE Owners'
  <2> DEFINE b == Cancel(book, outstanding[m])
             wishes == MakerWishes(b, m)
  <2>1. Filed(b) /\ inventory[m] \in Int
    BY CancelShape DEF Typed
  <2>2. wishes \in Seq(Wish)
    BY <2>1, MakerWishesType
  <2>3. RestingIds(b) \subseteq RestingIds(book)
    BY RestingAfterCancel DEF Typed
  <2>4. Turn(m, wishes) /\ book' = b
    BY <1>8 DEF MakerTurn
  <2> HIDE DEF b, wishes
  <2> QED BY <2>2, <2>3, <2>4, TurnOwners
<1>9. CASE UNCHANGED vars
  BY <1>1, <1>9 DEF vars
<1> QED
  BY <1>2, <1>3, <1>4, <1>5, <1>6, <1>7, <1>8, <1>9 DEF Next

\* The orders are of those who take part, throughout.
LEMMA OwnersInv == Spec => []Owners
<1>1. Init => Owners
  BY NothingRests DEF Init, Owners
<1>2. Typed /\ Owners /\ [Next]_vars => Owners'
  BY OwnersNext
<1> QED BY <1>1, <1>2, StateTyped, PTL DEF Spec

\* The fills of a submission with what each side hears and owns.
LEMMA FillOwners ==
  ASSUME Typed, Owners, SubmitNext
  PROVE  LET o == Head(pending)
             fills == Submit(book, o).fills
         IN  /\ o \in Orders /\ o.id \in Ids(pending) /\ IsFiniteSet(DOMAIN fills)
             /\ \A k \in DOMAIN fills :
                  /\ fills[k].taker = o.id /\ fills[k].maker \in RestingIds(book)
                  /\ fills[k].quantity \in Nat /\ fills[k].price \in Int
                  /\ fills[k].aggressor_side = o.side
<1> DEFINE o == Head(pending)
           fills == Submit(book, o).fills
           q == book[Opposite(o.side)]
<1>1. o \in Orders /\ o.id \in Ids(pending)
  BY PendingTail, PendingIds DEF SubmitNext, Typed
<1>2. /\ IsFiniteSet(DOMAIN fills)
      /\ \A k \in DOMAIN fills :
           /\ fills[k].taker = o.id /\ fills[k].quantity \in Nat /\ fills[k].price \in Int
           /\ fills[k].aggressor_side = o.side
           /\ \E j \in DOMAIN q : fills[k].maker = q[j].id
  <2> HIDE DEF o
  <2> QED BY <1>1, FillShape DEF Typed
<1>3. \A j \in DOMAIN q : q[j].id \in RestingIds(book)
  <2>1. Opposite(o.side) \in Side
    BY DEF Opposite, Side
  <2> HIDE DEF o
  <2> QED BY <2>1 DEF RestingIds
<1> HIDE DEF fills, q
<1> QED BY <1>1, <1>2, <1>3 DEF fills

\* Who has no part in the fills gains nothing.
LEMMA NoGain ==
  ASSUME NEW p, NEW fills, IsFiniteSet(DOMAIN fills), NEW told,
         \A k \in DOMAIN fills :
           /\ fills[k].quantity \in Nat /\ fills[k].price \in Int
           /\ Owner(fills[k].taker) # p /\ Owner(fills[k].maker) # p
  PROVE  SharesOf(p, fills, told) = 0 /\ CashOf(p, fills, told) = 0
<1> DEFINE D == DOMAIN fills
           v == [k \in D |-> Shares(p, fills[k], told[k])]
           w == [k \in D |-> fills[k].price * Shares(p, fills[k], told[k])]
<1>1. \A k \in D : Shares(p, fills[k], told[k]) = 0
  BY DEF Shares
<1>2. \A k \in D : v[k] = 0
  BY <1>1
<1>3. \A k \in D : w[k] = 0
  BY <1>1
<1>4. SharesOf(p, fills, told) = SumFunctionOnSet(v, D)
  BY DEF SharesOf, SumFunction
<1>5. CashOf(p, fills, told) = -SumFunctionOnSet(w, D)
  BY DEF CashOf, SumFunction
<1> HIDE DEF v, w, D
<1>6. IsFiniteSet(D)
  BY DEF D
<1>7. SumFunctionOnSet(v, D) = 0 /\ SumFunctionOnSet(w, D) = 0
  BY <1>2, <1>3, <1>6, SumOfZeros
<1>9. SumFunctionOnSet(w, D) \in Int
  BY <1>7
<1>10. -SumFunctionOnSet(w, D) = 0
  <2> DEFINE x == SumFunctionOnSet(w, D)
  <2>1. x \in Int /\ x =< 0 /\ x >= 0
    BY <1>7
  <2> HIDE DEF x
  <2>2. -x = 0
    BY <2>1, MinusNothing
  <2> QED BY <2>2 DEF x
<1> QED BY <1>4, <1>5, <1>7, <1>10

\* A turn earns nothing.
LEMMA TurnRewards ==
  ASSUME Typed, Idle, Rewards, NEW p \in Participants, NEW wishes \in Seq(Wish), Turn(p, wishes),
         RestingIds(book') \subseteq RestingIds(book)
  PROVE  Rewards'
<1>1. /\ pending' = Made(p, wishes) /\ counter[p] \in Nat
      /\ turn \in 1 .. Len(Roster[driver]) /\ p = Roster[driver][turn] /\ turn' = turn + 1
      /\ UNCHANGED <<driver, warm, pnl, prev_pnl, paid>>
  BY DEF Turn, Typed, history
<1>2. \A i \in Ids(pending') : Owner(i) = p
  BY <1>1, MadeIds
<1>3. RestingIds(book)' = RestingIds(book') /\ Ids(pending)' = Ids(pending')
  BY DEF RestingIds, Ids
<1>4. turn' # 0 /\ turn # 0 /\ Seats(driver) \in Nat
  BY <1>1 DEF Typed, Seats
<1>5. CASE warm > 0
  <2>1. turn > Seats(driver) /\ turn \in DOMAIN Roster[driver]
    <3>1. DOMAIN Roster[driver] = 1 .. Len(Roster[driver])
      BY RosterAssumption DEF Typed
    <3> QED BY <1>1, <1>4, <1>5, <3>1 DEF Rewards
  <2>2. p \notin Players
    <3>1. ~(turn =< Seats(driver))
      BY <1>1, <1>4, <2>1
    <3> QED BY <1>1, <2>1, <3>1, RosterAssumption DEF Typed
  <2>3. Seats(driver)' = Seats(driver) /\ turn' > Seats(driver)
    <3>1. Seats(driver)' = Seats(driver)
      BY <1>1 DEF Seats
    <3> QED BY <1>1, <1>4, <2>1, <3>1
  <2> HIDE DEF Seats
  <2> QED BY <1>1, <1>2, <1>3, <1>5, <2>2, <2>3 DEF Rewards
<1>6. CASE ~(warm > 0)
  BY <1>1, <1>4, <1>6 DEF Rewards
<1> QED BY <1>5, <1>6

\* Every step keeps the RL agent paid up to its last reward.
LEMMA RewardsNext ==
  ASSUME Typed, Idle, Owners, Rewards, [Next]_vars
  PROVE  Rewards'
<1>0. RestingIds(book)' = RestingIds(book') /\ Ids(pending)' = Ids(pending')
  BY DEF RestingIds, Ids
<1>1. ASSUME UNCHANGED <<driver, book, pending, turn, warm, pnl, prev_pnl, paid>> PROVE Rewards'
  <2>1. RestingIds(book)' = RestingIds(book) /\ Ids(pending)' = Ids(pending)
    BY <1>0, <1>1
  <2>2. Seats(driver)' = Seats(driver)
    BY <1>1 DEF Seats
  <2> HIDE DEF Seats
  <2> QED BY <1>1, <2>1, <2>2 DEF Rewards
<1>2. CASE BeginStep
  <2>1. UNCHANGED <<driver, book, pending, warm, pnl, prev_pnl, paid>>
    BY <1>2 DEF BeginStep, market, agents, history
  <2>2. turn = 0 /\ turn' # 0 /\ (warm > 0 => turn' > Seats(driver)) /\ Seats(driver)' = Seats(driver)
    BY <1>2, <2>1 DEF BeginStep, Between, Seats
  <2>3. RestingIds(book)' = RestingIds(book) /\ Ids(pending)' = Ids(pending)
    BY <1>0, <2>1
  <2> HIDE DEF Seats
  <2> QED BY <2>1, <2>2, <2>3 DEF Rewards
<1>3. CASE Event
  <2>1. driver = "backtest" /\ driver' = driver /\ warm' = warm
    BY <1>3 DEF Event
  <2> QED BY <2>1 DEF Rewards, Environments
<1>4. CASE EventWithoutOrder \/ Finish
  BY <1>1, <1>4 DEF EventWithoutOrder, Finish, market, agents, history
<1>5. CASE EndStep
  <2>1. UNCHANGED <<driver, book, pending, pnl>> /\ turn' = 0
    BY <1>5 DEF EndStep, market, agents
  <2>2. RestingIds(book)' = RestingIds(book) /\ Ids(pending)' = Ids(pending)
    BY <1>0, <2>1
  <2>3. CASE warm > 0
    <3>1. UNCHANGED <<paid, prev_pnl>>
      BY <1>5, <2>3 DEF EndStep
    <3> QED BY <2>1, <2>2, <2>3, <3>1 DEF Rewards
  <2>4. CASE ~(warm > 0)
    <3>1. warm = 0 /\ warm' = 0
      BY <1>5, <2>4 DEF EndStep, Typed
    <3>2. driver \in Environments => /\ paid' = paid + (pnl["agent"] - prev_pnl)
                                     /\ prev_pnl' = pnl["agent"]
      BY <1>5, <3>1 DEF EndStep
    <3>3. pnl["agent"] \in Int /\ prev_pnl \in Int /\ paid \in Int
      BY DEF Typed, Participants, Players
    <3>4. driver \in Environments => paid' = pnl["agent"]
      BY <3>2, <3>3 DEF Rewards
    <3> QED BY <2>1, <3>1, <3>2, <3>4 DEF Rewards
  <2> QED BY <2>3, <2>4
<1>6. CASE Reset
  <2>1. book' = EmptyBook /\ pending' = <<>> /\ turn' = 0 /\ driver' \in Environments
    BY <1>6 DEF Reset, Between
  <2>2. pnl'["agent"] = 0 /\ prev_pnl' = 0 /\ paid' = 0
    BY <1>6 DEF Reset, FreshAgents, Nobody, Participants, Players
  <2> QED BY <1>0, <2>1, <2>2, NothingRests DEF Rewards
<1>7. CASE SubmitNext
  <2> DEFINE o == Head(pending)
             fills == Submit(book, o).fills
             ids == IF Owner(o.id) = Source THEN known ELSE known \cup {o.id}
             told == [k \in DOMAIN fills |-> Heard(fills[k], ids)]
  <2>1. /\ o \in Orders /\ o.id \in Ids(pending) /\ IsFiniteSet(DOMAIN fills)
        /\ \A k \in DOMAIN fills :
             /\ fills[k].taker = o.id /\ fills[k].maker \in RestingIds(book)
             /\ fills[k].quantity \in Nat /\ fills[k].price \in Int
    BY <1>7, FillOwners
  <2>2. /\ UNCHANGED <<driver, turn, warm, prev_pnl, paid>> /\ pending' = Tail(pending)
        /\ book' = Submit(book, o).book /\ pending # <<>>
        /\ pnl' = [p \in Participants |-> pnl[p] + CashOf(p, fills, told)]
    BY <1>7 DEF SubmitNext, progress
  <2>3. /\ RestingIds(book') \subseteq RestingIds(book) \cup Ids(pending)
        /\ Ids(pending') \subseteq Ids(pending)
    <3>1. Ids(Tail(pending)) \subseteq Ids(pending)
      BY <2>2, PendingIds DEF Typed
    <3> HIDE DEF o
    <3> QED BY <2>1, <2>2, <3>1, RestingAfterSubmit DEF Typed
  <2>4. turn # 0
    BY <2>2 DEF Idle
  <2>5. Seats(driver)' = Seats(driver)
    BY <2>2 DEF Seats
  <2>6. CASE warm > 0
    <3>1. \A i \in RestingIds(book) \cup Ids(pending) : Owner(i) # "agent"
      BY <2>6 DEF Rewards, Players
    <3>2. CashOf("agent", fills, told) = 0
      <4> HIDE DEF fills, told, o
      <4>1. \A k \in DOMAIN fills :
              /\ fills[k].quantity \in Nat /\ fills[k].price \in Int
              /\ Owner(fills[k].taker) # "agent" /\ Owner(fills[k].maker) # "agent"
        BY <2>1, <3>1
      <4> QED BY <2>1, <4>1, NoGain
    <3>3. pnl'["agent"] = pnl["agent"]
      <4>1. "agent" \in Participants /\ pnl["agent"] \in Int
        BY DEF Typed, Participants, Players
      <4>2. pnl'["agent"] = pnl["agent"] + CashOf("agent", fills, told)
        BY <2>2, <4>1
      <4> QED BY <3>2, <4>1, <4>2
    <3> HIDE DEF Seats, fills, told, o, ids
    <3> QED BY <1>0, <2>2, <2>3, <2>4, <2>5, <2>6, <3>3 DEF Rewards
  <2>7. CASE ~(warm > 0)
    BY <2>2, <2>4, <2>7 DEF Rewards
  <2> QED BY <2>6, <2>7
<1>8. ASSUME NEW p \in Participants, NoiseTurn(p) PROVE Rewards'
  <2>1. PICK wishes \in RandomWishes(book) : Turn(p, wishes)
    BY <1>8 DEF NoiseTurn
  <2>2. wishes \in Seq(Wish) /\ book' = book
    BY <1>8, RandomWishesType DEF Typed, NoiseTurn
  <2> QED BY <2>1, <2>2, TurnRewards
<1>9. ASSUME NEW p \in Participants, PlayerTurn(p) PROVE Rewards'
  <2>1. PICK wishes \in PlayerWishes(book) : Turn(p, wishes)
    BY <1>9 DEF PlayerTurn
  <2>2. wishes \in Seq(Wish) /\ book' = book
    BY <1>9, PlayerWishesType DEF Typed, PlayerTurn
  <2> QED BY <2>1, <2>2, TurnRewards
<1>10. ASSUME NEW m \in Participants, MakerTurn(m) PROVE Rewards'
  <2> DEFINE b == Cancel(book, outstanding[m])
             wishes == MakerWishes(b, m)
  <2>1. Filed(b) /\ inventory[m] \in Int
    BY CancelShape DEF Typed
  <2>2. wishes \in Seq(Wish)
    BY <2>1, MakerWishesType
  <2>3. RestingIds(b) \subseteq RestingIds(book)
    BY RestingAfterCancel DEF Typed
  <2>4. Turn(m, wishes) /\ book' = b
    BY <1>10 DEF MakerTurn
  <2> HIDE DEF b, wishes
  <2> QED BY <2>2, <2>3, <2>4, TurnRewards
<1>11. CASE UNCHANGED vars
  BY <1>1, <1>11 DEF vars, market, agents, progress, history
<1> QED
  BY <1>2, <1>3, <1>4, <1>5, <1>6, <1>7, <1>8, <1>9, <1>10, <1>11 DEF Next

\* The pnl_deltas of an episode add up to what the RL agent has made since reset
\* (rl/trading_env.py, rl/self_play_env.py): nothing is paid for the warm-up, in
\* which it has no order, and nothing falls between two rewards.
THEOREM RewardsRight == Spec => []RewardsAddUp
<1>1. Init => Rewards
  BY DEF Init, Rewards, Nobody, Participants, Players, Environments
<1>2. Typed /\ Idle /\ Owners /\ Rewards /\ [Next]_vars => Rewards'
  BY RewardsNext
<1>3. Rewards => RewardsAddUp
  BY DEF Rewards, RewardsAddUp, Between
<1> QED BY <1>1, <1>2, <1>3, StateTyped, SeriesInv, OwnersInv, PTL DEF Spec

-----------------------------------------------------------------------------
(* Inventories and pnl against the fills.                                    *)

\* All but the noise traders of TradingEnv hear of all their fills.
LEMMA HearsAll ==
  ASSUME Typed, Owners, NEW p \in Participants, ~(driver = "trading" /\ p \in NoiseTraders),
         NEW f, NEW i \in Ids(pending), f.taker = i, f.maker \in RestingIds(book),
         NEW ids, ids = IF Owner(i) = Source THEN known ELSE known \cup {i}
  PROVE  Shares(p, f, Heard(f, ids)) = Shares(p, f, BothSides(f))
<1>0. p # Source
  BY ParticipantAssumption
<1>1. ASSUME Owner(f.taker) = p PROVE f.taker \in Heard(f, ids)
  BY <1>0, <1>1 DEF Heard
<1>2. ASSUME Owner(f.maker) = p PROVE f.maker \in Heard(f, ids)
  <2>1. f.maker \in ids
    BY <1>0, <1>2 DEF Owners
  <2>2. ASSUME driver = "trading", p # "agent" PROVE FALSE
    <3>1. PICK k \in DOMAIN Roster["trading"] : p = Roster["trading"][k]
      BY <1>2, <2>2 DEF Owners, Invited
    <3>2. p # "opponent" /\ p \notin MarketMakers
      BY <3>1, RosterAssumption DEF Drivers, Environments
    <3> QED BY <2>2, <3>2 DEF Participants, Players
  <2> QED BY <1>2, <2>1, <2>2 DEF Heard
<1> QED BY <1>1, <1>2 DEF Shares, BothSides

\* Every step adds to inventories and pnl what it adds to the history's account.
LEMMA BooksNext ==
  ASSUME Typed, Owners, BooksExact, [Next]_vars
  PROVE  BooksExact'
<1>1. ASSUME UNCHANGED <<driver, inventory, pnl, owned>> PROVE BooksExact'
  BY <1>1 DEF BooksExact
<1>2. CASE BeginStep \/ Event \/ EventWithoutOrder \/ EndStep \/ Finish
  BY <1>1, <1>2 DEF BeginStep, Event, EventWithoutOrder, EndStep, Finish, agents, history
<1>3. CASE Reset
  BY <1>3 DEF Reset, FreshAgents, Nobody, NoShares, BooksExact
<1>4. CASE SubmitNext
  <2> DEFINE o == Head(pending)
             fills == Submit(book, o).fills
             ids == IF Owner(o.id) = Source THEN known ELSE known \cup {o.id}
             told == [k \in DOMAIN fills |-> Heard(fills[k], ids)]
             all == [k \in DOMAIN fills |-> BothSides(fills[k])]
  <2>1. /\ o.id \in Ids(pending)
        /\ \A k \in DOMAIN fills : fills[k].taker = o.id /\ fills[k].maker \in RestingIds(book)
    BY <1>4, FillOwners
  <2>2. /\ driver' = driver
        /\ inventory' = [p \in Participants |-> inventory[p] + SharesOf(p, fills, told)]
        /\ pnl' = [p \in Participants |-> pnl[p] + CashOf(p, fills, told)]
        /\ owned' = [p \in Participants |->
                       [shares |-> owned[p].shares + SharesOf(p, fills, all),
                        cash |-> owned[p].cash + CashOf(p, fills, all)]]
    BY <1>4 DEF SubmitNext
  <2>3. ids = IF Owner(o.id) = Source THEN known ELSE known \cup {o.id}
    OBVIOUS
  <2>4. /\ \A k \in DOMAIN fills : told[k] = Heard(fills[k], ids)
        /\ \A k \in DOMAIN fills : all[k] = BothSides(fills[k])
    OBVIOUS
  <2> HIDE DEF fills, told, all, ids, o
  <2>5. ASSUME NEW p \in Participants, ~(driver = "trading" /\ p \in NoiseTraders)
        PROVE  SharesOf(p, fills, told) = SharesOf(p, fills, all)
               /\ CashOf(p, fills, told) = CashOf(p, fills, all)
    <3>1. \A k \in DOMAIN fills : Shares(p, fills[k], told[k]) = Shares(p, fills[k], all[k])
      BY <2>1, <2>3, <2>4, <2>5, HearsAll
    <3>2. [k \in DOMAIN fills |-> Shares(p, fills[k], told[k])]
            = [k \in DOMAIN fills |-> Shares(p, fills[k], all[k])]
      BY <3>1
    <3>3. [k \in DOMAIN fills |-> fills[k].price * Shares(p, fills[k], told[k])]
            = [k \in DOMAIN fills |-> fills[k].price * Shares(p, fills[k], all[k])]
      BY <3>1
    <3> QED BY <3>2, <3>3 DEF SharesOf, CashOf
  <2> QED BY <2>2, <2>5 DEF BooksExact
<1>5. ASSUME NEW p \in Participants, NoiseTurn(p) \/ PlayerTurn(p) \/ MakerTurn(p)
      PROVE  BooksExact'
  BY <1>1, <1>5 DEF NoiseTurn, PlayerTurn, MakerTurn, Turn, history
<1>6. CASE UNCHANGED vars
  BY <1>1, <1>6 DEF vars, agents, history
<1> QED BY <1>2, <1>3, <1>4, <1>5, <1>6 DEF Next

\* Inventories and pnl are what the fills come to, whoever's call returned them
\* (_route_fills of the loop and of the environments); only the noise traders of
\* TradingEnv miss some.
THEOREM BooksExactRight == Spec => []BooksExact
<1>1. Init => BooksExact
  BY DEF Init, BooksExact, Nobody, NoShares
<1>2. Typed /\ Owners /\ BooksExact /\ [Next]_vars => BooksExact'
  BY BooksNext
<1> QED BY <1>1, <1>2, StateTyped, OwnersInv, PTL DEF Spec

-----------------------------------------------------------------------------
(* What a market maker has in the market.                                    *)

\* There are n numbers up to n.
LEMMA CountTo ==
  ASSUME NEW n \in Nat
  PROVE  IsFiniteSet(1 .. n) /\ Cardinality(1 .. n) = n
  BY FS_Interval

\* Three orders have at most three ids.
LEMMA FewIds ==
  ASSUME NEW S, NEW q \in Seq(S), Len(q) =< 3
  PROVE  Cardinality(Ids(q)) =< 3
<1> DEFINE D == 1 .. Len(q)
           T == Ids(q)
           f == [k \in D |-> q[k].id]
<1>1. Len(q) \in Nat /\ DOMAIN q = D
  OBVIOUS
<1>2. IsFiniteSet(D) /\ Cardinality(D) = Len(q)
  <2> DEFINE n == Len(q)
  <2>1. n \in Nat
    OBVIOUS
  <2> HIDE DEF n
  <2>2. IsFiniteSet(1 .. n) /\ Cardinality(1 .. n) = n
    BY <2>1, CountTo
  <2> QED BY <2>2 DEF n
<1>3. T = {q[k].id : k \in D}
  BY <1>1 DEF Ids
<1>4. f \in Surjection(D, T)
  BY <1>3 DEF Surjection
<1> HIDE DEF f, T, D
<1>5. IsFiniteSet(T) /\ Cardinality(T) =< Cardinality(D)
  BY <1>2, <1>4, FS_Surjection
<1>6. Cardinality(T) \in Nat
  BY <1>5, FS_CardinalityType
<1> QED BY <1>1, <1>2, <1>5, <1>6 DEF T

\* Every step keeps a market maker's orders among the ids it remembers.
LEMMA QuotesCurrentNext ==
  ASSUME Typed, QuotesCurrent, [Next]_vars
  PROVE  QuotesCurrent'
<1>0. RestingIds(book)' = RestingIds(book') /\ Ids(pending)' = Ids(pending')
  BY DEF RestingIds, Ids
<1>1. ASSUME outstanding' = outstanding,
             \A m \in MarketMakers : \A i \in RestingIds(book') \cup Ids(pending') :
               Owner(i) = m => i \in RestingIds(book) \cup Ids(pending)
      PROVE  QuotesCurrent'
  BY <1>0, <1>1 DEF QuotesCurrent
<1>2. CASE BeginStep \/ EventWithoutOrder \/ EndStep \/ Finish
  <2>1. UNCHANGED <<outstanding, book, pending>>
    BY <1>2 DEF BeginStep, EventWithoutOrder, EndStep, Finish, market, agents
  <2> QED BY <1>1, <2>1
<1>3. CASE Event
  <2>1. PICK h \in History : pending' = Made(Source, <<h>>)
    BY <1>3 DEF Event
  <2>2. <<h>> \in Seq(Wish) /\ Source \in Participants \cup {Source} /\ counter[Source] \in Nat
    BY DEF Wish, Typed
  <2>3. \A i \in Ids(pending') : Owner(i) = Source
    BY <2>1, <2>2, MadeIds
  <2>4. \A m \in MarketMakers : m # Source
    BY ParticipantAssumption DEF Participants
  <2>5. UNCHANGED <<outstanding, book>>
    BY <1>3 DEF Event
  <2> QED BY <1>1, <2>3, <2>4, <2>5
<1>4. CASE Reset
  <2>1. book' = EmptyBook /\ pending' = <<>> /\ outstanding' = outstanding
    BY <1>4 DEF Reset, Between, FreshAgents
  <2> QED BY <1>1, <2>1, NothingRests
<1>5. CASE SubmitNext
  <2> DEFINE o == Head(pending)
  <2>1. o \in Orders /\ o.id \in Ids(pending) /\ Ids(Tail(pending)) \subseteq Ids(pending)
    BY <1>5, PendingTail, PendingIds DEF SubmitNext, Typed
  <2>2. /\ book' = Submit(book, o).book /\ pending' = Tail(pending) /\ outstanding' = outstanding
    BY <1>5 DEF SubmitNext
  <2> HIDE DEF o
  <2>3. RestingIds(book') \subseteq RestingIds(book) \cup {o.id}
    BY <2>1, <2>2, RestingAfterSubmit DEF Typed
  <2> QED BY <1>1, <2>1, <2>2, <2>3
<1>6. ASSUME NEW p \in Participants, NEW wishes \in Seq(Wish), Turn(p, wishes),
             p \notin MarketMakers, UNCHANGED <<book, outstanding>>
      PROVE  QuotesCurrent'
  <2>1. pending' = Made(p, wishes) /\ counter[p] \in Nat
    BY <1>6 DEF Turn, Typed
  <2>2. \A i \in Ids(pending') : Owner(i) = p
    BY <2>1, MadeIds
  <2> QED BY <1>1, <1>6, <2>2
<1>7. ASSUME NEW p \in Participants, NoiseTurn(p) PROVE QuotesCurrent'
  <2>1. PICK wishes \in RandomWishes(book) : Turn(p, wishes)
    BY <1>7 DEF NoiseTurn
  <2>2. wishes \in Seq(Wish) /\ p \notin MarketMakers /\ UNCHANGED <<book, outstanding>>
    BY <1>7, RandomWishesType, ParticipantAssumption DEF Typed, NoiseTurn
  <2> QED BY <1>6, <2>1, <2>2
<1>8. ASSUME NEW p \in Participants, PlayerTurn(p) PROVE QuotesCurrent'
  <2>1. PICK wishes \in PlayerWishes(book) : Turn(p, wishes)
    BY <1>8 DEF PlayerTurn
  <2>2. wishes \in Seq(Wish) /\ p \notin MarketMakers /\ UNCHANGED <<book, outstanding>>
    BY <1>8, PlayerWishesType, ParticipantAssumption DEF Typed, PlayerTurn
  <2> QED BY <1>6, <2>1, <2>2
<1>9. ASSUME NEW m \in Participants, MakerTurn(m) PROVE QuotesCurrent'
  <2> DEFINE b == Cancel(book, outstanding[m])
             wishes == MakerWishes(b, m)
             made == Made(m, wishes)
  <2>1. Filed(b) /\ inventory[m] \in Int
    BY CancelShape DEF Typed
  <2>2. wishes \in Seq(Wish) /\ Len(wishes) =< 3
    BY <2>1, MakerWishesType
  <2>3. /\ m \in MarketMakers /\ book' = b /\ pending' = made
        /\ outstanding' = [outstanding EXCEPT ![m] = Ids(made)]
    BY <1>9 DEF MakerTurn, Turn
  <2>4. RestingIds(b) \subseteq RestingIds(book) \ outstanding[m]
    BY RestingAfterCancel DEF Typed
  <2> HIDE DEF b, wishes
  <2>5. /\ made \in Seq(Orders) /\ Len(made) =< 3 /\ \A i \in Ids(made) : Owner(i) = m
    <3>1. counter[m] \in Nat
      BY DEF Typed
    <3> QED BY <2>2, <3>1, MadeShape, MadeIds
  <2> HIDE DEF made
  <2>6. Cardinality(Ids(made)) =< 3
    BY <2>5, FewIds
  <2>7. /\ outstanding'[m] = Ids(made)
        /\ \A n \in MarketMakers : n # m => outstanding'[n] = outstanding[n]
    BY <2>3 DEF Typed
  <2>8. ASSUME NEW n \in MarketMakers
        PROVE  /\ {i \in RestingIds(book') \cup Ids(pending') : Owner(i) = n} \subseteq outstanding'[n]
               /\ Cardinality(outstanding'[n]) =< 3
    <3>1. CASE n = m
      BY <2>3, <2>4, <2>6, <2>7, <3>1 DEF QuotesCurrent
    <3>2. CASE n # m
      BY <2>3, <2>4, <2>5, <2>7, <3>2 DEF QuotesCurrent
    <3> QED BY <3>1, <3>2
  <2> QED BY <1>0, <2>8 DEF QuotesCurrent
<1>10. CASE UNCHANGED vars
  <2>1. UNCHANGED <<outstanding, book, pending>>
    BY <1>10 DEF vars, market, agents
  <2> QED BY <1>1, <2>1
<1> QED
  BY <1>2, <1>3, <1>4, <1>5, <1>7, <1>8, <1>9, <1>10 DEF Next

\* A market maker knows all it has in the market: its next turn cancels every
\* order of its own that rests, and it never has more than three
\* (MarketMakerAgent.on_market_data, agents/market_maker.py).
THEOREM QuotesRight == Spec => []QuotesCurrent
<1>1. Init => QuotesCurrent
  <2> SUFFICES ASSUME Init, NEW m \in MarketMakers
               PROVE  /\ {i \in RestingIds(book) \cup Ids(pending) : Owner(i) = m} \subseteq outstanding[m]
                      /\ Cardinality(outstanding[m]) =< 3
    BY DEF QuotesCurrent
  <2>1. RestingIds(book) = {} /\ Ids(pending) = {} /\ outstanding[m] = {}
    BY NothingRests DEF Init
  <2>2. Cardinality({}) = 0
    BY FS_EmptySet
  <2> QED BY <2>1, <2>2
<1>2. Typed /\ QuotesCurrent /\ [Next]_vars => QuotesCurrent'
  BY QuotesCurrentNext
<1> QED BY <1>1, <1>2, StateTyped, PTL DEF Spec

-----------------------------------------------------------------------------
(* Trades of a market maker with itself.                                     *)

\* An order that is quiet does not trade.
LEMMA QuietNoTrade ==
  ASSUME NEW orders, NEW b, Filed(b), 1 \in DOMAIN orders, orders[1] \in Orders,
         Quiet(orders, 1, b)
  PROVE  ~Marketable(b, orders[1])
<1> DEFINE o == orders[1]
           q == b[Opposite(o.side)]
<1>1. CASE q = <<>>
  BY <1>1 DEF Marketable
<1>2. CASE q # <<>>
  <2>1. q \in Seq(Restable(Opposite(o.side)))
    <3>1. Opposite(o.side) \in Side
      BY DEF Opposite, Side
    <3> QED BY <3>1 DEF Filed
  <2>2. 1 \in DOMAIN q /\ Head(q) = q[1]
    BY <1>2, <2>1
  <2>3. o.kind = "GTC" /\ Better(o.side, q[1].price, o.price)
    BY <2>2 DEF Quiet
  <2>4. Best(b, Opposite(o.side)) = q[1].price
    BY <2>2 DEF Best
  <2> QED BY <2>3, <2>4 DEF Marketable
<1> QED BY <1>1, <1>2

\* A market maker that sells, or does not trade, does not gain shares.
LEMMA SalesLose ==
  ASSUME NEW m, NEW fills, IsFiniteSet(DOMAIN fills), NEW told,
         \A k \in DOMAIN fills :
           /\ fills[k].quantity \in Nat /\ fills[k].aggressor_side = "Sell"
           /\ Owner(fills[k].taker) = m /\ fills[k].taker \in told[k]
  PROVE  SharesOf(m, fills, told) =< 0
<1> DEFINE D == DOMAIN fills
           v == [k \in D |-> Shares(m, fills[k], told[k])]
<1>1. ASSUME NEW k \in D
      PROVE  Shares(m, fills[k], told[k]) \in Int /\ Shares(m, fills[k], told[k]) =< 0
  <2> DEFINE n == fills[k].quantity
             taken == IF fills[k].aggressor_side = "Buy" THEN n ELSE -n
             back == IF fills[k].maker \in told[k] /\ Owner(fills[k].maker) = m THEN taken ELSE 0
  <2>1. n \in Nat /\ taken = -n
    OBVIOUS
  <2>2. Shares(m, fills[k], told[k]) = taken - back
    BY DEF Shares
  <2>3. back \in {taken, 0}
    OBVIOUS
  <2> HIDE DEF n, taken, back
  <2>4. -n - (-n) = 0 /\ -n - 0 =< 0 /\ -n \in Int
    BY <2>1
  <2> QED BY <2>1, <2>2, <2>3, <2>4
<1>2. \A k \in D : v[k] \in Int /\ v[k] =< 0
  BY <1>1
<1>3. SharesOf(m, fills, told) = SumFunctionOnSet(v, D)
  BY DEF SharesOf, SumFunction
<1> HIDE DEF v, D
<1>4. IsFiniteSet(D)
  BY DEF D
<1>5. SumFunctionOnSet(v, D) =< 0
  BY <1>2, <1>4, SumNotAbove
<1> QED BY <1>3, <1>5

\* What is quiet, or alone, is so still when the first order has been submitted.
LEMMA QuietStays ==
  ASSUME NEW b, Filed(b), NEW orders \in Seq(Orders), orders # <<>>,
         NEW c, Submitted(b, Head(orders), c), NEW k \in DOMAIN Tail(orders)
  PROVE  /\ Quiet(orders, k + 1, b) => Quiet(Tail(orders), k, c)
         /\ OneOwner(orders) /\ Alone(orders, k + 1, b) => Alone(Tail(orders), k, c)
<1> DEFINE h == orders[1]
           o == orders[k + 1]
           rest == Tail(orders)
           opp == Opposite(o.side)
<1>1. /\ Head(orders) = h /\ h \in Orders /\ 1 \in DOMAIN orders /\ k \in Nat
      /\ rest[k] = o /\ o \in Orders /\ k + 1 \in DOMAIN orders
      /\ \A j \in 1 .. k - 1 : rest[j] = orders[j + 1] /\ j + 1 \in 1 .. (k + 1) - 1
      /\ 1 \in 1 .. (k + 1) - 1
  <2>1. /\ Head(orders) = h /\ h \in Orders /\ 1 \in DOMAIN orders
        /\ DOMAIN rest = 1 .. Len(orders) - 1
        /\ \A j \in 1 .. Len(orders) - 1 : rest[j] = orders[j + 1] /\ j + 1 \in DOMAIN orders
    BY PendingTail
  <2>2. k \in 1 .. Len(orders) - 1 /\ Len(orders) \in Nat
    BY <2>1
  <2>3. \A j \in 1 .. k - 1 : j \in 1 .. Len(orders) - 1 /\ j + 1 \in 1 .. (k + 1) - 1
    BY <2>2
  <2>4. 1 \in 1 .. (k + 1) - 1 /\ k \in Nat
    BY <2>2
  <2>5. k + 1 \in DOMAIN orders /\ o \in Orders
    BY <2>1, <2>2
  <2> HIDE DEF rest, h
  <2> QED BY <2>1, <2>2, <2>3, <2>4, <2>5
<1> HIDE DEF rest, h, o
<1>2. /\ h.side \in Side /\ o.side \in Side /\ opp \in Side /\ opp # o.side
      /\ h.side = opp \/ (h.side = o.side /\ Opposite(h.side) = opp)
  BY <1>1 DEF Orders, Opposite, Side
<1>3. \A x \in DOMAIN c[opp] :
        \/ \E j \in DOMAIN b[opp] : c[opp][x].price = b[opp][j].price /\ c[opp][x].id = b[opp][j].id
        \/ h.side = opp /\ c[opp][x].price = h.price
  <2>1. CASE h.side = opp
    BY <1>1, <2>1 DEF Submitted
  <2>2. CASE h.side = o.side /\ Opposite(h.side) = opp
    BY <1>1, <2>2 DEF Submitted, Kin
  <2> QED BY <1>2, <2>1, <2>2
<1>4. ASSUME Quiet(orders, k + 1, b) PROVE Quiet(rest, k, c)
  <2>1. /\ o.kind = "GTC"
        /\ \A j \in DOMAIN b[opp] : Better(o.side, b[opp][j].price, o.price)
        /\ \A j \in 1 .. (k + 1) - 1 :
             orders[j].side = opp => Better(o.side, orders[j].price, o.price)
    BY <1>4 DEF Quiet, o
  <2> HIDE DEF opp
  <2>2. \A x \in DOMAIN c[opp] : Better(o.side, c[opp][x].price, o.price)
    <3>1. h.side = opp => Better(o.side, h.price, o.price)
      BY <1>1, <2>1 DEF h
    <3> QED BY <1>3, <2>1, <3>1
  <2>3. \A j \in 1 .. k - 1 : rest[j].side = opp => Better(o.side, rest[j].price, o.price)
    BY <1>1, <2>1
  <2> QED BY <1>1, <2>1, <2>2, <2>3 DEF Quiet, opp
<1>5. ASSUME OneOwner(orders), Alone(orders, k + 1, b) PROVE Alone(rest, k, c)
  <2>1. /\ \A j \in DOMAIN b[opp] : Owner(b[opp][j].id) # Owner(o.id)
        /\ \A j \in 1 .. (k + 1) - 1 : orders[j].side = o.side
    BY <1>5 DEF Alone, o
  <2> HIDE DEF opp
  <2>2. h.side = o.side
    BY <1>1, <2>1 DEF h
  <2>3. \A x \in DOMAIN c[opp] : Owner(c[opp][x].id) # Owner(o.id)
    BY <1>2, <1>3, <2>1, <2>2
  <2>4. \A j \in 1 .. k - 1 : rest[j].side = o.side
    BY <1>1, <2>1
  <2> QED BY <1>1, <2>3, <2>4 DEF Alone, opp
<1> QED BY <1>4, <1>5 DEF rest

\* What a market maker has yet to submit stays careful.
LEMMA CarefulSubmit ==
  ASSUME Typed, Owners, OneOwner(pending), SubmitNext,
         NEW m \in MarketMakers, Owner(Head(pending).id) = m, Careful(pending, book, m)
  PROVE  Careful(pending, book, m)'
<1> DEFINE o == Head(pending)
           fills == Submit(book, o).fills
           ids == IF Owner(o.id) = Source THEN known ELSE known \cup {o.id}
           told == [k \in DOMAIN fills |-> Heard(fills[k], ids)]
           rest == Tail(pending)
           c == Submit(book, o).book
<1>1. /\ pending \in Seq(Orders) /\ pending # <<>> /\ Filed(book)
      /\ o \in Orders /\ o = pending[1] /\ 1 \in DOMAIN pending
      /\ Submitted(book, o, c)
      /\ DOMAIN rest = 1 .. Len(pending) - 1 /\ Len(rest) = Len(pending) - 1
      /\ Len(pending) \in Nat /\ DOMAIN pending = 1 .. Len(pending)
      /\ \A k \in DOMAIN rest : rest[k] = pending[k + 1] /\ k + 1 \in DOMAIN pending /\ k \in Int
  <2>1. pending \in Seq(Orders) /\ pending # <<>> /\ Filed(book)
    BY DEF Typed, SubmitNext
  <2>2. /\ o \in Orders /\ o = pending[1] /\ 1 \in DOMAIN pending
        /\ DOMAIN rest = 1 .. Len(pending) - 1
        /\ \A k \in 1 .. Len(pending) - 1 : rest[k] = pending[k + 1] /\ k + 1 \in DOMAIN pending
    BY <2>1, PendingTail
  <2>3. Submitted(book, o, c)
    <3> HIDE DEF o
    <3> QED BY <2>1, <2>2, SubmitShape
  <2>4. Len(pending) \in Nat /\ DOMAIN pending = 1 .. Len(pending)
    BY <2>1
  <2>5. Len(rest) = Len(pending) - 1
    BY <2>1
  <2> HIDE DEF rest, c, o
  <2> QED BY <2>1, <2>2, <2>3, <2>4, <2>5
<1>2. \A k \in DOMAIN rest : /\ Quiet(pending, k + 1, book) => Quiet(rest, k, c)
                             /\ Alone(pending, k + 1, book) => Alone(rest, k, c)
  <2>1. Submitted(book, Head(pending), c)
    BY <1>1
  <2> HIDE DEF c
  <2> QED BY <1>1, <2>1, QuietStays
<1>3. /\ pending' = rest /\ book' = c
      /\ inventory' = [p \in Participants |-> inventory[p] + SharesOf(p, fills, told)]
  BY DEF SubmitNext
<1>4. /\ IsFiniteSet(DOMAIN fills)
      /\ \A k \in DOMAIN fills :
           /\ fills[k].taker = o.id /\ fills[k].quantity \in Nat /\ fills[k].price \in Int
           /\ fills[k].aggressor_side = o.side
  BY FillOwners
<1>5. \A k \in DOMAIN fills : Marketable(book, o)
  <2> HIDE DEF o
  <2> QED BY <1>1, FillShape
<1>6. m \in Participants /\ m # Source /\ m # "agent" /\ inventory[m] \in Int
  BY ParticipantAssumption DEF Participants, Players, Typed
<1>7. \A k \in DOMAIN fills : fills[k].taker \in told[k]
  <2>1. o.id \in ids
    BY <1>6
  <2> HIDE DEF o, fills, ids
  <2>2. \A k \in DOMAIN fills : fills[k].taker \in Heard(fills[k], ids)
    BY <1>4, <2>1 DEF Heard
  <2> QED BY <2>2
<1>8. ASSUME o.side = "Sell" \/ Quiet(pending, 1, book), inventory[m] < 0
      PROVE  inventory'[m] < 0
  <2> HIDE DEF fills, told, o, c, rest, ids
  <2>1. SharesOf(m, fills, told) \in Int
    BY <1>4, GainType
  <2>2. \A k \in DOMAIN fills : o.side = "Sell"
    BY <1>1, <1>5, <1>8, QuietNoTrade
  <2>3. \A k \in DOMAIN fills :
           /\ fills[k].quantity \in Nat /\ fills[k].aggressor_side = "Sell"
           /\ Owner(fills[k].taker) = m /\ fills[k].taker \in told[k]
    BY <1>4, <1>7, <2>2 DEF o
  <2>4. SharesOf(m, fills, told) =< 0
    BY <1>4, <2>3, SalesLose
  <2>5. inventory'[m] = inventory[m] + SharesOf(m, fills, told)
    BY <1>3, <1>6
  <2> QED BY <1>6, <1>8, <2>1, <2>4, <2>5
<1> HIDE DEF fills, told, o, c, rest, ids
<1>9. CASE \A k \in DOMAIN pending : Quiet(pending, k, book) \/ Alone(pending, k, book)
  <2>1. \A k \in DOMAIN rest : Quiet(rest, k, c) \/ Alone(rest, k, c)
    BY <1>1, <1>2, <1>9
  <2>2. \A k \in DOMAIN pending' : Quiet(pending', k, book') \/ Alone(pending', k, book')
    BY <1>3, <2>1
  <2> QED BY <2>2 DEF Careful, Quiet, Alone
<1>10. CASE /\ inventory[m] < 0
            /\ \A k \in DOMAIN pending :
                 k < Len(pending) => pending[k].side = "Sell" \/ Quiet(pending, k, book)
  <2>1. CASE DOMAIN rest = {}
    BY <1>3, <2>1 DEF Careful
  <2>2. CASE DOMAIN rest # {}
    <3>1. 1 < Len(pending)
      BY <1>1, <2>2
    <3>2. inventory'[m] < 0
      BY <1>1, <1>8, <1>10, <3>1
    <3>3. ASSUME NEW k \in DOMAIN rest, k < Len(rest)
          PROVE  rest[k].side = "Sell" \/ Quiet(rest, k, c)
      <4>1. k + 1 < Len(pending) /\ k + 1 \in DOMAIN pending
        BY <1>1, <3>3
      <4>2. pending[k + 1].side = "Sell" \/ Quiet(pending, k + 1, book)
        BY <1>10, <4>1
      <4> QED BY <1>1, <1>2, <4>2
    <3>4. \A k \in DOMAIN pending' :
            k < Len(pending') => pending'[k].side = "Sell" \/ Quiet(pending', k, book')
      BY <1>3, <3>3
    <3> QED BY <3>2, <3>4 DEF Careful, Quiet
  <2> QED BY <2>1, <2>2
<1> QED BY <1>9, <1>10 DEF Careful

\* The third of a spread is less than it, and a skew is not negative.
LEMMA Thirds ==
  ASSUME NEW x \in Nat
  PROVE  /\ x \div 3 \in Nat /\ 3 * (x \div 3) =< x
         /\ x > 2 => 1 + x \div 3 < x
         /\ x > 0 => x \div 3 < x
<1>1. x = 3 * (x \div 3) + (x % 3) /\ x % 3 \in 0 .. 2 /\ x \div 3 \in Int
  OBVIOUS
<1> DEFINE d == x \div 3
           r == x % 3
<1>2. x = 3 * d + r /\ r \in 0 .. 2 /\ d \in Int
  BY <1>1
<1> HIDE DEF d, r
<1>3. d \in Nat /\ 3 * d =< x /\ (x > 2 => 1 + d < x) /\ (x > 0 => d < x)
  BY <1>2
<1> QED BY <1>3 DEF d

\* The quotient of a natural number is one, and zero of zero.
LEMMA QuotientSign ==
  ASSUME NEW x \in Nat, NEW n \in Nat \ {0}
  PROVE  x \div n \in Nat /\ (x = 0 => x \div n = 0)
<1>1. x = n * (x \div n) + (x % n) /\ x % n \in 0 .. n - 1 /\ x \div n \in Int
  OBVIOUS
<1> DEFINE d == x \div n
           r == x % n
<1>2. x = n * d + r /\ r \in 0 .. n - 1 /\ d \in Int
  BY <1>1
<1> HIDE DEF d, r
<1>3. ~(d < 0)
  <2> SUFFICES ASSUME d < 0 PROVE FALSE
    OBVIOUS
  <2>1. d + 1 =< 0
    BY <1>2
  <2>2. n * (d + 1) =< 0
    BY <2>1, <1>2
  <2>3. n * (d + 1) = n * d + n
    BY <1>2
  <2> QED BY <1>2, <2>2, <2>3
<1>4. x = 0 => d = 0
  <2> SUFFICES ASSUME x = 0, d > 0 PROVE FALSE
    BY <1>2, <1>3
  <2>1. n * d > 0
    BY <1>2
  <2> QED BY <1>2, <2>1
<1> QED BY <1>2, <1>3, <1>4 DEF d

\* Where the quotes are: the ask above the best bid, and no lower than a bid of
\* one who is not short; the bid below the best ask.
LEMMA QuotesApart ==
  ASSUME NEW b, Filed(b), Market(b), Missing(b) = <<>>, NEW q \in Int
  PROVE  /\ Best(b, "Buy") \in Int /\ Best(b, "Sell") \in Int
         /\ Tick =< Best(b, "Buy") /\ Best(b, "Buy") < Best(b, "Sell")
         /\ Best(b, "Buy") < AskPrice(b)
         /\ Tick =< BidPrice(b, q) /\ BidPrice(b, q) < Best(b, "Sell")
         /\ q >= 0 => BidPrice(b, q) < AskPrice(b)
<1> DEFINE D == Best(b, "Buy")
           A == Best(b, "Sell")
           x == Max({q, -q})
           y == x \div SkewUnit
           z == Spread(b) \div 3
           skew == Min({y, z})
           imp == Improvement(b)
           v == D + imp - (IF q > 0 THEN skew ELSE -skew)
<1>0. SkewUnit \in Nat \ {0} /\ Tick \in Int
  BY PriceAssumption
<1>1. /\ D \in Int /\ A \in Int /\ D = b["Buy"][1].price /\ A = b["Sell"][1].price
      /\ 1 \in DOMAIN b["Buy"] /\ 1 \in DOMAIN b["Sell"]
  BY MissingSides DEF Side
<1>2. Tick =< D /\ D < A
  <2>1. b["Buy"][1].price >= Tick
    BY <1>1 DEF Market, Floored, Side
  <2>2. b["Buy"][1].price < b["Sell"][1].price
    BY <1>1 DEF Market
  <2> QED BY <1>0, <1>1, <2>1, <2>2
<1>3. Spread(b) = A - D /\ imp = (IF A - D > 2 THEN 1 ELSE 0)
  BY DEF Spread, Improvement
<1>4. /\ z \in Nat /\ (A - D > 2 => 1 + z < A - D) /\ z < A - D
  <2>1. A - D \in Nat /\ A - D > 0
    BY <1>1, <1>2
  <2> HIDE DEF A, D
  <2> QED BY <1>3, <2>1, Thirds
<1>5. x \in Nat /\ (q = 0 => x = 0)
  <2>1. -q \in Int /\ x = (IF q >= -q THEN q ELSE -q)
    BY MaxOfTwo
  <2> HIDE DEF x
  <2> QED BY <2>1
<1>6. y \in Nat /\ (q = 0 => y = 0)
  <2> HIDE DEF x
  <2> QED BY <1>0, <1>5, QuotientSign
<1> HIDE DEF x, y, z
<1>7. skew \in Nat /\ skew =< z /\ (q = 0 => skew = 0)
  <2>0. y \in Int /\ z \in Int
    BY <1>4, <1>6
  <2>1. skew = (IF y =< z THEN y ELSE z)
    BY <2>0, MaxOfTwo
  <2> HIDE DEF skew
  <2> QED BY <1>4, <1>6, <2>1
<1>8. BidPrice(b, q) = Max({v, Tick})
  BY DEF BidPrice, x, y, z
<1>9. AskPrice(b) = A - imp
  BY DEF AskPrice
<1> HIDE DEF skew, D, A, imp
<1>10. v \in Int /\ v < A /\ (q >= 0 => v =< D + imp)
  <2>1. imp \in {0, 1}
    BY <1>3
  <2>2. v =< D + imp + skew
    BY <1>1, <1>7, <2>1
  <2>3. D + imp + z < A
    BY <1>1, <1>3, <1>4
  <2>4. q > 0 => v = D + imp - skew
    OBVIOUS
  <2>5. q = 0 => v = D + imp
    BY <1>1, <1>7, <2>1
  <2>6. v \in Int
    BY <1>1, <1>7, <2>1
  <2> HIDE DEF v, z
  <2>7. z \in Int /\ D \in Int /\ A \in Int /\ skew \in Int /\ imp \in Int
    BY <1>1, <1>4, <1>7, <2>1
  <2>8. D + imp + skew < A
    BY <1>7, <2>3, <2>7
  <2>9. v < A
    BY <2>2, <2>6, <2>7, <2>8
  <2>10. CASE q > 0
    <3>1. v = D + imp - skew /\ skew >= 0
      BY <1>7, <2>4, <2>10
    <3>2. v =< D + imp
      BY <2>7, <3>1
    <3> QED BY <2>6, <2>9, <3>2
  <2>11. CASE ~(q > 0)
    <3>1. q >= 0 => v = D + imp
      BY <2>5, <2>11
    <3>2. q >= 0 => v =< D + imp
      BY <2>7, <3>1
    <3> QED BY <2>6, <2>9, <3>2
  <2> QED BY <2>10, <2>11
<1> HIDE DEF v
<1>11. BidPrice(b, q) = (IF v >= Tick THEN v ELSE Tick)
  BY <1>0, <1>8, <1>10, MaxOfTwo
<1>12. D < A - imp /\ D + imp < A - imp /\ Tick < A - imp
  BY <1>0, <1>1, <1>2, <1>3
<1>13. Tick =< BidPrice(b, q) /\ BidPrice(b, q) < A
  BY <1>0, <1>1, <1>2, <1>10, <1>11
<1>14. q >= 0 => BidPrice(b, q) < A - imp
  <2>1. imp \in {0, 1}
    BY <1>3
  <2> QED BY <1>0, <1>1, <1>10, <1>11, <1>12, <2>1
<1> QED BY <1>1, <1>2, <1>9, <1>12, <1>13, <1>14 DEF D, A

\* What rests on a side is no better than the best.
LEMMA BestIsBest ==
  ASSUME NEW b, Filed(b), Market(b), Missing(b) = <<>>
  PROVE  /\ \A j \in DOMAIN b["Buy"] : b["Buy"][j].price \in Int
                                       /\ b["Buy"][j].price =< Best(b, "Buy")
         /\ \A j \in DOMAIN b["Sell"] : b["Sell"][j].price \in Int
                                        /\ b["Sell"][j].price >= Best(b, "Sell")
<1>1. ASSUME NEW s \in Side, NEW j \in DOMAIN b[s]
      PROVE  /\ b[s][j].price \in Int /\ Best(b, s) \in Int
             /\ ~Better(s, b[s][j].price, Best(b, s))
  <2>1. b[s] \in Seq(Restable(s)) /\ Sorted(s, b[s])
    BY DEF Filed, Market
  <2>2. 1 \in DOMAIN b[s] /\ Best(b, s) = b[s][1].price /\ Best(b, s) \in Int
    BY MissingSides
  <2>3. b[s][j].price \in Int
    BY <2>1, RestablePrices
  <2>4. j = 1 \/ 1 < j
    BY <2>1
  <2>5. 1 < j => ~Better(s, b[s][j].price, b[s][1].price)
    BY <2>1, <2>2 DEF Sorted
  <2> QED BY <2>2, <2>3, <2>4, <2>5 DEF Better
<1>2. ASSUME NEW j \in DOMAIN b["Buy"]
      PROVE  b["Buy"][j].price \in Int /\ b["Buy"][j].price =< Best(b, "Buy")
  <2>1. b["Buy"][j].price \in Int /\ Best(b, "Buy") \in Int
        /\ ~Better("Buy", b["Buy"][j].price, Best(b, "Buy"))
    BY <1>1 DEF Side
  <2> QED BY <2>1 DEF Better
<1>3. ASSUME NEW j \in DOMAIN b["Sell"]
      PROVE  b["Sell"][j].price \in Int /\ b["Sell"][j].price >= Best(b, "Sell")
  <2>1. b["Sell"][j].price \in Int /\ Best(b, "Sell") \in Int
        /\ ~Better("Sell", b["Sell"][j].price, Best(b, "Sell"))
    BY <1>1 DEF Side
  <2> QED BY <2>1 DEF Better
<1> QED BY <1>2, <1>3

\* A turn's orders are of one owner, and none is below a tick.
LEMMA MadeFloors ==
  ASSUME NEW p \in Participants \cup {Source}, counter[p] \in Nat,
         NEW wishes \in Seq(Wish),
         \A k \in DOMAIN wishes : wishes[k].kind = "GTC" => wishes[k].price >= Tick
  PROVE  Floors(Made(p, wishes)) /\ OneOwner(Made(p, wishes))
<1> DEFINE made == Made(p, wishes)
<1>1. /\ made \in Seq(Orders) /\ Len(made) = Len(wishes)
      /\ \A k \in 1 .. Len(wishes) :
           /\ Owner(made[k].id) = p /\ made[k].kind = wishes[k].kind
           /\ made[k].price = wishes[k].price
  BY MadeShape
<1> HIDE DEF made
<1>2. DOMAIN made = 1 .. Len(wishes) /\ DOMAIN wishes = 1 .. Len(wishes)
  BY <1>1
<1>3. Floors(made) /\ OneOwner(made)
  BY <1>1, <1>2 DEF Floors, OneOwner
<1> QED BY <1>3 DEF made

\* A RandomAgent asks for no price below a tick.
LEMMA RandomFloors ==
  ASSUME PricesAboveTick, NEW b, Filed(b), NEW wishes \in RandomWishes(b), NEW k \in DOMAIN wishes
  PROVE  wishes[k].price >= Tick
<1> DEFINE missing == Missing(b)
<1>0. /\ BasePrice \in Int /\ Tick \in Nat /\ TickRange \in Nat /\ MaxQuantity \in Nat
  BY PriceAssumption
<1>1. missing \in Seq(Side)
  BY MissingSides
<1>2. CASE missing # <<>>
  <2>1. PICK d \in [DOMAIN missing -> 1 .. TickRange], q \in [DOMAIN missing -> 1 .. MaxQuantity] :
          wishes = [j \in DOMAIN missing |->
                      Limit(missing[j], Away(missing[j], BasePrice, Tick * d[j]), q[j])]
    BY <1>2 DEF RandomWishes
  <2> HIDE DEF missing
  <2>2. k \in DOMAIN missing /\ d[k] \in 1 .. TickRange
    BY <2>1
  <2>3. wishes[k].price = Away(missing[k], BasePrice, Tick * d[k])
    BY <2>1, <2>2 DEF Limit
  <2> DEFINE n == d[k]
  <2>4. n \in Nat /\ TickRange - n \in Nat
    BY <1>0, <2>2
  <2> HIDE DEF n
  <2>5. Tick * n \in Nat /\ Tick * n =< Tick * TickRange /\ Tick * TickRange \in Nat
    BY <1>0, <2>4
  <2>6. BasePrice - Tick * n >= Tick /\ BasePrice + Tick * n >= Tick
    BY <1>0, <2>5 DEF PricesAboveTick
  <2> QED BY <2>3, <2>6 DEF Away, n
<1>3. CASE missing = <<>>
  <2> DEFINE mid == (Best(b, "Buy") + Best(b, "Sell")) \div 2
             form(s, d, q) == <<Limit(s, Max({Away(s, mid, Tick * d), Tick}), q)>>
  <2>1. PICK s \in Side, d \in 0 .. TickRange, q \in 1 .. MaxQuantity : wishes = form(s, d, q)
    <3>1. RandomWishes(b) = {form(s, d, q) : s \in Side, d \in 0 .. TickRange, q \in 1 .. MaxQuantity}
      BY <1>3 DEF RandomWishes
    <3> HIDE DEF form
    <3> QED BY <3>1
  <2>2. mid \in Int
    <3>1. Best(b, "Buy") \in Int /\ Best(b, "Sell") \in Int
      BY <1>3, MissingSides DEF Side
    <3> QED BY <3>1
  <2> HIDE DEF mid
  <2>3. Tick * d \in Int
    BY <1>0
  <2>4. Away(s, mid, Tick * d) \in Int
    BY <2>2, <2>3 DEF Away
  <2>5. Max({Away(s, mid, Tick * d), Tick}) >= Tick
    <3> DEFINE a == Away(s, mid, Tick * d)
    <3>1. a \in Int
      BY <2>4
    <3> HIDE DEF a
    <3>2. Max({a, Tick}) = IF a >= Tick THEN a ELSE Tick
      BY <1>0, <3>1, MaxOfTwo
    <3> QED BY <1>0, <3>1, <3>2 DEF a
  <2>6. wishes[k].price = Max({Away(s, mid, Tick * d), Tick})
    <3> DEFINE w == Limit(s, Max({Away(s, mid, Tick * d), Tick}), q)
    <3>1. w.price = Max({Away(s, mid, Tick * d), Tick})
      BY DEF Limit
    <3>2. wishes = <<w>>
      BY <2>1
    <3> HIDE DEF w
    <3>3. wishes[k] = w
      BY <3>2
    <3> QED BY <3>1, <3>3
  <2> QED BY <2>5, <2>6
<1> QED BY <1>2, <1>3

\* A policy asks for no price below a tick: it takes a best price of the book.
LEMMA PlayerFloors ==
  ASSUME NEW b, Filed(b), Market(b), NEW wishes \in PlayerWishes(b), NEW k \in DOMAIN wishes,
         wishes[k].kind = "GTC"
  PROVE  wishes[k].price >= Tick
<1>1. wishes # <<>>
  OBVIOUS
<1>2. Missing(b) = <<>>
  BY <1>1 DEF PlayerWishes
<1>3. ASSUME NEW s \in Side PROVE Best(b, s) >= Tick
  <2>1. 1 \in DOMAIN b[s] /\ Best(b, s) = b[s][1].price
    BY <1>2, MissingSides
  <2> QED BY <2>1 DEF Market, Floored
<1>4. PICK s \in Side : \/ wishes = <<Limit(s, Best(b, s), 1)>>
                        \/ wishes = <<[Limit(s, Best(b, Opposite(s)), 1) EXCEPT !.kind = "IOC"]>>
  BY <1>1, <1>2 DEF PlayerWishes
<1>5. CASE wishes = <<Limit(s, Best(b, s), 1)>>
  <2> DEFINE w == Limit(s, Best(b, s), 1)
  <2>1. w.price = Best(b, s)
    BY DEF Limit
  <2> HIDE DEF w
  <2>2. wishes[k] = w
    BY <1>5 DEF w
  <2> QED BY <1>3, <2>1, <2>2
<1>6. CASE wishes = <<[Limit(s, Best(b, Opposite(s)), 1) EXCEPT !.kind = "IOC"]>>
  <2> DEFINE w == [Limit(s, Best(b, Opposite(s)), 1) EXCEPT !.kind = "IOC"]
  <2>1. w.kind = "IOC"
    BY DEF Limit
  <2> HIDE DEF w
  <2>2. wishes[k] = w
    BY <1>6 DEF w
  <2> QED BY <2>1, <2>2
<1> QED BY <1>4, <1>5, <1>6

\* Nothing in book b is an order of m.
Absent(b, m) == \A s \in Side : \A j \in DOMAIN b[s] : Owner(b[s][j].id) # m

\* The orders are those that m makes of the wishes w.
Like(orders, w, m) ==
  /\ orders \in Seq(Orders) /\ Len(orders) = Len(w)
  /\ \A k \in 1 .. Len(w) :
       /\ Owner(orders[k].id) = m
       /\ orders[k].side = w[k].side /\ orders[k].kind = w[k].kind
       /\ orders[k].price = w[k].price

\* Such orders have sides, and are as many as the wishes.
LEMMA LikeShape ==
  ASSUME NEW w \in Seq(Wish), NEW m, NEW orders, Like(orders, w, m)
  PROVE  /\ DOMAIN orders = 1 .. Len(w) /\ Len(orders) = Len(w)
         /\ \A k \in 1 .. Len(w) :
              /\ orders[k].side \in Side /\ Owner(orders[k].id) = m
              /\ orders[k].side = w[k].side /\ orders[k].kind = w[k].kind
              /\ orders[k].price = w[k].price
<1>1. orders \in Seq(Orders) /\ Len(orders) = Len(w)
  BY DEF Like
<1>2. \A o \in Orders : o.side \in Side
  BY DEF Orders
<1>3. DOMAIN orders = 1 .. Len(w)
  BY <1>1
<1>4. \A k \in 1 .. Len(w) : orders[k].side \in Side
  BY <1>1, <1>2, <1>3
<1> QED BY <1>1, <1>3, <1>4 DEF Like

\* The first order of one who has nothing in the market trades with others.
LEMMA FirstAlone ==
  ASSUME NEW b, NEW m, Absent(b, m), NEW orders, orders[1].side \in Side,
         Owner(orders[1].id) = m
  PROVE  Alone(orders, 1, b)
<1>1. Opposite(orders[1].side) \in Side
  BY DEF Opposite, Side
<1>2. \A j \in 1 .. 1 - 1 : FALSE
  OBVIOUS
<1> QED BY <1>1, <1>2 DEF Absent, Alone

\* Both sides are missing when two are.
LEMMA MissingBoth ==
  ASSUME NEW b, Filed(b), Len(Missing(b)) = 2
  PROVE  Missing(b)[1] = "Buy" /\ Missing(b)[2] = "Sell" /\ b["Buy"] = <<>>
<1> DEFINE x == IF b["Buy"] = <<>> THEN <<"Buy">> ELSE <<>>
           y == IF b["Sell"] = <<>> THEN <<"Sell">> ELSE <<>>
<1>1. Missing(b) = x \o y
  BY DEF Missing
<1>2. x \in {<<>>, <<"Buy">>} /\ y \in {<<>>, <<"Sell">>}
  OBVIOUS
<1>3. x = <<"Buy">> => b["Buy"] = <<>>
  OBVIOUS
<1> HIDE DEF x, y
<1>4. x = <<"Buy">> /\ y = <<"Sell">>
  <2>1. Len(<<"Buy">> \o <<>>) = 1 /\ Len(<<>> \o <<"Sell">>) = 1 /\ Len(<<>> \o <<>>) = 0
    OBVIOUS
  <2> QED BY <1>1, <1>2, <2>1
<1>5. (<<"Buy">> \o <<"Sell">>)[1] = "Buy" /\ (<<"Buy">> \o <<"Sell">>)[2] = "Sell"
  <2> DEFINE p == <<"Buy">>
             r == <<"Sell">>
  <2>1. p \in Seq(Side) /\ r \in Seq(Side)
    BY DEF Side
  <2>2. Len(p) = 1 /\ p[1] = "Buy" /\ Len(r) = 1 /\ r[1] = "Sell"
    OBVIOUS
  <2> HIDE DEF p, r
  <2>3. \A k \in 1 .. Len(p) + Len(r) :
          (p \o r)[k] = IF k =< Len(p) THEN p[k] ELSE r[k - Len(p)]
    BY <2>1
  <2>4. (p \o r)[1] = p[1] /\ (p \o r)[2] = r[1]
    BY <2>2, <2>3
  <2> QED BY <2>2, <2>4 DEF p, r
<1> QED BY <1>1, <1>3, <1>4, <1>5

\* A market maker that opens a market does not trade with itself.
LEMMA OpeningsCareful ==
  ASSUME NEW b, Filed(b), Missing(b) # <<>>, NEW m, Absent(b, m),
         NEW w \in Seq(Wish), Openings(w, b), NEW orders, Like(orders, w, m)
  PROVE  Careful(orders, b, m)
<1>0. BasePrice \in Int /\ SeedOffset \in Nat \ {0}
  BY PriceAssumption
<1>1. /\ Len(w) =< 2 /\ Len(w) \in Nat /\ Len(w) = Len(Missing(b))
      /\ \A k \in 1 .. Len(w) :
           /\ Owner(orders[k].id) = m /\ orders[k].side = Missing(b)[k]
           /\ orders[k].kind = "GTC"
           /\ orders[k].price = Away(Missing(b)[k], BasePrice, SeedOffset)
  BY MissingSides DEF Openings, Like
<1>2. DOMAIN orders = 1 .. Len(w) /\ \A k \in 1 .. Len(w) : orders[k].side \in Side
  BY LikeShape
<1>3. ASSUME 1 \in DOMAIN orders PROVE Alone(orders, 1, b)
  BY <1>1, <1>2, <1>3, FirstAlone
<1>4. ASSUME 2 \in DOMAIN orders PROVE Quiet(orders, 2, b)
  <2>1. Len(Missing(b)) = 2 /\ 1 \in 1 .. Len(w) /\ 2 \in 1 .. Len(w)
    BY <1>1, <1>2, <1>4
  <2>2. Missing(b)[1] = "Buy" /\ Missing(b)[2] = "Sell" /\ b["Buy"] = <<>>
    BY <2>1, MissingBoth
  <2>3. /\ orders[2].kind = "GTC" /\ orders[2].side = "Sell" /\ orders[1].side = "Buy"
        /\ orders[2].price = BasePrice + SeedOffset
        /\ orders[1].price = BasePrice - SeedOffset
    BY <1>1, <2>1, <2>2 DEF Away
  <2>4. Better("Sell", orders[1].price, orders[2].price)
    BY <1>0, <2>3 DEF Better
  <2>5. \A j \in 1 .. 2 - 1 : j = 1
    OBVIOUS
  <2>6. DOMAIN b["Buy"] = {} /\ Opposite("Sell") = "Buy"
    BY <2>2 DEF Opposite
  <2> QED BY <2>3, <2>4, <2>5, <2>6 DEF Quiet
<1>5. ASSUME NEW k \in DOMAIN orders PROVE k = 1 \/ k = 2
  BY <1>1, <1>2
<1> QED BY <1>3, <1>4, <1>5 DEF Careful

\* A market maker that quotes on both sides does not trade with itself, or it is
\* short and only its last order may.
LEMMA QuotesCareful ==
  ASSUME NEW b, Filed(b), Market(b), Missing(b) = <<>>, NEW m, Absent(b, m),
         inventory[m] \in Int,
         NEW w \in Seq(Wish), Quotes(w, b, inventory[m]), NEW orders, Like(orders, w, m)
  PROVE  Careful(orders, b, m)
<1> DEFINE q == inventory[m]
           bid == BidPrice(b, q)
           ask == AskPrice(b)
           D == Best(b, "Buy")
           A == Best(b, "Sell")
<1>0. MaxInventory \in Nat /\ q \in Int
  BY PriceAssumption
<1>1. /\ D \in Int /\ A \in Int /\ D < ask /\ bid < A /\ bid \in Int /\ ask \in Int
      /\ q >= 0 => bid < ask
  <2>1. q \in Int
    OBVIOUS
  <2> HIDE DEF q
  <2> QED BY <2>1, QuotesApart, QuotePrices
<1>2. /\ \A j \in DOMAIN b["Buy"] : Better("Sell", b["Buy"][j].price, ask)
      /\ \A j \in DOMAIN b["Sell"] : Better("Buy", b["Sell"][j].price, bid)
  <2>1. /\ \A j \in DOMAIN b["Buy"] : b["Buy"][j].price \in Int /\ b["Buy"][j].price =< D
        /\ \A j \in DOMAIN b["Sell"] : b["Sell"][j].price \in Int /\ b["Sell"][j].price >= A
    BY BestIsBest
  <2> HIDE DEF D, A, ask, bid
  <2> QED BY <1>1, <2>1 DEF Better
<1>3. PICK h \in {0, 1} :
        /\ Len(w) \in {h + 1, h + 2}
        /\ h = 1 <=> q < MaxInventory
        /\ h = 1 => w[1] = Bid(b, q)
        /\ w[h + 1] = Ask(b)
        /\ Len(w) = h + 2 =>
             /\ w[h + 2].kind = "GTC" /\ w[h + 2].price \in {D, A}
             /\ q >= 0 => h = 0 /\ w[h + 2].side = "Sell"
  BY DEF Quotes
<1>4. /\ Bid(b, q).side = "Buy" /\ Bid(b, q).kind = "GTC" /\ Bid(b, q).price = bid
      /\ Ask(b).side = "Sell" /\ Ask(b).kind = "GTC" /\ Ask(b).price = ask
  BY DEF Bid, Ask, Limit
<1> HIDE DEF q, bid, ask, D, A
<1>5. /\ DOMAIN orders = 1 .. Len(w) /\ Len(orders) = Len(w)
      /\ \A k \in 1 .. Len(w) :
           /\ orders[k].side \in Side /\ Owner(orders[k].id) = m
           /\ orders[k].side = w[k].side /\ orders[k].kind = w[k].kind
           /\ orders[k].price = w[k].price
  BY LikeShape
<1>6. 1 \in 1 .. Len(w)
  BY <1>3
<1>7. Alone(orders, 1, b)
  BY <1>5, <1>6, FirstAlone
<1>8. Opposite("Sell") = "Buy" /\ Opposite("Buy") = "Sell"
  BY DEF Opposite
<1>9. CASE q >= 0 /\ h = 1
  <2>1. Len(w) = 2
    BY <1>3, <1>9
  <2>2. /\ orders[1].price = bid /\ orders[2].side = "Sell" /\ orders[2].kind = "GTC"
        /\ orders[2].price = ask
    BY <1>3, <1>4, <1>5, <1>9, <2>1
  <2>3. Better("Sell", orders[1].price, orders[2].price)
    BY <1>1, <1>9, <2>2 DEF Better
  <2>4. \A j \in 1 .. 2 - 1 : j = 1
    OBVIOUS
  <2>5. Quiet(orders, 2, b)
    BY <1>2, <1>8, <2>2, <2>3, <2>4 DEF Quiet
  <2>6. \A k \in DOMAIN orders : k = 1 \/ k = 2
    BY <1>5, <2>1
  <2> QED BY <1>7, <2>5, <2>6 DEF Careful
<1>10. CASE q >= 0 /\ h = 0
  <2>1. Len(w) \in {1, 2}
    BY <1>3, <1>10
  <2>2. \A k \in DOMAIN orders : k = 1 \/ k = 2
    BY <1>5, <2>1
  <2>3. ASSUME 2 \in DOMAIN orders PROVE Alone(orders, 2, b)
    <3>1. Len(w) = 2
      BY <1>5, <2>1, <2>3
    <3>2. orders[1].side = "Sell" /\ orders[2].side = "Sell" /\ Owner(orders[2].id) = m
      BY <1>3, <1>4, <1>5, <1>10, <3>1
    <3>3. \A j \in 1 .. 2 - 1 : j = 1
      OBVIOUS
    <3>4. \A j \in DOMAIN b["Buy"] : Owner(b["Buy"][j].id) # m
      BY DEF Absent, Side
    <3> QED BY <1>8, <3>2, <3>3, <3>4 DEF Alone
  <2> QED BY <1>7, <2>2, <2>3 DEF Careful
<1>11. CASE q < 0
  <2>0. q < MaxInventory
    BY <1>0, <1>11
  <2>1. h = 1 /\ Len(w) \in {2, 3}
    <3>1. h = 1
      BY <1>3, <2>0
    <3> QED BY <1>3, <3>1
  <2>2. /\ orders[1].side = "Buy" /\ orders[1].kind = "GTC" /\ orders[1].price = bid
        /\ orders[2].side = "Sell"
    BY <1>3, <1>4, <1>5, <2>1
  <2>3. \A j \in 1 .. 1 - 1 : FALSE
    OBVIOUS
  <2>4. Quiet(orders, 1, b)
    BY <1>2, <1>8, <2>2, <2>3 DEF Quiet
  <2>5. ASSUME NEW k \in DOMAIN orders, k < Len(orders) PROVE k = 1 \/ k = 2
    BY <1>5, <2>1, <2>5
  <2> QED BY <1>11, <2>2, <2>4, <2>5 DEF Careful, q
<1> QED BY <1>0, <1>3, <1>9, <1>10, <1>11

\* No order of a market maker is below a tick.
LEMMA MakerFloors ==
  ASSUME PricesAboveTick, NEW b, Filed(b), Market(b), NEW m, inventory[m] \in Int,
         NEW k \in DOMAIN MakerWishes(b, m)
  PROVE  MakerWishes(b, m)[k].price >= Tick
<1> DEFINE w == MakerWishes(b, m)
<1>0. BasePrice \in Int /\ SeedOffset \in Nat \ {0} /\ Tick \in Int
  BY PriceAssumption
<1>1. CASE Missing(b) # <<>>
  <2>1. w \in Seq(Wish) /\ Openings(w, b)
    BY <1>1, OpeningsShape
  <2> HIDE DEF w
  <2>2. k \in 1 .. Len(w)
    BY <2>1 DEF w
  <2>3. w[k].price = Away(Missing(b)[k], BasePrice, SeedOffset)
    BY <2>1, <2>2 DEF Openings
  <2>4. w[k].price \in {BasePrice - SeedOffset, BasePrice + SeedOffset}
    BY <2>3 DEF Away
  <2>5. BasePrice - SeedOffset >= Tick
    BY DEF PricesAboveTick
  <2>6. BasePrice + SeedOffset >= Tick
    BY <1>0, <2>5
  <2> QED BY <2>4, <2>5, <2>6 DEF w
<1>2. CASE Missing(b) = <<>>
  <2> DEFINE q == inventory[m]
             D == Best(b, "Buy")
             A == Best(b, "Sell")
  <2>1. w \in Seq(Wish) /\ Quotes(w, b, q)
    BY <1>2, QuotesShape
  <2>2. q \in Int
    OBVIOUS
  <2> HIDE DEF q, w
  <2>3. /\ D \in Int /\ A \in Int /\ Tick =< D /\ D < A /\ D < AskPrice(b)
        /\ Tick =< BidPrice(b, q) /\ AskPrice(b) \in Int
    BY <1>2, <2>2, QuotesApart, QuotePrices
  <2>4. PICK h \in {0, 1} :
          /\ Len(w) \in {h + 1, h + 2}
          /\ h = 1 => w[1] = Bid(b, q)
          /\ w[h + 1] = Ask(b)
          /\ Len(w) = h + 2 => w[h + 2].price \in {D, A}
    BY <2>1 DEF Quotes
  <2>5. Bid(b, q).price = BidPrice(b, q) /\ Ask(b).price = AskPrice(b)
    BY DEF Bid, Ask, Limit
  <2> HIDE DEF D, A
  <2>6. Tick =< D /\ Tick =< A /\ Tick =< AskPrice(b)
    BY <1>0, <2>3
  <2>7. k \in 1 .. Len(w)
    BY <2>1 DEF w
  <2>8. \/ h = 1 /\ k = 1
        \/ k = h + 1
        \/ k = h + 2 /\ Len(w) = h + 2
    BY <2>4, <2>7
  <2> QED BY <2>3, <2>4, <2>5, <2>6, <2>8 DEF w
<1> QED BY <1>1, <1>2

\* What a market maker makes in its turn.
LEMMA MakerCareful ==
  ASSUME PricesAboveTick, Typed, QuotesCurrent, Market(book),
         NEW m \in MarketMakers,
         NEW b, b = Cancel(book, outstanding[m]),
         NEW orders, orders = Made(m, MakerWishes(b, m))
  PROVE  Market(b) /\ Careful(orders, b, m) /\ Floors(orders) /\ OneOwner(orders)
<1> DEFINE w == MakerWishes(b, m)
<1>1. Filed(b) /\ Market(b)
  BY CancelShape, CancelMarket DEF Typed
<1>2. /\ inventory[m] \in Int /\ m \in Participants \cup {Source} /\ counter[m] \in Nat
  BY DEF Typed, Participants
<1>3. w \in Seq(Wish)
  BY <1>1, <1>2, MakerWishesType
<1>4. Floors(orders) /\ OneOwner(orders)
  <2>1. \A k \in DOMAIN w : w[k].price >= Tick
    BY <1>1, <1>2, MakerFloors
  <2> HIDE DEF w
  <2>2. Floors(Made(m, w)) /\ OneOwner(Made(m, w))
    BY <1>2, <1>3, <2>1, MadeFloors
  <2> QED BY <2>2 DEF w
<1>5. Like(orders, w, m)
  <2> HIDE DEF w
  <2>1. orders = Made(m, w)
    BY DEF w
  <2> QED BY <1>2, <1>3, <2>1, MadeShape DEF Like
<1>6. Absent(b, m)
  <2>1. RestingIds(b) \subseteq RestingIds(book) \ outstanding[m]
    BY RestingAfterCancel DEF Typed
  <2>2. {i \in RestingIds(book) \cup Ids(pending) : Owner(i) = m} \subseteq outstanding[m]
    BY DEF QuotesCurrent
  <2>3. \A s \in Side : \A j \in DOMAIN b[s] : b[s][j].id \in RestingIds(b)
    BY DEF RestingIds
  <2> QED BY <2>1, <2>2, <2>3 DEF Absent
<1>7. CASE Missing(b) # <<>>
  <2>1. Openings(w, b)
    BY <1>1, <1>7, OpeningsShape
  <2> HIDE DEF w
  <2> QED BY <1>1, <1>3, <1>4, <1>5, <1>6, <1>7, <2>1, OpeningsCareful
<1>8. CASE Missing(b) = <<>>
  <2>1. Quotes(w, b, inventory[m])
    BY <1>1, <1>2, <1>8, QuotesShape
  <2> HIDE DEF w
  <2> QED BY <1>1, <1>2, <1>3, <1>4, <1>5, <1>6, <1>8, <2>1, QuotesCareful
<1> QED BY <1>7, <1>8

\* One of the other participants makes the orders: no market maker is concerned.
LEMMA OthersUnwashed ==
  ASSUME Typed, NEW p \in Participants \cup {Source}, p \notin MarketMakers,
         NEW wishes \in Seq(Wish), pending' = Made(p, wishes),
         \A k \in DOMAIN wishes : wishes[k].kind = "GTC" => wishes[k].price >= Tick
  PROVE  Floors(pending') /\ OneOwner(pending') /\ Unwashed'
<1>1. counter[p] \in Nat
  BY DEF Typed
<1>2. Floors(pending') /\ OneOwner(pending')
  BY <1>1, MadeFloors
<1>3. \A k \in DOMAIN pending' : Owner(pending'[k].id) = p
  BY <1>1, MadeIds DEF Ids
<1>4. \A m \in MarketMakers : ~ \E k \in DOMAIN pending' : Owner(pending'[k].id) = m
  BY <1>3
<1> QED BY <1>2, <1>4 DEF Unwashed

\* An empty book is in order.
LEMMA EmptyMarket == Market(EmptyBook)
<1>1. \A s \in Side : DOMAIN EmptyBook[s] = {}
  BY DEF EmptyBook
<1>2. "Buy" \in Side /\ "Sell" \in Side
  BY DEF Side
<1> HIDE DEF EmptyBook
<1> QED BY <1>1, <1>2 DEF Market, Sorted, Floored

\* The rest of the orders is like all of them.
LEMMA RestFloors ==
  ASSUME NEW orders \in Seq(Orders), orders # <<>>, Floors(orders), OneOwner(orders)
  PROVE  /\ Floors(Tail(orders)) /\ OneOwner(Tail(orders))
         /\ \A k \in DOMAIN Tail(orders) : Owner(Tail(orders)[k].id) = Owner(Head(orders).id)
         /\ Head(orders) \in Orders
         /\ Head(orders).kind = "GTC" => Head(orders).price >= Tick
<1>1. /\ Head(orders) \in Orders /\ Head(orders) = orders[1] /\ 1 \in DOMAIN orders
      /\ \A k \in DOMAIN Tail(orders) : Tail(orders)[k] = orders[k + 1] /\ k + 1 \in DOMAIN orders
  BY PendingTail
<1> QED BY <1>1 DEF Floors, OneOwner

\* Every step keeps the pending orders of a market maker careful.
LEMMA WashNext ==
  ASSUME PricesAboveTick, Typed, Owners, QuotesCurrent, WashInv, [Next]_vars
  PROVE  WashInv'
<1>0. /\ Market(book)' = Market(book') /\ Floors(pending)' = Floors(pending')
      /\ OneOwner(pending)' = OneOwner(pending')
  BY DEF Market, Sorted, Floored, Floors, OneOwner
<1>1. ASSUME UNCHANGED <<book, pending, inventory>> PROVE WashInv'
  <2>1. Unwashed'
    BY <1>1 DEF WashInv, Unwashed, Careful, Quiet, Alone
  <2> QED BY <1>0, <1>1, <2>1 DEF WashInv
<1>2. CASE BeginStep \/ EventWithoutOrder \/ EndStep \/ Finish
  <2>1. UNCHANGED <<book, pending, inventory>>
    BY <1>2 DEF BeginStep, EventWithoutOrder, EndStep, Finish, market, agents
  <2> QED BY <1>1, <2>1
<1>3. ASSUME NEW p \in Participants \cup {Source}, p \notin MarketMakers,
             NEW wishes \in Seq(Wish), pending' = Made(p, wishes), UNCHANGED book,
             \A k \in DOMAIN wishes : wishes[k].kind = "GTC" => wishes[k].price >= Tick
      PROVE  WashInv'
  <2>1. Floors(pending') /\ OneOwner(pending') /\ Unwashed'
    BY <1>3, OthersUnwashed
  <2> QED BY <1>0, <1>3, <2>1 DEF WashInv
<1>4. CASE Event
  <2>1. PICK h \in History : pending' = Made(Source, <<h>>)
    BY <1>4 DEF Event
  <2>2. <<h>> \in Seq(Wish)
    BY DEF Wish
  <2>3. h.kind = "GTC" => h.price >= Tick
    BY DEF PricesAboveTick
  <2>4. \A k \in DOMAIN <<h>> : <<h>>[k] = h
    OBVIOUS
  <2>5. /\ Source \in Participants \cup {Source} /\ Source \notin MarketMakers
        /\ UNCHANGED book
    BY <1>4, ParticipantAssumption DEF Participants, Event
  <2> DEFINE w == <<h>>
  <2>6. w \in Seq(Wish) /\ \A k \in DOMAIN w : w[k].kind = "GTC" => w[k].price >= Tick
    BY <2>2, <2>3, <2>4
  <2>7. pending' = Made(Source, w)
    BY <2>1
  <2> HIDE DEF w
  <2> QED BY <1>3, <2>2, <2>5, <2>6, <2>7
<1>5. CASE Reset
  <2>1. book' = EmptyBook /\ pending' = <<>>
    BY <1>5 DEF Reset, Between
  <2>2. DOMAIN pending' = {}
    BY <2>1
  <2>3. Floors(pending') /\ OneOwner(pending') /\ Unwashed'
    BY <2>2 DEF Floors, OneOwner, Unwashed
  <2> QED BY <1>0, <2>1, <2>3, EmptyMarket DEF WashInv
<1>6. CASE SubmitNext
  <2> DEFINE o == Head(pending)
             c == Submit(book, o).book
  <2>1. pending \in Seq(Orders) /\ pending # <<>> /\ Filed(book)
    BY <1>6 DEF Typed, SubmitNext
  <2>2. book' = c /\ pending' = Tail(pending)
    BY <1>6 DEF SubmitNext
  <2>3. /\ Floors(pending') /\ OneOwner(pending')
        /\ \A k \in DOMAIN pending' : Owner(pending'[k].id) = Owner(o.id)
        /\ o \in Orders
        /\ o.kind = "GTC" => o.price >= Tick
    BY <2>1, <2>2, RestFloors DEF WashInv
  <2> HIDE DEF o
  <2>4. Submitted(book, o, c)
    BY <2>1, <2>3, SubmitShape
  <2> HIDE DEF c
  <2>5. Market(c)
    BY <2>1, <2>3, <2>4, SubmitMarket DEF WashInv
  <2>6. ASSUME NEW m \in MarketMakers, \E k \in DOMAIN pending' : Owner(pending'[k].id) = m
        PROVE  Careful(pending, book, m)'
    <3>1. Owner(o.id) = m
      BY <2>3, <2>6
    <3>2. 1 \in DOMAIN pending /\ pending[1] = o
      BY <2>1, PendingTail DEF o
    <3>3. Careful(pending, book, m)
      BY <3>1, <3>2 DEF WashInv, Unwashed
    <3> QED BY <1>6, <3>1, <3>3, CarefulSubmit DEF WashInv, o
  <2>7. Unwashed'
    BY <2>6 DEF Unwashed
  <2> QED BY <1>0, <2>2, <2>3, <2>5, <2>7 DEF WashInv
<1>7. ASSUME NEW p \in Participants, NoiseTurn(p) PROVE WashInv'
  <2>1. PICK wishes \in RandomWishes(book) : Turn(p, wishes)
    BY <1>7 DEF NoiseTurn
  <2>2. /\ wishes \in Seq(Wish) /\ p \notin MarketMakers /\ UNCHANGED book
        /\ pending' = Made(p, wishes)
    BY <1>7, <2>1, RandomWishesType, ParticipantAssumption DEF Typed, NoiseTurn, Turn
  <2>3. \A k \in DOMAIN wishes : wishes[k].price >= Tick
    BY RandomFloors DEF Typed
  <2> QED BY <1>3, <2>2, <2>3
<1>8. ASSUME NEW p \in Participants, PlayerTurn(p) PROVE WashInv'
  <2>1. PICK wishes \in PlayerWishes(book) : Turn(p, wishes)
    BY <1>8 DEF PlayerTurn
  <2>2. /\ wishes \in Seq(Wish) /\ p \notin MarketMakers /\ UNCHANGED book
        /\ pending' = Made(p, wishes)
    BY <1>8, <2>1, PlayerWishesType, ParticipantAssumption DEF Typed, PlayerTurn, Turn
  <2>3. \A k \in DOMAIN wishes : wishes[k].kind = "GTC" => wishes[k].price >= Tick
    BY PlayerFloors DEF Typed, WashInv
  <2> QED BY <1>3, <2>2, <2>3
<1>9. ASSUME NEW m \in Participants, MakerTurn(m) PROVE WashInv'
  <2> DEFINE b == Cancel(book, outstanding[m])
             orders == Made(m, MakerWishes(b, m))
  <2>1. m \in MarketMakers /\ book' = b /\ pending' = orders /\ inventory' = inventory
    BY <1>9 DEF MakerTurn, Turn
  <2>2. counter[m] \in Nat /\ MakerWishes(b, m) \in Seq(Wish)
    <3>1. Filed(b)
      BY CancelShape DEF Typed
    <3>2. inventory[m] \in Int /\ counter[m] \in Nat
      BY DEF Typed
    <3> HIDE DEF b
    <3> QED BY <3>1, <3>2, MakerWishesType
  <2>3. Market(b) /\ Careful(orders, b, m) /\ Floors(orders) /\ OneOwner(orders)
    BY <2>1, MakerCareful DEF WashInv
  <2>4. \A i \in Ids(orders) : Owner(i) = m
    <3> DEFINE w == MakerWishes(b, m)
    <3>1. w \in Seq(Wish)
      BY <2>2
    <3> HIDE DEF w, b
    <3>2. \A i \in Ids(Made(m, w)) : Owner(i) = m
      BY <2>2, <3>1, MadeIds
    <3> QED BY <3>2 DEF w
  <2> HIDE DEF b, orders
  <2>5. \A k \in DOMAIN orders : Owner(orders[k].id) = m
    BY <2>4 DEF Ids
  <2>6. Careful(pending, book, m)'
    BY <2>1, <2>3 DEF Careful, Quiet, Alone
  <2>7. Unwashed'
    BY <2>1, <2>5, <2>6 DEF Unwashed
  <2> QED BY <1>0, <2>1, <2>3, <2>7 DEF WashInv
<1>10. CASE UNCHANGED vars
  <2>1. UNCHANGED <<book, pending, inventory>>
    BY <1>10 DEF vars, market, agents
  <2> QED BY <1>1, <2>1
<1> QED
  BY <1>2, <1>4, <1>5, <1>6, <1>7, <1>8, <1>9, <1>10 DEF Next

\* What the careful orders of a market maker do not do.
LEMMA CarefulWash ==
  ASSUME Typed, WashInv
  PROVE  WashesOnlyShort
<1> SUFFICES ASSUME pending # <<>>,
                    NEW k \in DOMAIN Submit(book, Head(pending)).fills,
                    Owner(Submit(book, Head(pending)).fills[k].maker)
                      = Owner(Submit(book, Head(pending)).fills[k].taker),
                    Owner(Submit(book, Head(pending)).fills[k].taker) \in MarketMakers
             PROVE  inventory[Owner(Submit(book, Head(pending)).fills[k].taker)] < 0
  BY DEF WashesOnlyShort
<1> DEFINE o == Head(pending)
           fills == Submit(book, o).fills
           m == Owner(fills[k].taker)
           opp == Opposite(o.side)
<1>1. /\ pending \in Seq(Orders) /\ Filed(book) /\ o \in Orders
      /\ 1 \in DOMAIN pending /\ o = pending[1]
  BY PendingTail DEF Typed
<1>2. /\ fills[k].taker = o.id /\ Marketable(book, o)
      /\ \E j \in DOMAIN book[opp] : fills[k].maker = book[opp][j].id
  <2>0. Filed(book) /\ o \in Orders
    BY <1>1
  <2> HIDE DEF o
  <2>1. \A x \in DOMAIN fills :
          /\ fills[x].taker = o.id /\ Marketable(book, o)
          /\ \E j \in DOMAIN book[opp] : fills[x].maker = book[opp][j].id
    BY <2>0, FillShape
  <2>2. k \in DOMAIN fills
    BY DEF o
  <2> QED BY <2>1, <2>2
<1>3. m \in MarketMakers /\ Owner(fills[k].maker) = m
  OBVIOUS
<1> HIDE DEF fills, m, opp
<1>4. m = Owner(pending[1].id)
  BY <1>1, <1>2 DEF m
<1>5. Careful(pending, book, m)
  BY <1>1, <1>3, <1>4 DEF WashInv, Unwashed
<1>6. ~Quiet(pending, 1, book)
  BY <1>1, <1>2, QuietNoTrade
<1>7. ~Alone(pending, 1, book)
  BY <1>1, <1>2, <1>3, <1>4 DEF Alone, opp
<1>8. inventory[m] < 0
  BY <1>1, <1>5, <1>6, <1>7 DEF Careful
<1> QED BY <1>8 DEF m, fills

\* A market maker trades with itself only while it is short
\* (MarketMakerAgent.on_market_data), provided no price that is drawn or read can
\* be below a tick.  Without that its bid, which is raised to a tick, may be above
\* a best ask below a tick, and its own ask then meets it.
THEOREM WashesRight ==
  ASSUME PricesAboveTick
  PROVE  Spec => []WashesOnlyShort
<1>1. Init => WashInv
  <2> SUFFICES ASSUME Init PROVE WashInv
    OBVIOUS
  <2>1. book = EmptyBook /\ DOMAIN pending = {}
    BY DEF Init
  <2> QED BY <2>1, EmptyMarket DEF WashInv, Floors, OneOwner, Unwashed
<1>2. Typed /\ Owners /\ QuotesCurrent /\ WashInv /\ [Next]_vars => WashInv'
  BY WashNext
<1>3. Typed /\ WashInv => WashesOnlyShort
  BY CarefulWash
<1> QED BY <1>1, <1>2, <1>3, StateTyped, OwnersInv, QuotesRight, PTL DEF Spec
=============================================================================
