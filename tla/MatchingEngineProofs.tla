------------------------- MODULE MatchingEngineProofs -------------------------
(***************************************************************************)
(* Theorems about MatchingEngine for every set of ids, every set of        *)
(* requests and every quantity modulus.  The first part is about the       *)
(* operators of BookOps: what add, cancel and fill do to the maps of a     *)
(* book, that each of them keeps the book well typed and indexed, and what *)
(* a fill does to the quantity of an order.  The second is EngineInv, the  *)
(* invariant every other result rests on: a fill keeps the book typed only *)
(* if the book is indexed, the book stays indexed only if the order that   *)
(* is added is not in it, and that holds because the order being matched,  *)
(* the dormant stops and the pegged orders are all known by the type they  *)
(* were submitted with.                                                    *)
(***************************************************************************)
EXTENDS MatchingEngine, FoldProofs

\* A wrapped integer is a quantity (types.hpp:11).
LEMMA WrapType ==
  ASSUME NEW n \in Int
  PROVE  Wrap(n) \in Quantity
BY QuantityModulusAssumption DEF Wrap, Quantity

\* The fields of an order, and what remains of it, are numbers (types.hpp:30-46).
LEMMA OrderFields ==
  ASSUME NEW o \in Order
  PROVE  /\ o.id \in OrderId /\ o.side \in Side /\ o.price \in Int
         /\ o.stop_price \in Int /\ o.peg_offset \in Int
         /\ o.quantity \in Nat /\ o.filled_quantity \in Nat
         /\ o.visible_quantity \in Nat /\ o.hidden_quantity \in Nat
         /\ Remaining(o) \in Int
BY QuantityModulusAssumption DEF Order, Quantity, Price, Remaining

\* PriceLevel::erase (order_book.hpp:45-60) takes id i out of a queue without
\* repetitions, takes out, adds or repeats no other, and keeps the others in order.
LEMMA UnlinkElements ==
  ASSUME NEW q \in Seq(OrderId), NEW i,
         \A k, m \in DOMAIN q : q[k] = q[m] => k = m,
         \E k \in DOMAIN q : q[k] = i
  PROVE  LET u == Unlink(q, i)
         IN  /\ u \in Seq(OrderId)
             /\ \A k \in DOMAIN u : u[k] # i /\ \E m \in DOMAIN q : q[m] = u[k]
             /\ \A m \in DOMAIN q : q[m] # i => \E k \in DOMAIN u : u[k] = q[m]
             /\ \A k, m \in DOMAIN u : u[k] = u[m] => k = m
             /\ \A k, m \in DOMAIN q :
                  k < m /\ q[k] # i /\ q[m] # i =>
                    \E x, y \in DOMAIN u : x < y /\ u[x] = q[k] /\ u[y] = q[m]
<1> DEFINE n == CHOOSE k \in DOMAIN q : q[k] = i
           front == SubSeq(q, 1, n - 1)
           back == SubSeq(q, n + 1, Len(q))
           u == front \o back
<1>1. n \in 1 .. Len(q) /\ q[n] = i
  OBVIOUS
<1>2. /\ front \in Seq(OrderId) /\ Len(front) = n - 1
      /\ \A k \in 1 .. n - 1 : front[k] = q[k]
  <2>1. \A k \in 1 .. n - 1 : q[k] \in OrderId
    BY <1>1
  <2> QED BY <1>1, <2>1, SubSeqProperties
<1>3. /\ back \in Seq(OrderId) /\ Len(back) = Len(q) - n
      /\ \A k \in 1 .. Len(q) - n : back[k] = q[k + n]
  <2>1. \A k \in n + 1 .. Len(q) : q[k] \in OrderId
    BY <1>1
  <2> QED BY <1>1, <2>1, SubSeqProperties
<1>4. /\ u \in Seq(OrderId)
      /\ Len(u) = Len(q) - 1
      /\ DOMAIN u = 1 .. Len(q) - 1
      /\ \A k \in 1 .. Len(q) - 1 : u[k] = IF k < n THEN q[k] ELSE q[k + 1]
  <2> HIDE DEF front, back
  <2>1. /\ u \in Seq(OrderId)
        /\ Len(u) = Len(front) + Len(back)
        /\ \A k \in 1 .. Len(front) + Len(back) :
             u[k] = IF k <= Len(front) THEN front[k] ELSE back[k - Len(front)]
    BY <1>2, <1>3, ConcatProperties
  <2> HIDE DEF n, u
  <2>2. Len(u) = Len(q) - 1
    BY <2>1, <1>1, <1>2, <1>3
  <2>3. DOMAIN u = 1 .. Len(q) - 1
    BY <2>1, <2>2
  <2>4. ASSUME NEW k \in 1 .. Len(q) - 1
        PROVE  u[k] = IF k < n THEN q[k] ELSE q[k + 1]
    <3>1. Len(front) = n - 1 /\ k \in 1 .. Len(front) + Len(back)
      BY <1>1, <1>2, <1>3
    <3>2. u[k] = IF k <= n - 1 THEN front[k] ELSE back[k - (n - 1)]
      BY <2>1, <3>1
    <3>3. CASE k <= n - 1
      BY <3>2, <3>3, <1>1, <1>2
    <3>4. CASE ~(k <= n - 1)
      <4>1. k - (n - 1) \in 1 .. Len(q) - n /\ (k - (n - 1)) + n = k + 1
        BY <3>4, <1>1
      <4>2. back[k - (n - 1)] = q[(k - (n - 1)) + n]
        BY <4>1, <1>3
      <4> QED BY <3>2, <3>4, <4>1, <4>2, <1>1
    <3> QED BY <3>3, <3>4
  <2> QED BY <2>1, <2>2, <2>3, <2>4
<1>5. Unlink(q, i) = u
  BY DEF Unlink, RemoveAt
<1> HIDE DEF n, u
<1>6. \A k \in DOMAIN u : u[k] # i /\ \E m \in DOMAIN q : q[m] = u[k]
  BY <1>1, <1>4
<1>7. ASSUME NEW m \in DOMAIN q, q[m] # i
      PROVE  \E k \in DOMAIN u : u[k] = q[m]
  <2>1. CASE m < n
    <3>1. m \in DOMAIN u /\ u[m] = q[m]
      BY <2>1, <1>1, <1>4
    <3> QED BY <3>1
  <2>2. CASE m > n
    <3>1. m - 1 \in DOMAIN u /\ u[m - 1] = q[m]
      BY <2>2, <1>1, <1>4
    <3> QED BY <3>1
  <2> QED BY <2>1, <2>2, <1>1, <1>7
<1>8. ASSUME NEW k \in DOMAIN u, NEW m \in DOMAIN u, u[k] = u[m]
      PROVE  k = m
  <2> DEFINE At(j) == IF j < n THEN j ELSE j + 1
  <2>1. /\ At(k) \in DOMAIN q /\ u[k] = q[At(k)]
        /\ At(m) \in DOMAIN q /\ u[m] = q[At(m)]
    BY <1>1, <1>4
  <2>2. At(k) = At(m)
    BY <2>1, <1>8
  <2> QED BY <2>2, <1>1, <1>4
<1>9. ASSUME NEW k \in DOMAIN q, NEW m \in DOMAIN q, k < m, q[k] # i, q[m] # i
      PROVE  \E x, y \in DOMAIN u : x < y /\ u[x] = q[k] /\ u[y] = q[m]
  <2> DEFINE To(j) == IF j < n THEN j ELSE j - 1
  <2>1. k # n /\ m # n /\ k \in 1 .. Len(q) /\ m \in 1 .. Len(q)
    BY <1>1, <1>9
  <2>2. \A j \in 1 .. Len(q) : j # n => To(j) \in DOMAIN u /\ u[To(j)] = q[j]
    BY <1>1, <1>4
  <2>3. To(k) < To(m)
    BY <2>1, <1>1, <1>9
  <2> HIDE DEF To
  <2> QED BY <2>1, <2>2, <2>3
<1> QED
  BY <1>4, <1>5, <1>6, <1>7, <1>8, <1>9


-----------------------------------------------------------------------------
\* What OrderBook::add (order_book.cpp:6-30) changes: the level of the order's
\* price, which has it at the end, and order_map_, which has it now.
LEMMA AddShape ==
  ASSUME NEW b, BookType(b), NEW o \in Order, o.type = "Limit"
  PROVE  LET c == BookAdd(b, o)
         IN  /\ DOMAIN c.level = Side
             /\ \A s \in Side :
                  Prices(c, s) = IF s = o.side THEN Prices(b, s) \cup {o.price}
                                 ELSE Prices(b, s)
             /\ \A s \in Side : \A p \in Prices(c, s) :
                  ~(s = o.side /\ p = o.price) => c.level[s][p] = b.level[s][p]
             /\ LevelAt(b, o.side, o.price) \in Level
             /\ c.level[o.side][o.price].queue =
                  Append(LevelAt(b, o.side, o.price).queue, o.id)
             /\ c.level[o.side][o.price] \in Level
             /\ Resting(c) = Resting(b) \cup {o.id}
             /\ c.order_map[o.id] = o
             /\ \A i \in Resting(b) : i # o.id => c.order_map[i] = b.order_map[i]
<1> DEFINE old == LevelAt(b, o.side, o.price)
           new == [queue |-> Append(old.queue, o.id),
                   total_quantity |-> Wrap(old.total_quantity + Remaining(o))]
           c == BookAdd(b, o)
<1>1. old \in Level
  <2>1. <<>> \in Seq(OrderId)
    OBVIOUS
  <2>2. 0 \in Quantity
    BY QuantityModulusAssumption DEF Quantity
  <2> QED BY <2>1, <2>2 DEF LevelAt, BookType, EmptyLevel, Level, Order
<1>2. new \in Level
  <2>1. Wrap(old.total_quantity + Remaining(o)) \in Quantity
    <3>1. old.total_quantity + Remaining(o) \in Int
      BY <1>1, OrderFields, QuantityModulusAssumption DEF Level, Quantity
    <3> QED BY <3>1, WrapType
  <2>2. Append(old.queue, o.id) \in Seq(OrderId)
    BY <1>1 DEF Level, Order
  <2> QED BY <2>1, <2>2 DEF Level
<1>3. c = [level |-> [b.level EXCEPT ![o.side] = PutKey(@, o.price, new)],
           order_map |-> PutKey(b.order_map, o.id, o)]
  BY DEF BookAdd
<1> HIDE DEF new, old, c
<1>4. /\ c.level = [b.level EXCEPT ![o.side] = PutKey(@, o.price, new)]
      /\ c.order_map = PutKey(b.order_map, o.id, o)
  BY <1>3
<1>5. o.side \in Side
  BY DEF Order
<1>6. /\ DOMAIN c.level = Side
      /\ c.level[o.side] = PutKey(b.level[o.side], o.price, new)
      /\ \A s \in Side : s # o.side => c.level[s] = b.level[s]
  BY <1>4, <1>5 DEF BookType
<1>7. /\ Resting(c) = Resting(b) \cup {o.id}
      /\ c.order_map[o.id] = o
      /\ \A i \in Resting(b) : i # o.id => c.order_map[i] = b.order_map[i]
  BY <1>4 DEF Resting, PutKey
<1>8. \A s \in Side :
        Prices(c, s) = IF s = o.side THEN Prices(b, s) \cup {o.price}
                       ELSE Prices(b, s)
  BY <1>6 DEF Prices, PutKey
<1>9. c.level[o.side][o.price] = new
  BY <1>6 DEF PutKey
<1>10. \A s \in Side : \A p \in Prices(c, s) :
         ~(s = o.side /\ p = o.price) => c.level[s][p] = b.level[s][p]
  BY <1>6 DEF Prices, PutKey
<1>11. new.queue = Append(old.queue, o.id)
  BY DEF new
<1> QED
  BY <1>1, <1>2, <1>6, <1>7, <1>8, <1>9, <1>10, <1>11 DEF c, old

\* What OrderBook::cancel (order_book.cpp:32-56) changes: the order leaves
\* order_map_ and the queue of its level, which goes with its last order.
LEMMA CancelShape ==
  ASSUME NEW b, BookType(b), Indexed(b), NEW i \in Resting(b)
  PROVE  LET o == b.order_map[i]
             c == BookCancel(b, i)
             u == Unlink(b.level[o.side][o.price].queue, i)
         IN  /\ o \in Order /\ o.id = i /\ o.side \in Side
             /\ DOMAIN c.level = Side
             /\ \A s \in Side :
                  Prices(c, s) = IF s = o.side /\ u = <<>>
                                 THEN Prices(b, s) \ {o.price} ELSE Prices(b, s)
             /\ \A s \in Side : \A p \in Prices(c, s) :
                  ~(s = o.side /\ p = o.price) => c.level[s][p] = b.level[s][p]
             /\ b.level[o.side][o.price].queue \in Seq(OrderId)
             /\ u # <<>> => /\ c.level[o.side][o.price].queue = u
                            /\ c.level[o.side][o.price] \in Level
             /\ Resting(c) = Resting(b) \ {i}
             /\ \A j \in Resting(c) : c.order_map[j] = b.order_map[j]
<1> DEFINE o == b.order_map[i]
           m == b.level[o.side]
           u == Unlink(m[o.price].queue, i)
           new == [queue |-> u,
                   total_quantity |-> Wrap(m[o.price].total_quantity - Remaining(o))]
           c == BookCancel(b, i)
<1>1. o \in Order /\ o.id = i /\ o.side \in Side /\ o.price \in Prices(b, o.side)
  BY DEF BookType, Indexed, Order
<1>2. m[o.price] \in Level
  BY SMTT(20), <1>1 DEF BookType
<1>3. u \in Seq(OrderId)
  <2>1. /\ \A k, n \in DOMAIN m[o.price].queue :
             m[o.price].queue[k] = m[o.price].queue[n] => k = n
        /\ \E k \in DOMAIN m[o.price].queue : m[o.price].queue[k] = i
    BY Zenon, <1>1 DEF Indexed
  <2>2. m[o.price].queue \in Seq(OrderId)
    BY <1>2 DEF Level
  <2> QED BY <2>1, <2>2, UnlinkElements
<1>4. new \in Level
  <2>1. m[o.price].total_quantity - Remaining(o) \in Int
    BY <1>1, <1>2, OrderFields, QuantityModulusAssumption DEF Level, Quantity
  <2> HIDE DEF u
  <2> QED BY <1>3, <2>1, WrapType DEF Level
<1>5. SideWithout(m, o) = IF u = <<>> THEN DropKey(m, o.price)
                          ELSE PutKey(m, o.price, new)
  BY <1>1 DEF SideWithout
<1>6. /\ c.level = [b.level EXCEPT ![o.side] = SideWithout(@, o)]
      /\ c.order_map = DropKey(b.order_map, i)
  BY DEF BookCancel
<1>7. /\ DOMAIN c.level = Side
      /\ c.level[o.side] = SideWithout(m, o)
      /\ \A s \in Side : s # o.side => c.level[s] = b.level[s]
  <2> HIDE DEF c
  <2> QED BY <1>1, <1>6 DEF BookType
<1>8. /\ Resting(c) = Resting(b) \ {i}
      /\ \A j \in Resting(c) : c.order_map[j] = b.order_map[j]
  <2> HIDE DEF c
  <2> QED BY <1>6 DEF Resting, DropKey
<1> HIDE DEF u, new, c
<1>9. \A s \in Side :
        Prices(c, s) = IF s = o.side /\ u = <<>>
                       THEN Prices(b, s) \ {o.price} ELSE Prices(b, s)
  BY ZenonT(20), <1>1, <1>5, <1>7 DEF Prices, PutKey, DropKey
<1>10. \A s \in Side : \A p \in Prices(c, s) :
         ~(s = o.side /\ p = o.price) => c.level[s][p] = b.level[s][p]
  BY <1>1, <1>5, <1>7 DEF Prices, PutKey, DropKey
<1>11. u # <<>> => c.level[o.side][o.price] = new
  BY <1>1, <1>5, <1>7 DEF Prices, PutKey
<1>12. new.queue = u
  BY DEF new
<1>13. m[o.price].queue \in Seq(OrderId)
  BY <1>2 DEF Level
<1> QED
  BY Zenon, <1>1, <1>4, <1>7, <1>8, <1>9, <1>10, <1>11, <1>12, <1>13 DEF c, u

\* What a fill (matching_engine.cpp:142-146) changes: one total and the
\* filled_quantity of one order.
LEMMA FillShape ==
  ASSUME NEW b, BookType(b), Indexed(b), NEW i \in Resting(b), NEW qty \in Nat,
         qty =< Remaining(b.order_map[i])
  PROVE  LET o == b.order_map[i]
             c == BookFill(b, i, qty)
         IN  /\ DOMAIN c.level = Side
             /\ \A s \in Side : Prices(c, s) = Prices(b, s)
             /\ \A s \in Side : \A p \in Prices(b, s) :
                  /\ c.level[s][p] \in Level
                  /\ c.level[s][p].queue = b.level[s][p].queue
             /\ Resting(c) = Resting(b)
             /\ c.order_map[i] =
                  [o EXCEPT !.filled_quantity = o.filled_quantity + qty]
             /\ c.order_map[i] \in Order
             /\ \A j \in Resting(b) : j # i => c.order_map[j] = b.order_map[j]
<1> DEFINE o == b.order_map[i]
           old == b.level[o.side][o.price]
           new == [old EXCEPT !.total_quantity = Wrap(old.total_quantity - qty)]
           maker == [o EXCEPT !.filled_quantity = o.filled_quantity + qty]
           c == BookFill(b, i, qty)
<1>1. o \in Order /\ o.side \in Side /\ o.price \in Prices(b, o.side)
  BY DEF BookType, Indexed, Order
<1>2. old \in Level
  BY <1>1 DEF BookType
<1>3. new \in Level /\ new.queue = old.queue
  <2>1. Wrap(old.total_quantity - qty) \in Quantity
    <3>1. old.total_quantity - qty \in Int
      BY <1>2, QuantityModulusAssumption DEF Level, Quantity
    <3> QED BY <3>1, WrapType
  <2> HIDE DEF old
  <2> QED BY <1>2, <2>1 DEF Level
<1>4. maker \in Order
  <2>1. o.filled_quantity + qty \in Quantity
    BY <1>1, QuantityModulusAssumption DEF Order, Quantity, Remaining
  <2> HIDE DEF o
  <2> QED BY <1>1, <2>1 DEF Order
<1>5. /\ c.level = [b.level EXCEPT ![o.side] =
                      [b.level[o.side] EXCEPT ![o.price] = new]]
      /\ c.order_map = [b.order_map EXCEPT ![i] = maker]
  BY DEF BookFill
<1> HIDE DEF new, maker, c
<1>6. /\ DOMAIN c.level = Side
      /\ c.level[o.side] = [b.level[o.side] EXCEPT ![o.price] = new]
      /\ \A s \in Side : s # o.side => c.level[s] = b.level[s]
  BY <1>1, <1>5 DEF BookType
<1>7. \A s \in Side : Prices(c, s) = Prices(b, s)
  BY <1>1, <1>6 DEF Prices
<1>8. \A s \in Side : \A p \in Prices(b, s) :
        c.level[s][p] = IF s = o.side /\ p = o.price THEN new ELSE b.level[s][p]
  BY <1>1, <1>6 DEF Prices
<1>9. \A s \in Side : \A p \in Prices(b, s) :
        /\ c.level[s][p] \in Level
        /\ c.level[s][p].queue = b.level[s][p].queue
  BY SMTT(20), <1>3, <1>8 DEF BookType
<1>10. /\ Resting(c) = Resting(b)
       /\ c.order_map[i] = maker
       /\ \A j \in Resting(b) : j # i => c.order_map[j] = b.order_map[j]
  BY <1>5 DEF Resting
<1> QED
  BY <1>4, <1>6, <1>7, <1>9, <1>10 DEF c, maker

-----------------------------------------------------------------------------
\* What Indexed says of one located order (order_book.hpp:92-98).
LEMMA IndexedOrder ==
  ASSUME NEW b, BookType(b), Indexed(b), NEW i \in Resting(b)
  PROVE  LET o == b.order_map[i]
         IN  /\ o \in Order /\ o.id = i /\ o.side \in Side
             /\ o.price \in Prices(b, o.side)
             /\ \E k \in DOMAIN b.level[o.side][o.price].queue :
                  b.level[o.side][o.price].queue[k] = i
BY OrderFields DEF BookType, Indexed

\* What Indexed says of one level (order_book.hpp:20-61).
LEMMA IndexedQueue ==
  ASSUME NEW b, Indexed(b), NEW s \in Side, NEW p \in Prices(b, s)
  PROVE  LET q == b.level[s][p].queue
         IN  /\ q # <<>>
             /\ \A k \in DOMAIN q : /\ q[k] \in Resting(b)
                                    /\ b.order_map[q[k]].side = s
                                    /\ b.order_map[q[k]].price = p
             /\ \A k, m \in DOMAIN q : q[k] = q[m] => k = m
BY DEF Indexed

\* OrderBook::add of an id that is not in the book keeps it typed and indexed.
LEMMA AddKeeps ==
  ASSUME NEW b, BookType(b), Indexed(b),
         NEW o \in Order, o.type = "Limit", o.id \notin Resting(b)
  PROVE  BookType(BookAdd(b, o)) /\ Indexed(BookAdd(b, o))
<1> DEFINE c == BookAdd(b, o)
           old == LevelAt(b, o.side, o.price).queue
<1>0. o.side \in Side /\ o.price \in Int /\ o.id \in OrderId
  BY OrderFields
<1>1. /\ DOMAIN c.level = Side
      /\ \A s \in Side :
           Prices(c, s) = IF s = o.side THEN Prices(b, s) \cup {o.price}
                          ELSE Prices(b, s)
      /\ \A s \in Side : \A p \in Prices(c, s) :
           ~(s = o.side /\ p = o.price) => c.level[s][p] = b.level[s][p]
      /\ old \in Seq(OrderId)
      /\ c.level[o.side][o.price].queue = Append(old, o.id)
      /\ c.level[o.side][o.price] \in Level
      /\ Resting(c) = Resting(b) \cup {o.id}
      /\ c.order_map[o.id] = o
      /\ \A i \in Resting(b) : i # o.id => c.order_map[i] = b.order_map[i]
  BY AddShape DEF Level
<1>4. o.price \in Prices(b, o.side) => b.level[o.side][o.price].queue = old
  BY DEF LevelAt
<1>10. o.price \notin Prices(b, o.side) => old = <<>>
  BY DEF LevelAt, EmptyLevel
<1> HIDE DEF old
<1>2. /\ \A k \in DOMAIN old : /\ old[k] \in Resting(b)
                              /\ b.order_map[old[k]].side = o.side
                              /\ b.order_map[old[k]].price = o.price
      /\ \A k, m \in DOMAIN old : old[k] = old[m] => k = m
  <2>1. CASE o.price \in Prices(b, o.side)
    <3> DEFINE q == b.level[o.side][o.price].queue
    <3>1. /\ \A k \in DOMAIN q : /\ q[k] \in Resting(b)
                                /\ b.order_map[q[k]].side = o.side
                                /\ b.order_map[q[k]].price = o.price
          /\ \A k, m \in DOMAIN q : q[k] = q[m] => k = m
      BY SMTT(20), <2>1, <1>0, IndexedQueue
    <3> HIDE DEF q
    <3>2. q = old
      BY <2>1, <1>4 DEF q
    <3> QED BY SMTT(20), <3>1, <3>2
  <2>2. CASE o.price \notin Prices(b, o.side)
    BY <2>2, <1>10
  <2> QED BY <2>1, <2>2
<1> DEFINE new == Append(old, o.id)
<1>5. /\ DOMAIN new = 1 .. Len(old) + 1
      /\ DOMAIN old = 1 .. Len(old) /\ Len(old) \in Nat
      /\ new[Len(old) + 1] = o.id
      /\ \A k \in 1 .. Len(old) : new[k] = old[k]
  BY <1>0, <1>1
<1> HIDE DEF c, old, new
<1>6. BookType(c)
  <2>1. ASSUME NEW s \in Side, NEW p \in Prices(c, s)
        PROVE  p \in Price /\ c.level[s][p] \in Level
    <3>1. CASE s = o.side /\ p = o.price
      BY <3>1, <1>0, <1>1 DEF Price
    <3>2. CASE ~(s = o.side /\ p = o.price)
      BY <3>2, <1>1 DEF BookType
    <3> QED BY <3>1, <3>2
  <2>2. \A i \in Resting(c) : c.order_map[i] \in Order
    BY SMTT(20), <1>1 DEF BookType
  <2> QED BY <2>1, <2>2, <1>1 DEF BookType
<1>7. ASSUME NEW i \in Resting(c)
      PROVE  LET oo == c.order_map[i]
             IN  /\ oo.id = i
                 /\ oo.price \in Prices(c, oo.side)
                 /\ \E k \in DOMAIN c.level[oo.side][oo.price].queue :
                      c.level[oo.side][oo.price].queue[k] = i
  <2>1. CASE i = o.id
    <3>1. Len(old) + 1 \in DOMAIN new
      BY <1>5
    <3>2. c.level[o.side][o.price].queue = new
      BY SMTT(20), <1>1 DEF new
    <3> QED BY Zenon, <2>1, <3>1, <3>2, <1>0, <1>1, <1>5
  <2>2. CASE i # o.id
    <3> DEFINE oo == b.order_map[i]
    <3>1. /\ i \in Resting(b) /\ c.order_map[i] = oo /\ oo \in Order
          /\ oo.id = i /\ oo.side \in Side /\ oo.price \in Prices(b, oo.side)
      BY Zenon, <2>2, <1>1, OrderFields DEF BookType, Indexed
    <3>2. PICK k \in DOMAIN b.level[oo.side][oo.price].queue :
            b.level[oo.side][oo.price].queue[k] = i
      BY <3>1 DEF Indexed
    <3>3. oo.price \in Prices(c, oo.side)
      BY <3>1, <1>1
    <3>4. CASE oo.side = o.side /\ oo.price = o.price
      <4>1. k \in DOMAIN new /\ new[k] = i
        BY <3>1, <3>2, <3>4, <1>4, <1>5
      <4> QED BY <4>1, <3>1, <3>3, <3>4, <1>1 DEF new
    <3>5. CASE ~(oo.side = o.side /\ oo.price = o.price)
      <4>1. c.level[oo.side][oo.price] = b.level[oo.side][oo.price]
        BY <3>1, <3>3, <3>5, <1>1
      <4> QED BY Zenon, <4>1, <3>1, <3>2, <3>3
    <3> QED BY <3>4, <3>5
  <2> QED BY <2>1, <2>2
<1>8. ASSUME NEW s \in Side, NEW p \in Prices(c, s)
      PROVE  LET q == c.level[s][p].queue
             IN  /\ q # <<>>
                 /\ \A k \in DOMAIN q : /\ q[k] \in Resting(c)
                                        /\ c.order_map[q[k]].side = s
                                        /\ c.order_map[q[k]].price = p
                 /\ \A k, m \in DOMAIN q : q[k] = q[m] => k = m
  <2>1. CASE s = o.side /\ p = o.price
    <3>1. c.level[s][p].queue = new
      BY <2>1, <1>1 DEF new
    <3>2. new # <<>>
      BY <1>0, <1>1 DEF new
    <3>3. \A k \in DOMAIN new : /\ new[k] \in Resting(c)
                               /\ c.order_map[new[k]].side = s
                               /\ c.order_map[new[k]].price = p
      BY <2>1, <1>1, <1>2, <1>5
    <3>4. \A k, m \in DOMAIN new : new[k] = new[m] => k = m
      BY <1>2, <1>5
    <3> QED BY <3>1, <3>2, <3>3, <3>4
  <2>2. CASE ~(s = o.side /\ p = o.price)
    <3>1. p \in Prices(b, s) /\ c.level[s][p] = b.level[s][p]
      BY <2>2, <1>1
    <3> DEFINE q == b.level[s][p].queue
    <3>2. /\ q # <<>>
          /\ \A k \in DOMAIN q : /\ q[k] \in Resting(b)
                                /\ b.order_map[q[k]].side = s
                                /\ b.order_map[q[k]].price = p
          /\ \A k, m \in DOMAIN q : q[k] = q[m] => k = m
      BY <3>1, IndexedQueue
    <3> HIDE DEF q
    <3>3. c.level[s][p].queue = q
      BY <3>1 DEF q
    <3>4. \A k \in DOMAIN q : /\ q[k] \in Resting(c)
                             /\ c.order_map[q[k]].side = s
                             /\ c.order_map[q[k]].price = p
      BY SMTT(20), <3>2, <1>1
    <3> QED BY <3>2, <3>3, <3>4
  <2> QED BY <2>1, <2>2
<1>9. Indexed(c)
  BY <1>7, <1>8 DEF Indexed
<1> QED BY <1>6, <1>9 DEF c

\* OrderBook::cancel keeps the book typed and indexed; the other orders stay as
\* they are, and no price is added.
LEMMA CancelKeeps ==
  ASSUME NEW b, BookType(b), Indexed(b), NEW i
  PROVE  LET c == BookCancel(b, i)
         IN  /\ BookType(c) /\ Indexed(c)
             /\ Resting(c) = Resting(b) \ {i}
             /\ \A j \in Resting(c) : c.order_map[j] = b.order_map[j]
             /\ \A s \in Side : Prices(c, s) \subseteq Prices(b, s)
<1> DEFINE c == BookCancel(b, i)
<1>1. CASE i \notin Resting(b)
  BY <1>1 DEF BookCancel
<1>2. CASE i \in Resting(b)
  <2> DEFINE o == b.order_map[i]
             old == b.level[o.side][o.price].queue
             u == Unlink(old, i)
  <2>1. /\ o \in Order /\ o.id = i /\ o.side \in Side
        /\ DOMAIN c.level = Side
        /\ \A s \in Side :
             Prices(c, s) = IF s = o.side /\ u = <<>>
                            THEN Prices(b, s) \ {o.price} ELSE Prices(b, s)
        /\ \A s \in Side : \A p \in Prices(c, s) :
             ~(s = o.side /\ p = o.price) => c.level[s][p] = b.level[s][p]
        /\ old \in Seq(OrderId)
        /\ u # <<>> => /\ c.level[o.side][o.price].queue = u
                       /\ c.level[o.side][o.price] \in Level
        /\ Resting(c) = Resting(b) \ {i}
        /\ \A j \in Resting(c) : c.order_map[j] = b.order_map[j]
    BY SMTT(20), <1>2, CancelShape
  <2>2. /\ o.price \in Prices(b, o.side)
        /\ \E k \in DOMAIN old : old[k] = i
        /\ \A k, m \in DOMAIN old : old[k] = old[m] => k = m
        /\ \A k \in DOMAIN old : /\ old[k] \in Resting(b)
                                /\ b.order_map[old[k]].side = o.side
                                /\ b.order_map[old[k]].price = o.price
    <3> HIDE DEF u, c
    <3>1. /\ o.price \in Prices(b, o.side)
          /\ \E k \in DOMAIN old : old[k] = i
      BY <1>2, IndexedOrder
    <3>2. o.side \in Side
      BY SMTT(20), <2>1
    <3> HIDE DEF o
    <3>3. /\ \A k, m \in DOMAIN old : old[k] = old[m] => k = m
          /\ \A k \in DOMAIN old : /\ old[k] \in Resting(b)
                                  /\ b.order_map[old[k]].side = o.side
                                  /\ b.order_map[old[k]].price = o.price
      BY SMTT(20), <3>1, <3>2, IndexedQueue
    <3> QED BY Zenon, <3>1, <3>3
  <2>3. /\ u \in Seq(OrderId)
        /\ \A k \in DOMAIN u : u[k] # i /\ \E m \in DOMAIN old : old[m] = u[k]
        /\ \A m \in DOMAIN old : old[m] # i => \E k \in DOMAIN u : u[k] = old[m]
        /\ \A k, m \in DOMAIN u : u[k] = u[m] => k = m
    <3> HIDE DEF old
    <3> QED BY <2>1, <2>2, UnlinkElements
  <2> HIDE DEF c, u, o, old
  <2>4. BookType(c)
    <3>1. ASSUME NEW s \in Side, NEW p \in Prices(c, s)
          PROVE  p \in Price /\ c.level[s][p] \in Level
      BY <2>1 DEF BookType
    <3>2. \A j \in Resting(c) : c.order_map[j] \in Order
      BY <2>1 DEF BookType
    <3> QED BY <2>1, <3>1, <3>2 DEF BookType
  <2>5. ASSUME NEW j \in Resting(c)
        PROVE  LET oo == c.order_map[j]
               IN  /\ oo.id = j
                   /\ oo.price \in Prices(c, oo.side)
                   /\ \E k \in DOMAIN c.level[oo.side][oo.price].queue :
                        c.level[oo.side][oo.price].queue[k] = j
    <3> DEFINE oo == b.order_map[j]
    <3>1. j \in Resting(b) /\ j # i /\ c.order_map[j] = oo
      BY SMTT(20), <2>1
    <3>2. /\ oo \in Order /\ oo.id = j /\ oo.side \in Side
          /\ oo.price \in Prices(b, oo.side)
          /\ \E k \in DOMAIN b.level[oo.side][oo.price].queue :
               b.level[oo.side][oo.price].queue[k] = j
      BY <3>1, IndexedOrder
    <3> HIDE DEF oo
    <3>3. CASE oo.side = o.side /\ oo.price = o.price
      <4>1. PICK n \in DOMAIN u : u[n] = j
        BY <3>1, <3>2, <3>3, <2>3 DEF old
      <4>2. u # <<>>
        BY <4>1
      <4>3. o.price \in Prices(c, o.side) /\ c.level[o.side][o.price].queue = u
        BY <4>2, <2>1, <2>2
      <4> QED BY <4>1, <4>3, <3>1, <3>2, <3>3
    <3>4. CASE ~(oo.side = o.side /\ oo.price = o.price)
      <4>1. oo.price \in Prices(c, oo.side)
        BY <3>2, <3>4, <2>1
      <4>2. c.level[oo.side][oo.price] = b.level[oo.side][oo.price]
        BY <4>1, <3>2, <3>4, <2>1
      <4> QED BY <4>1, <4>2, <3>1, <3>2
    <3> QED BY <3>3, <3>4
  <2>6. ASSUME NEW s \in Side, NEW p \in Prices(c, s)
        PROVE  LET q == c.level[s][p].queue
               IN  /\ q # <<>>
                   /\ \A k \in DOMAIN q : /\ q[k] \in Resting(c)
                                          /\ c.order_map[q[k]].side = s
                                          /\ c.order_map[q[k]].price = p
                   /\ \A k, m \in DOMAIN q : q[k] = q[m] => k = m
    <3>1. CASE s = o.side /\ p = o.price
      <4>1. u # <<>> /\ c.level[s][p].queue = u
        BY <3>1, <2>1
      <4>2. \A k \in DOMAIN u : /\ u[k] \in Resting(c)
                               /\ c.order_map[u[k]].side = s
                               /\ c.order_map[u[k]].price = p
        <5>1. ASSUME NEW k \in DOMAIN u
              PROVE  /\ u[k] \in Resting(c)
                     /\ c.order_map[u[k]].side = s
                     /\ c.order_map[u[k]].price = p
          <6>1. PICK m \in DOMAIN old : old[m] = u[k] /\ u[k] # i
            BY <2>3
          <6>2. /\ old[m] \in Resting(b)
                /\ b.order_map[old[m]].side = o.side
                /\ b.order_map[old[m]].price = o.price
            BY SMTT(20), <2>2
          <6> QED BY <6>1, <6>2, <3>1, <2>1
        <5> QED BY <5>1
      <4> QED BY <4>1, <4>2, <2>3
    <3>2. CASE ~(s = o.side /\ p = o.price)
      <4>1. p \in Prices(b, s) /\ c.level[s][p] = b.level[s][p]
        BY <3>2, <2>1
      <4>2. \A k \in DOMAIN b.level[s][p].queue :
              /\ b.level[s][p].queue[k] \in Resting(b)
              /\ b.level[s][p].queue[k] # i
              /\ b.order_map[b.level[s][p].queue[k]].side = s
              /\ b.order_map[b.level[s][p].queue[k]].price = p
        BY <4>1, <3>2, IndexedQueue DEF o
      <4>3. /\ b.level[s][p].queue # <<>>
            /\ \A k, m \in DOMAIN b.level[s][p].queue :
                 b.level[s][p].queue[k] = b.level[s][p].queue[m] => k = m
        BY SMTT(20), <4>1, IndexedQueue
      <4> QED BY <4>1, <4>2, <4>3, <2>1
    <3> QED BY <3>1, <3>2
  <2>7. Indexed(c)
    BY <2>5, <2>6 DEF Indexed
  <2>8. \A s \in Side : Prices(c, s) \subseteq Prices(b, s)
    BY <2>1
  <2> QED BY SMTT(20), <2>1, <2>4, <2>7, <2>8 DEF c
<1> QED BY <1>1, <1>2

\* A fill of no more than an order has left keeps the book typed and indexed.
LEMMA FillKeeps ==
  ASSUME NEW b, BookType(b), Indexed(b), NEW i \in Resting(b), NEW qty \in Nat,
         qty =< Remaining(b.order_map[i])
  PROVE  BookType(BookFill(b, i, qty)) /\ Indexed(BookFill(b, i, qty))
<1> DEFINE o == b.order_map[i]
           c == BookFill(b, i, qty)
<1>1. /\ DOMAIN c.level = Side
      /\ \A s \in Side : Prices(c, s) = Prices(b, s)
      /\ \A s \in Side : \A p \in Prices(b, s) :
           /\ c.level[s][p] \in Level
           /\ c.level[s][p].queue = b.level[s][p].queue
      /\ Resting(c) = Resting(b)
      /\ c.order_map[i] = [o EXCEPT !.filled_quantity = o.filled_quantity + qty]
      /\ c.order_map[i] \in Order
      /\ \A j \in Resting(b) : j # i => c.order_map[j] = b.order_map[j]
  BY FillShape
<1>2. \A j \in Resting(b) : /\ c.order_map[j].id = b.order_map[j].id
                           /\ c.order_map[j].side = b.order_map[j].side
                           /\ c.order_map[j].price = b.order_map[j].price
  <2> HIDE DEF c
  <2>1. o \in Order
    BY DEF BookType
  <2>2. /\ c.order_map[i].id = o.id
        /\ c.order_map[i].side = o.side
        /\ c.order_map[i].price = o.price
    BY <1>1, <2>1 DEF Order
  <2> QED BY <1>1, <2>2
<1> HIDE DEF c
<1>3. BookType(c)
  BY <1>1 DEF BookType
<1>4. ASSUME NEW j \in Resting(c)
      PROVE  LET oo == c.order_map[j]
             IN  /\ oo.id = j
                 /\ oo.price \in Prices(c, oo.side)
                 /\ \E k \in DOMAIN c.level[oo.side][oo.price].queue :
                      c.level[oo.side][oo.price].queue[k] = j
  <2> DEFINE ob == b.order_map[j]
             q == b.level[ob.side][ob.price].queue
  <2>1. j \in Resting(b)
    BY SMTT(20), <1>1
  <2>2. /\ ob.id = j /\ ob.side \in Side /\ ob.price \in Prices(b, ob.side)
        /\ \E k \in DOMAIN q : q[k] = j
    BY <2>1, IndexedOrder
  <2>3. c.level[ob.side][ob.price].queue = q /\ ob.price \in Prices(c, ob.side)
    BY SMTT(20), <2>2, <1>1
  <2>4. /\ c.order_map[j].id = ob.id /\ c.order_map[j].side = ob.side
        /\ c.order_map[j].price = ob.price
    BY <2>1, <1>2
  <2> HIDE DEF ob, q
  <2> QED BY <2>2, <2>3, <2>4
<1>5. ASSUME NEW s \in Side, NEW p \in Prices(c, s)
      PROVE  LET q == c.level[s][p].queue
             IN  /\ q # <<>>
                 /\ \A k \in DOMAIN q : /\ q[k] \in Resting(c)
                                        /\ c.order_map[q[k]].side = s
                                        /\ c.order_map[q[k]].price = p
                 /\ \A k, m \in DOMAIN q : q[k] = q[m] => k = m
  <2> DEFINE q == b.level[s][p].queue
  <2>1. p \in Prices(b, s) /\ c.level[s][p].queue = q
    BY <1>1
  <2>2. /\ q # <<>>
        /\ \A k \in DOMAIN q : /\ q[k] \in Resting(b)
                              /\ b.order_map[q[k]].side = s
                              /\ b.order_map[q[k]].price = p
        /\ \A k, m \in DOMAIN q : q[k] = q[m] => k = m
    BY SMTT(20), <2>1, IndexedQueue
  <2> HIDE DEF q
  <2> QED BY <2>1, <2>2, <1>1, <1>2
<1>6. Indexed(c)
  BY <1>4, <1>5 DEF Indexed
<1> QED BY <1>3, <1>6 DEF c

-----------------------------------------------------------------------------
(* Slices.                                                                   *)

\* An order that may stand in the book: it has something left to trade, and a
\* slice it hides behind can be refilled.
Tradable(o) ==
  /\ o.type = "Limit"
  /\ o.filled_quantity < o.quantity
  /\ o.hidden_quantity > 0 => o.visible_quantity > 0

Live(b) == \A i \in Resting(b) : Tradable(b.order_map[i])

\* add_iceberg_to_book (matching_engine.cpp:222-235) adds one tradable order,
\* whose slice and hidden quantity are together what was left of the iceberg.
LEMMA SliceShape ==
  ASSUME NEW b, NEW o \in Order, o.type = "Limit",
         Remaining(o) > 0, o.visible_quantity > 0
  PROVE  \E x \in Order :
           /\ AddIceberg(b, o) = BookAdd(b, x)
           /\ x.id = o.id /\ x.side = o.side /\ x.price = o.price
           /\ Tradable(x)
           /\ Remaining(x) + x.hidden_quantity = Remaining(o)
<1> DEFINE slice == Least(o.visible_quantity, Remaining(o))
           x == [o EXCEPT !.quantity = slice, !.filled_quantity = 0,
                          !.hidden_quantity = Remaining(o) - slice]
<1>1. /\ slice \in Quantity /\ slice > 0
      /\ Remaining(o) - slice \in Quantity
      /\ 0 \in Quantity /\ Quantity \subseteq Nat
  BY QuantityModulusAssumption DEF Order, Quantity, Remaining, Least
<1> HIDE DEF slice
<1>2. /\ x \in Order
      /\ x.id = o.id /\ x.side = o.side /\ x.price = o.price /\ x.type = o.type
      /\ x.quantity = slice /\ x.filled_quantity = 0
      /\ x.hidden_quantity = Remaining(o) - slice
      /\ x.visible_quantity = o.visible_quantity
  BY <1>1 DEF Order
<1>3. AddIceberg(b, o) = BookAdd(b, x)
  BY DEF AddIceberg, slice
<1> HIDE DEF x
<1>4. Remaining(o) \in Int
  BY OrderFields
<1>5. Tradable(x) /\ Remaining(x) + x.hidden_quantity = Remaining(o)
  BY <1>1, <1>2, <1>4 DEF Tradable, Remaining
<1> QED BY <1>2, <1>3, <1>5

\* make_iceberg_refill (matching_engine.cpp:237-252) makes an order of the same
\* id, place and slice size that has the hidden quantity left.
LEMMA RefillShape ==
  ASSUME NEW o \in Order
  PROVE  LET r == Refill(o)
         IN  /\ r \in Order
             /\ r.id = o.id /\ r.side = o.side /\ r.price = o.price
             /\ r.type = o.type /\ r.visible_quantity = o.visible_quantity
             /\ Remaining(r) = o.hidden_quantity
<1>1. 0 \in Quantity /\ 0 \in Price
  BY QuantityModulusAssumption DEF Quantity, Price
<1>2. /\ Refill(o) \in Order
      /\ Refill(o).id = o.id /\ Refill(o).side = o.side
      /\ Refill(o).price = o.price /\ Refill(o).type = o.type
      /\ Refill(o).visible_quantity = o.visible_quantity
      /\ Refill(o).quantity = o.hidden_quantity
      /\ Refill(o).filled_quantity = 0
  BY <1>1 DEF Refill, Order
<1>3. o.hidden_quantity \in Nat
  BY OrderFields
<1> QED BY <1>2, <1>3 DEF Remaining

\* A fill of a maker with the refill it may set off (matching_engine.cpp:142-161):
\* the book stays typed, indexed and tradable, only the maker changes or leaves,
\* it leaves only when nothing is left, it loses exactly the quantity filled, and
\* no price is added.
LEMMA FillMakerKeeps ==
  ASSUME NEW b, BookType(b), Indexed(b), Live(b),
         NEW i \in Resting(b), NEW qty \in Nat,
         qty =< Remaining(b.order_map[i])
  PROVE  LET c == FillMaker(b, i, qty)
             before == b.order_map[i]
             after == c.order_map[i]
         IN  /\ BookType(c) /\ Indexed(c) /\ Live(c)
             /\ Resting(c) \subseteq Resting(b)
             /\ \A j \in Resting(b) : j # i =>
                  j \in Resting(c) /\ c.order_map[j] = b.order_map[j]
             /\ i \in Resting(c) =>
                  /\ after.side = before.side /\ after.price = before.price
                  /\ Remaining(after) + after.hidden_quantity =
                       Remaining(before) + before.hidden_quantity - qty
             /\ i \notin Resting(c) =>
                  qty = Remaining(before) + before.hidden_quantity
             /\ \A s \in Side : Prices(c, s) \subseteq Prices(b, s)
<1> DEFINE before == b.order_map[i]
           filled == BookFill(b, i, qty)
           maker == filled.order_map[i]
           gone == BookCancel(filled, i)
           c == FillMaker(b, i, qty)
<1>1. before \in Order /\ before.id = i /\ Tradable(before)
  BY IndexedOrder DEF Live
<1>2. /\ \A s \in Side : Prices(filled, s) = Prices(b, s)
      /\ Resting(filled) = Resting(b)
      /\ maker = [before EXCEPT !.filled_quantity = before.filled_quantity + qty]
      /\ maker \in Order
      /\ \A j \in Resting(b) : j # i => filled.order_map[j] = b.order_map[j]
  BY FillShape
<1>3. BookType(filled) /\ Indexed(filled)
  BY FillKeeps
<1>4. c = IF ~IsFilled(maker) THEN filled
          ELSE IF maker.hidden_quantity = 0 THEN gone
          ELSE AddIceberg(gone, Refill(maker))
  BY DEF FillMaker
<1> HIDE DEF before, filled
<1>5. /\ maker.id = i /\ maker.side = before.side /\ maker.price = before.price
      /\ maker.type = "Limit" /\ maker.quantity = before.quantity
      /\ maker.filled_quantity = before.filled_quantity + qty
      /\ maker.visible_quantity = before.visible_quantity
      /\ maker.hidden_quantity = before.hidden_quantity
  BY <1>1, <1>2 DEF Order, Tradable
<1>6. /\ before.quantity \in Nat /\ before.filled_quantity \in Nat
      /\ before.hidden_quantity \in Nat
  BY <1>1, OrderFields
<1>7. /\ BookType(gone) /\ Indexed(gone)
      /\ Resting(gone) = Resting(b) \ {i}
      /\ \A j \in Resting(gone) : gone.order_map[j] = filled.order_map[j]
      /\ \A s \in Side : Prices(gone, s) \subseteq Prices(b, s)
  BY <1>2, <1>3, CancelKeeps
<1> HIDE DEF maker, gone, c
<1>8. CASE ~IsFilled(maker)
  <2>1. c = filled
    BY <1>4, <1>8
  <2>2. Tradable(maker)
    BY <1>1, <1>5, <1>6, <1>8 DEF Tradable, IsFilled
  <2>3. Remaining(maker) + maker.hidden_quantity =
          Remaining(before) + before.hidden_quantity - qty
    BY <1>5, <1>6 DEF Remaining
  <2>4. Live(c)
    BY <2>1, <2>2, <1>2 DEF Live, maker
  <2> QED BY <2>1, <2>3, <2>4, <1>2, <1>3, <1>5 DEF c, maker, before
<1>9. CASE IsFilled(maker) /\ maker.hidden_quantity = 0
  <2>1. c = gone
    BY <1>4, <1>9
  <2>2. qty = Remaining(before) + before.hidden_quantity
    BY <1>5, <1>6, <1>9 DEF Remaining, IsFilled, before
  <2>3. Live(c)
    BY <2>1, <1>2, <1>7 DEF Live
  <2> QED BY <2>1, <2>2, <2>3, <1>2, <1>7 DEF c, before
<1>10. CASE IsFilled(maker) /\ maker.hidden_quantity # 0
  <2> DEFINE r == Refill(maker)
  <2>1. c = AddIceberg(gone, r)
    BY <1>4, <1>10
  <2>2. /\ r \in Order /\ r.id = i /\ r.side = before.side
        /\ r.price = before.price /\ r.type = "Limit"
        /\ r.visible_quantity = before.visible_quantity
        /\ Remaining(r) = before.hidden_quantity
    BY <1>2, <1>5, RefillShape DEF maker
  <2> HIDE DEF r
  <2>3. Remaining(r) > 0 /\ r.visible_quantity > 0
    BY <2>2, <1>1, <1>5, <1>6, <1>10 DEF Tradable
  <2>4. PICK x \in Order :
          /\ c = BookAdd(gone, x)
          /\ x.id = i /\ x.side = before.side /\ x.price = before.price
          /\ Tradable(x)
          /\ Remaining(x) + x.hidden_quantity = before.hidden_quantity
    BY <2>1, <2>2, <2>3, SliceShape
  <2>5. x.type = "Limit" /\ x.id \notin Resting(gone)
    BY <2>4, <1>7 DEF Tradable
  <2>6. BookType(c) /\ Indexed(c)
    BY <2>4, <2>5, <1>7, AddKeeps
  <2>7. /\ \A s \in Side :
             Prices(c, s) = IF s = x.side THEN Prices(gone, s) \cup {x.price}
                            ELSE Prices(gone, s)
        /\ Resting(c) = Resting(gone) \cup {i}
        /\ c.order_map[i] = x
        /\ \A j \in Resting(gone) : j # i => c.order_map[j] = gone.order_map[j]
    BY <2>4, <2>5, <1>7, AddShape
  <2>8. before.side \in Side /\ before.price \in Prices(b, before.side)
    BY IndexedOrder DEF before
  <2>9. \A s \in Side : Prices(c, s) \subseteq Prices(b, s)
    BY <2>4, <2>7, <2>8, <1>7
  <2>10. Live(c)
    BY <2>4, <2>7, <1>2, <1>7 DEF Live
  <2>11. Remaining(x) + x.hidden_quantity =
           Remaining(before) + before.hidden_quantity - qty
    <3>1. qty = Remaining(before)
      BY <1>5, <1>6, <1>10 DEF Remaining, IsFilled, before
    <3> QED BY <3>1, <2>4, <1>6 DEF Remaining
  <2> QED BY <2>4, <2>6, <2>7, <2>9, <2>10, <2>11, <1>2, <1>7 DEF c, before
<1> QED BY <1>8, <1>9, <1>10

-----------------------------------------------------------------------------
(* The invariant of the engine.                                              *)

\* Resting orders were limit or pegged orders, and all of them can trade.
RestingKnown ==
  /\ Live(book)
  /\ \A i \in Resting(book) : submitted[i].type \in {"Limit", "Pegged"}

\* The order being matched is not in the book.
TakerKnown ==
  taker # NoOrder =>
    /\ taker.id \in DOMAIN submitted
    /\ taker.id \notin Resting(book)
    /\ submitted[taker.id].type # "Pegged"
    /\ taker.filled_quantity =< taker.quantity
    /\ taker.hidden_quantity = 0
    /\ taker.type = "Limit" => submitted[taker.id].type = "Limit"

StopsKnown ==
  \A k \in DOMAIN stop_orders :
    LET o == stop_orders[k]
    IN  /\ o.id \in DOMAIN submitted
        /\ submitted[o.id].type \in {"Stop", "StopLimit"}
        /\ o.filled_quantity = 0
        /\ o.hidden_quantity = 0

PegsKnown ==
  \A k \in DOMAIN pegged_orders :
    LET o == pegged_orders[k]
    IN  /\ o.id \in DOMAIN submitted
        /\ submitted[o.id].type = "Pegged"
        /\ o.filled_quantity = 0
        /\ o.quantity > 0
        /\ o.hidden_quantity = 0

EngineInv ==
  /\ TypeOK
  /\ BookIndexed
  /\ RestingKnown
  /\ TakerKnown
  /\ StopsKnown
  /\ PegsKnown

-----------------------------------------------------------------------------
\* What an order is when it reaches submit (backend/main.py:83-99).
LEMMA NewOrderShape ==
  ASSUME NEW i \in OrderId, NEW r \in Request
  PROVE  LET o == NewOrder(i, r)
         IN  /\ o \in Order
             /\ o.id = i /\ o.type = r.type /\ o.side = r.side
             /\ o.quantity = r.quantity /\ o.quantity > 0
             /\ o.filled_quantity = 0 /\ o.hidden_quantity = 0
             /\ o.visible_quantity = r.visible_quantity
             /\ o.tif = r.tif /\ o.price = r.price
<1>1. 0 \in Quantity /\ Quantity \subseteq Nat
  BY QuantityModulusAssumption DEF Quantity
<1>2. /\ r.side \in Side /\ r.type \in OrderType /\ r.tif \in TimeInForce
      /\ r.price \in Price /\ r.stop_price \in Price /\ r.peg_offset \in Price
      /\ r.quantity \in Quantity /\ r.quantity # 0
      /\ r.visible_quantity \in Quantity
  BY DEF Request, Price
<1>3. NewOrder(i, r) \in Order
  BY <1>1, <1>2 DEF NewOrder, Order
<1>4. r.quantity > 0
  <2>1. \A n \in Nat : n # 0 => n > 0
    OBVIOUS
  <2>2. r.quantity \in Nat
    BY <1>1, <1>2
  <2> QED BY <1>2, <2>1, <2>2
<1> QED BY <1>3, <1>4 DEF NewOrder

\* The pegged order that stands in the book is a tradable limit order.
LEMMA PegAsLimitShape ==
  ASSUME NEW o \in Order, NEW p \in Price, o.filled_quantity = 0,
         o.quantity > 0, o.hidden_quantity = 0
  PROVE  LET x == PegAsLimit(o, p)
         IN  /\ x \in Order /\ x.id = o.id /\ x.side = o.side /\ x.price = p
             /\ Tradable(x)
<1>1. /\ PegAsLimit(o, p) \in Order
      /\ PegAsLimit(o, p).id = o.id /\ PegAsLimit(o, p).side = o.side
      /\ PegAsLimit(o, p).price = p /\ PegAsLimit(o, p).type = "Limit"
      /\ PegAsLimit(o, p).filled_quantity = 0
      /\ PegAsLimit(o, p).quantity = o.quantity
      /\ PegAsLimit(o, p).hidden_quantity = 0
  BY DEF PegAsLimit, Order, OrderType, TimeInForce
<1> QED BY <1>1 DEF Tradable

\* Every reference price, and so every pegged price, is a price.
LEMMA PegPricesType ==
  ASSUME NEW b, BookType(b), NEW o \in Order
  PROVE  PegPrices(b, o) \subseteq Price
<1>1. /\ \A s \in Side : BestPrices(b, s) \subseteq Price
      /\ o.side \in Side /\ Opposite(o.side) \in Side /\ o.peg_offset \in Int
  BY OrderFields DEF BestPrices, BookType, Opposite, Side
<1> DEFINE raw == {IF o.side = "Buy" THEN p - o.peg_offset ELSE p + o.peg_offset
                     : p \in BestPrices(b, o.side)}
<1>2. raw \subseteq Int
  BY <1>1 DEF Price
<1>3. \A p \in raw, q \in BestPrices(b, Opposite(o.side)) :
        Capped(o.side, p, q) \in Int
  BY <1>1, <1>2 DEF Capped, Price
<1> HIDE DEF raw
<1>4. PegPrices(b, o) =
        IF Prices(b, Opposite(o.side)) = {} THEN raw
        ELSE {Capped(o.side, p, q) : p \in raw,
                                     q \in BestPrices(b, Opposite(o.side))}
  BY DEF PegPrices, raw
<1>5. CASE Prices(b, Opposite(o.side)) = {}
  BY <1>2, <1>4, <1>5 DEF Price
<1>6. CASE Prices(b, Opposite(o.side)) # {}
  <2>1. PegPrices(b, o) = {Capped(o.side, p, q) :
                             p \in raw, q \in BestPrices(b, Opposite(o.side))}
    BY <1>4, <1>6
  <2> QED BY <2>1, <1>3 DEF Price
<1> QED BY <1>5, <1>6

-----------------------------------------------------------------------------
\* The engine starts with nothing in it.
LEMMA InitEngineInv == Init => EngineInv
<1> SUFFICES ASSUME Init PROVE EngineInv
  OBVIOUS
<1> USE DEF Init
<1>1. /\ Resting(book) = {} /\ BookIndexed /\ BookType(book)
      /\ \A s \in Side : Prices(book, s) = {}
  BY DEF Resting, EmptyBook, BookIndexed, Indexed, BookType, Prices
<1>2. TypeOK
  BY <1>1, 0 \in Price DEF TypeOK, Price
<1> QED BY <1>1, <1>2 DEF EngineInv, RestingKnown, Live, TakerKnown,
                           StopsKnown, PegsKnown

\* What every call of submit does first: the fresh id is in no part of the
\* engine, and the history gains it and changes nothing else.
LEMMA CallKeeps ==
  ASSUME EngineInv, NEW i \in Fresh, NEW r \in Requests, Call(i, r)
  PROVE  /\ i \in OrderId /\ r \in Request
         /\ i \notin DOMAIN submitted /\ i \notin Resting(book)
         /\ DOMAIN submitted' = DOMAIN submitted \cup {i}
         /\ submitted'[i] = r
         /\ \A j \in DOMAIN submitted : submitted'[j] = submitted[j]
         /\ DOMAIN submitted' \subseteq OrderId
         /\ \A j \in DOMAIN submitted' : submitted'[j] \in Request
         /\ traded' \in [DOMAIN submitted' -> Nat]
         /\ traded'[i] = 0
         /\ \A j \in DOMAIN submitted : traded'[j] = traded[j]
         /\ cancelled' = cancelled /\ cancelled' \subseteq DOMAIN submitted'
         /\ pc = "idle" /\ taker = NoOrder
<1>1. /\ submitted' = PutKey(submitted, i, r)
      /\ traded' = PutKey(traded, i, 0)
      /\ cancelled' = cancelled /\ pc = "idle"
  BY DEF Call
<1>2. /\ i \in OrderId /\ r \in Request /\ i \notin DOMAIN submitted
      /\ Resting(book) \subseteq DOMAIN submitted
      /\ DOMAIN submitted \subseteq OrderId
      /\ \A j \in DOMAIN submitted : submitted[j] \in Request
      /\ traded \in [DOMAIN submitted -> Nat]
      /\ cancelled \subseteq DOMAIN submitted
      /\ taker = NoOrder
  BY <1>1, RequestsAssumption DEF Fresh, EngineInv, TypeOK
<1>3. /\ DOMAIN submitted' = DOMAIN submitted \cup {i}
      /\ submitted'[i] = r
      /\ \A j \in DOMAIN submitted : submitted'[j] = submitted[j]
  BY <1>1, <1>2 DEF PutKey
<1>4. /\ DOMAIN traded' = DOMAIN traded \cup {i}
      /\ traded'[i] = 0
      /\ \A j \in DOMAIN traded : traded'[j] = traded[j]
  BY <1>1, <1>2 DEF PutKey
<1>5. traded' \in [DOMAIN submitted' -> Nat]
  <2>1. /\ DOMAIN traded' = DOMAIN submitted'
        /\ \A j \in DOMAIN submitted' : traded'[j] \in Nat
    BY <1>2, <1>3, <1>4
  <2>2. traded' = [j \in DOMAIN traded' |-> traded'[j]]
    BY <1>1 DEF PutKey
  <2> QED BY <2>1, <2>2
<1> QED BY <1>1, <1>2, <1>3, <1>4, <1>5

-----------------------------------------------------------------------------
(* One lemma per action: it keeps EngineInv.                                 *)

\* The loops' own steps, which change no order: EnterLevel, LeaveLevel, SkipStop,
\* EndScan and EndReprice.
LEMMA LoopStepKeeps ==
  ASSUME EngineInv,
         EnterLevel \/ LeaveLevel \/ SkipStop \/ EndScan \/ EndReprice
  PROVE  EngineInv'
<1>1. UNCHANGED <<book, stop_orders, pegged_orders, last_trade_price,
                  submitted, traded, cancelled>>
  BY DEF EnterLevel, LeaveLevel, SkipStop, EndScan, EndReprice, engine, history
<1>2. /\ BookIndexed' /\ RestingKnown' /\ StopsKnown' /\ PegsKnown'
      /\ BookType(book)' /\ (Resting(book) \subseteq DOMAIN submitted)'
  BY <1>1 DEF EngineInv, TypeOK, BookIndexed, RestingKnown, StopsKnown, PegsKnown
<1>3. /\ taker' \in {taker, NoOrder} /\ fills' \in {fills, <<>>}
      /\ it' \in Nat \ {0}
      /\ pc' \in {"idle", "levels", "queue", "stops", "pegs"}
      /\ (taker' = NoOrder) <=> (pc' \in {"idle", "stops", "pegs"})
      /\ (mark' = mark /\ fills' = fills) \/ (mark' = 0 /\ fills' = <<>>)
  BY DEF EngineInv, TypeOK, EnterLevel, LeaveLevel, SkipStop, EndScan,
         EndReprice, Return, call
<1>4. TakerKnown'
  BY <1>1, <1>3 DEF EngineInv, TakerKnown
<1>5. /\ mark' \in 0 .. Len(fills') /\ fills' \in Seq(Fill)
      /\ taker' \in Order \cup {NoOrder}
  <2>1. <<>> \in Seq(Fill) /\ Len(<<>>) = 0
    OBVIOUS
  <2>2. mark \in 0 .. Len(fills) /\ fills \in Seq(Fill) /\ taker \in Order \cup {NoOrder}
    BY DEF EngineInv, TypeOK
  <2>3. CASE mark' = mark /\ fills' = fills
    BY <2>2, <2>3, <1>3
  <2>4. CASE mark' = 0 /\ fills' = <<>>
    BY <2>1, <2>2, <2>4, <1>3
  <2> QED BY <2>3, <2>4, <1>3
<1>6. TypeOK'
  BY <1>1, <1>2, <1>3, <1>5 DEF EngineInv, TypeOK
<1> QED BY <1>2, <1>4, <1>6 DEF EngineInv

\* A match ends and the scan of the stops starts, or starts again, or goes on.
LEMMA EndStopMatchKeeps ==
  ASSUME EngineInv, EndStopMatch
  PROVE  EngineInv'
<1>1. UNCHANGED <<book, stop_orders, pegged_orders, fills, mark, submitted,
                  traded, cancelled>>
  BY DEF EndStopMatch, history
<1>2. /\ pc' = "stops" /\ taker' = NoOrder /\ it' \in {it, 1}
      /\ last_trade_price' \in Price
  <2>1. CASE NewFills
    <3>1. fills[Len(fills)] \in Fill
      BY <2>1 DEF EngineInv, TypeOK, NewFills
    <3> QED BY <2>1, <3>1 DEF EndStopMatch, StartScan, Fill
  <2>2. CASE ~NewFills
    BY <2>2 DEF EndStopMatch, EngineInv, TypeOK
  <2> QED BY <2>1, <2>2
<1>3. /\ BookIndexed' /\ RestingKnown' /\ StopsKnown' /\ PegsKnown' /\ TakerKnown'
      /\ BookType(book)' /\ (Resting(book) \subseteq DOMAIN submitted)'
  BY <1>1, <1>2
  DEF EngineInv, TypeOK, BookIndexed, RestingKnown, StopsKnown, PegsKnown, TakerKnown
<1>4. TypeOK'
  BY <1>1, <1>2, <1>3 DEF EngineInv, TypeOK
<1> QED BY <1>3, <1>4 DEF EngineInv

\* The market order a stop turns into (matching_engine.cpp:343-346).
LEMMA TriggeredMarketShape ==
  ASSUME NEW o \in Order
  PROVE  LET x == TriggeredMarket(o)
         IN  /\ x \in Order
             /\ x.id = o.id /\ x.side = o.side /\ x.type = "Market"
             /\ x.quantity = o.quantity
             /\ x.filled_quantity = o.filled_quantity
             /\ x.hidden_quantity = o.hidden_quantity
<1>1. 0 \in Price /\ "Market" \in OrderType
  BY DEF Price, OrderType
<1> QED BY <1>1 DEF TriggeredMarket, Order

\* A stop is triggered: its order leaves stop_orders and is matched.
LEMMA TriggerStopKeeps ==
  ASSUME EngineInv, TriggerStop
  PROVE  EngineInv'
<1> DEFINE o == stop_orders[it]
           stops == RemoveAt(stop_orders, it)
<1>1. /\ UNCHANGED <<book, pegged_orders, last_trade_price, fills, it,
                     submitted, traded, cancelled>>
      /\ it =< Len(stop_orders) /\ pc' = "levels" /\ taker' = TriggeredMarket(o)
      /\ mark' = Len(fills) /\ stop_orders' = stops
  BY DEF TriggerStop, BeginMatch, history
<1>2. it \in 1 .. Len(stop_orders) /\ stop_orders \in Seq(Order)
  BY <1>1 DEF EngineInv, TypeOK
<1>3. /\ stops \in Seq(Order) /\ Len(stops) = Len(stop_orders) - 1
      /\ \A k \in 1 .. Len(stop_orders) - 1 :
           stops[k] = IF k < it THEN stop_orders[k] ELSE stop_orders[k + 1]
  BY <1>2, RemoveAtShape
<1> HIDE DEF stops
<1>4. /\ o \in Order /\ o.id \in DOMAIN submitted
      /\ submitted[o.id].type \in {"Stop", "StopLimit"}
      /\ o.filled_quantity = 0 /\ o.hidden_quantity = 0
  BY <1>2 DEF EngineInv, StopsKnown
<1>5. /\ taker' \in Order /\ taker' # NoOrder
      /\ taker'.id = o.id /\ taker'.filled_quantity = 0
      /\ taker'.hidden_quantity = 0 /\ taker'.quantity \in Nat
      /\ taker'.type = "Market"
  <2> HIDE DEF o
  <2>1. /\ TriggeredMarket(o) \in Order /\ TriggeredMarket(o).type = "Market"
        /\ TriggeredMarket(o).id = o.id
        /\ TriggeredMarket(o).filled_quantity = o.filled_quantity
        /\ TriggeredMarket(o).hidden_quantity = o.hidden_quantity
    BY <1>4, TriggeredMarketShape
  <2> QED BY <1>1, <1>4, <2>1, NoOrderAssumption, OrderFields
<1>6. TakerKnown'
  <2>1. o.id \notin Resting(book)
    BY <1>4 DEF EngineInv, RestingKnown
  <2> QED BY <1>1, <1>4, <1>5, <2>1 DEF TakerKnown
<1>7. StopsKnown'
  <2>1. ASSUME NEW k \in DOMAIN stops
        PROVE  \E m \in DOMAIN stop_orders : stops[k] = stop_orders[m]
    <3>1. k \in 1 .. Len(stop_orders) - 1
      BY <1>2, <1>3
    <3>2. k \in DOMAIN stop_orders /\ k + 1 \in DOMAIN stop_orders
      BY <1>2, <3>1
    <3> QED BY <1>3, <3>1, <3>2
  <2> QED BY <1>1, <2>1 DEF EngineInv, StopsKnown
<1>8. /\ BookIndexed' /\ RestingKnown' /\ PegsKnown'
      /\ BookType(book)' /\ (Resting(book) \subseteq DOMAIN submitted)'
  BY <1>1 DEF EngineInv, TypeOK, BookIndexed, RestingKnown, PegsKnown
<1>9. TypeOK'
  BY <1>1, <1>3, <1>5, <1>8 DEF EngineInv, TypeOK
<1> QED BY <1>6, <1>7, <1>8, <1>9 DEF EngineInv

\* What was known of the orders in the engine is known when a call has begun.
LEMMA CallKeepsKnown ==
  ASSUME EngineInv, NEW i \in Fresh, NEW r \in Requests, Call(i, r)
  PROVE  /\ \A j \in Resting(book) :
              j # i /\ submitted'[j].type \in {"Limit", "Pegged"}
         /\ \A k \in DOMAIN stop_orders :
              /\ stop_orders[k].id \in DOMAIN submitted'
              /\ submitted'[stop_orders[k].id].type \in {"Stop", "StopLimit"}
              /\ stop_orders[k].filled_quantity = 0
              /\ stop_orders[k].hidden_quantity = 0
         /\ \A k \in DOMAIN pegged_orders :
              /\ pegged_orders[k].id \in DOMAIN submitted'
              /\ submitted'[pegged_orders[k].id].type = "Pegged"
              /\ pegged_orders[k].filled_quantity = 0
              /\ pegged_orders[k].quantity > 0
              /\ pegged_orders[k].hidden_quantity = 0
<1>1. /\ i \notin DOMAIN submitted /\ i \notin Resting(book)
      /\ DOMAIN submitted' = DOMAIN submitted \cup {i}
      /\ \A j \in DOMAIN submitted : submitted'[j] = submitted[j]
  BY CallKeeps
<1>2. Resting(book) \subseteq DOMAIN submitted
  BY DEF EngineInv, TypeOK
<1> QED BY <1>1, <1>2 DEF EngineInv, RestingKnown, StopsKnown, PegsKnown

\* A limit or market order is submitted: it is refused or its match begins.
LEMMA SubmitMatchedKeeps ==
  ASSUME EngineInv, NEW i \in Fresh, NEW r \in Requests,
         SubmitLimit(i, r) \/ SubmitMarket(i, r)
  PROVE  EngineInv'
<1> DEFINE o == NewOrder(i, r)
<1>1. /\ Call(i, r) /\ r.type # "Pegged"
      /\ UNCHANGED <<book, stop_orders, pegged_orders, last_trade_price, fills, it>>
      /\ \/ UNCHANGED <<pc, taker, mark>>
         \/ pc' = "levels" /\ taker' = o /\ mark' = Len(fills)
  BY DEF SubmitLimit, SubmitMarket, BeginMatch, engine, call
<1>2. /\ i \in OrderId /\ r \in Request
      /\ i \notin DOMAIN submitted /\ i \notin Resting(book)
      /\ DOMAIN submitted' = DOMAIN submitted \cup {i}
      /\ submitted'[i] = r
      /\ DOMAIN submitted' \subseteq OrderId
      /\ \A j \in DOMAIN submitted' : submitted'[j] \in Request
      /\ traded' \in [DOMAIN submitted' -> Nat]
      /\ cancelled' \subseteq DOMAIN submitted'
      /\ pc = "idle" /\ taker = NoOrder
  BY <1>1, CallKeeps
<1>3. /\ o \in Order /\ o.id = i /\ o.quantity > 0
      /\ o.filled_quantity = 0 /\ o.hidden_quantity = 0 /\ o.type = r.type
  BY <1>2, NewOrderShape
<1> HIDE DEF o
<1>4. RestingKnown' /\ StopsKnown' /\ PegsKnown' /\ BookIndexed' /\ BookType(book)'
  BY <1>1, CallKeepsKnown
  DEF EngineInv, TypeOK, RestingKnown, StopsKnown, PegsKnown, BookIndexed
<1>5. o # NoOrder
  BY <1>3, NoOrderAssumption
<1>6. TakerKnown'
  <2>1. CASE taker' = taker
    BY <1>2, <2>1 DEF TakerKnown
  <2>2. CASE taker' = o
    <3>1. o.filled_quantity =< o.quantity
      BY <1>3, OrderFields
    <3> QED BY <1>1, <1>2, <1>3, <2>2, <3>1 DEF TakerKnown
  <2> QED BY <1>1, <2>1, <2>2
<1>7. Resting(book)' \subseteq DOMAIN submitted'
  BY <1>1, <1>2 DEF EngineInv, TypeOK
<1>8. /\ mark' \in 0 .. Len(fills') /\ fills' \in Seq(Fill)
      /\ taker' \in Order \cup {NoOrder}
      /\ pc' \in {"idle", "levels", "queue", "stops", "pegs"}
      /\ (taker' = NoOrder) <=> (pc' \in {"idle", "stops", "pegs"})
  <2>1. CASE UNCHANGED <<pc, taker, mark>>
    BY <1>1, <2>1 DEF EngineInv, TypeOK
  <2>2. CASE pc' = "levels" /\ taker' = o /\ mark' = Len(fills)
    BY <1>1, <1>3, <1>5, <2>2 DEF EngineInv, TypeOK
  <2> QED BY <1>1, <2>1, <2>2
<1>9. TypeOK'
  BY <1>1, <1>2, <1>4, <1>7, <1>8 DEF EngineInv, TypeOK
<1> QED BY <1>4, <1>6, <1>9 DEF EngineInv

\* A stop is submitted: it is stored.
LEMMA SubmitStopKeeps ==
  ASSUME EngineInv, NEW i \in Fresh, NEW r \in Requests, SubmitStop(i, r)
  PROVE  EngineInv'
<1> DEFINE o == NewOrder(i, r)
<1>1. /\ Call(i, r) /\ r.type \in {"Stop", "StopLimit"}
      /\ stop_orders' = Append(stop_orders, o)
      /\ UNCHANGED <<book, pegged_orders, last_trade_price,
                     pc, taker, fills, mark, it>>
  BY DEF SubmitStop, call
<1>2. /\ i \in OrderId /\ r \in Request
      /\ DOMAIN submitted' = DOMAIN submitted \cup {i}
      /\ submitted'[i] = r
      /\ DOMAIN submitted' \subseteq OrderId
      /\ \A j \in DOMAIN submitted' : submitted'[j] \in Request
      /\ traded' \in [DOMAIN submitted' -> Nat]
      /\ cancelled' \subseteq DOMAIN submitted'
      /\ pc = "idle" /\ taker = NoOrder
  BY <1>1, CallKeeps
<1>3. /\ o \in Order /\ o.id = i
      /\ o.filled_quantity = 0 /\ o.hidden_quantity = 0
  BY <1>2, NewOrderShape
<1> HIDE DEF o
<1>4. RestingKnown' /\ PegsKnown' /\ BookIndexed' /\ BookType(book)'
  BY <1>1, CallKeepsKnown
  DEF EngineInv, TypeOK, RestingKnown, PegsKnown, BookIndexed
<1>5. stop_orders' \in Seq(Order)
  BY <1>1, <1>3 DEF EngineInv, TypeOK
<1>6. StopsKnown'
  <2>1. ASSUME NEW k \in DOMAIN stop_orders'
        PROVE  \/ k \in DOMAIN stop_orders /\ stop_orders'[k] = stop_orders[k]
               \/ stop_orders'[k] = o
    BY <1>1 DEF EngineInv, TypeOK
  <2> QED BY <2>1, <1>1, <1>2, <1>3, CallKeepsKnown DEF StopsKnown
<1>7. TakerKnown'
  BY <1>1, <1>2 DEF TakerKnown
<1>8. Resting(book)' \subseteq DOMAIN submitted'
  BY <1>1, <1>2 DEF EngineInv, TypeOK
<1>9. TypeOK'
  BY <1>1, <1>2, <1>4, <1>5, <1>8 DEF EngineInv, TypeOK
<1> QED BY <1>4, <1>6, <1>7, <1>9 DEF EngineInv

\* A pegged order is submitted: without a reference price it is rejected, with
\* one it is stored and stands in the book as a limit order.
LEMMA SubmitPeggedKeeps ==
  ASSUME EngineInv, NEW i \in Fresh, NEW r \in Requests, SubmitPegged(i, r)
  PROVE  EngineInv'
<1> DEFINE o == NewOrder(i, r)
<1>1. /\ Call(i, r) /\ r.type = "Pegged"
      /\ UNCHANGED <<stop_orders, last_trade_price, pc, taker, fills, mark, it>>
      /\ \/ UNCHANGED <<book, pegged_orders>>
         \/ \E p \in PegPrices(book, o) :
              /\ book' = BookAdd(book, PegAsLimit(o, p))
              /\ pegged_orders' = Append(pegged_orders, o)
  BY DEF SubmitPegged, call
<1>2. /\ i \in OrderId /\ r \in Request
      /\ i \notin DOMAIN submitted /\ i \notin Resting(book)
      /\ DOMAIN submitted' = DOMAIN submitted \cup {i}
      /\ submitted'[i] = r
      /\ DOMAIN submitted' \subseteq OrderId
      /\ \A j \in DOMAIN submitted' : submitted'[j] \in Request
      /\ traded' \in [DOMAIN submitted' -> Nat]
      /\ cancelled' \subseteq DOMAIN submitted'
      /\ pc = "idle" /\ taker = NoOrder
  BY <1>1, CallKeeps
<1>3. /\ o \in Order /\ o.id = i /\ o.quantity > 0
      /\ o.filled_quantity = 0 /\ o.hidden_quantity = 0
  BY <1>2, NewOrderShape
<1> HIDE DEF o
<1>4. BookType(book) /\ Indexed(book) /\ Live(book)
  BY DEF EngineInv, TypeOK, BookIndexed, RestingKnown
<1>5. /\ BookType(book') /\ Indexed(book') /\ Live(book')
      /\ Resting(book') \subseteq Resting(book) \cup {i}
      /\ pegged_orders' \in Seq(Order)
      /\ \A k \in DOMAIN pegged_orders' :
           \/ k \in DOMAIN pegged_orders /\ pegged_orders'[k] = pegged_orders[k]
           \/ pegged_orders'[k] = o
  <2>1. CASE UNCHANGED <<book, pegged_orders>>
    BY <2>1, <1>4 DEF EngineInv, TypeOK
  <2>2. ASSUME NEW p \in PegPrices(book, o),
               book' = BookAdd(book, PegAsLimit(o, p)),
               pegged_orders' = Append(pegged_orders, o)
        PROVE  /\ BookType(book') /\ Indexed(book') /\ Live(book')
               /\ Resting(book') \subseteq Resting(book) \cup {i}
               /\ pegged_orders' \in Seq(Order)
               /\ \A k \in DOMAIN pegged_orders' :
                    \/ k \in DOMAIN pegged_orders /\ pegged_orders'[k] = pegged_orders[k]
                    \/ pegged_orders'[k] = o
    <3> DEFINE x == PegAsLimit(o, p)
    <3>1. p \in Price
      BY <1>3, <1>4, PegPricesType
    <3>2. x \in Order /\ x.id = i /\ Tradable(x)
      BY <1>3, <3>1, PegAsLimitShape
    <3> HIDE DEF x
    <3>3. /\ x.type = "Limit" /\ x.id \notin Resting(book)
          /\ book' = BookAdd(book, x)
      BY <1>2, <2>2, <3>2 DEF Tradable, x
    <3>4. BookType(book') /\ Indexed(book')
      BY <1>4, <3>2, <3>3, AddKeeps
    <3>5. /\ Resting(book') = Resting(book) \cup {i}
          /\ book'.order_map[i] = x
          /\ \A j \in Resting(book) : j # i =>
               book'.order_map[j] = book.order_map[j]
      BY <1>4, <3>2, <3>3, AddShape
    <3>6. Live(book')
      BY <1>4, <3>2, <3>5 DEF Live
    <3>7. /\ pegged_orders' \in Seq(Order)
          /\ \A k \in DOMAIN pegged_orders' :
               \/ k \in DOMAIN pegged_orders /\ pegged_orders'[k] = pegged_orders[k]
               \/ pegged_orders'[k] = o
      BY <1>3, <2>2 DEF EngineInv, TypeOK
    <3> QED BY <3>4, <3>5, <3>6, <3>7
  <2> QED BY <1>1, <2>1, <2>2
<1>6. RestingKnown' /\ BookIndexed' /\ Resting(book)' \subseteq DOMAIN submitted'
  BY <1>1, <1>2, <1>5, CallKeepsKnown
  DEF EngineInv, TypeOK, RestingKnown, BookIndexed
<1>7. StopsKnown'
  BY <1>1, CallKeepsKnown DEF StopsKnown
<1>8. PegsKnown'
  BY <1>1, <1>2, <1>3, <1>5, CallKeepsKnown DEF PegsKnown
<1>9. TakerKnown'
  BY <1>1, <1>2 DEF TakerKnown
<1>10. TypeOK'
  BY <1>1, <1>2, <1>5, <1>6 DEF EngineInv, TypeOK
<1> QED BY <1>6, <1>7, <1>8, <1>9, <1>10 DEF EngineInv

\* cancel.
LEMMA CancelKeepsEngineInv ==
  ASSUME EngineInv, NEW i \in OrderId, Cancel(i)
  PROVE  EngineInv'
<1>1. /\ book' = BookCancel(book, i)
      /\ UNCHANGED <<stop_orders, pegged_orders, last_trade_price, pc, taker,
                     fills, mark, it, submitted, traded>>
      /\ cancelled' = cancelled \/ (i \in Resting(book) /\ cancelled' = cancelled \cup {i})
  BY DEF Cancel, call, CancelResult
<1>2. BookType(book) /\ Indexed(book) /\ Live(book)
  BY DEF EngineInv, TypeOK, BookIndexed, RestingKnown
<1>3. /\ BookType(book') /\ Indexed(book')
      /\ Resting(book') = Resting(book) \ {i}
      /\ \A j \in Resting(book') : book'.order_map[j] = book.order_map[j]
  BY <1>1, <1>2, CancelKeeps
<1>4. Live(book') /\ RestingKnown' /\ BookIndexed'
  BY <1>1, <1>2, <1>3 DEF Live, EngineInv, RestingKnown, BookIndexed
<1>5. TakerKnown' /\ StopsKnown' /\ PegsKnown'
  BY <1>1, <1>3 DEF EngineInv, TakerKnown, StopsKnown, PegsKnown
<1>6. cancelled' \subseteq DOMAIN submitted' /\ Resting(book)' \subseteq DOMAIN submitted'
  BY <1>1, <1>3 DEF EngineInv, TypeOK
<1>7. TypeOK'
  BY <1>1, <1>3, <1>6 DEF EngineInv, TypeOK
<1> QED BY <1>4, <1>5, <1>7 DEF EngineInv

\* A pegged order is repriced: it leaves the book and may come back into it.
LEMMA RepriceKeeps ==
  ASSUME EngineInv, Reprice
  PROVE  EngineInv'
<1> DEFINE o == pegged_orders[it]
           without == BookCancel(book, o.id)
<1>1. /\ UNCHANGED <<stop_orders, pegged_orders, last_trade_price, pc, taker,
                     fills, mark, submitted, traded, cancelled>>
      /\ it' = it + 1 /\ pc = "pegs" /\ it =< Len(pegged_orders)
      /\ \/ book' = without
         \/ \E p \in PegPrices(without, o) :
              book' = BookAdd(without, PegAsLimit(o, p))
  BY DEF Reprice, history
<1>2. /\ o \in Order /\ o.id \in DOMAIN submitted
      /\ submitted[o.id].type = "Pegged"
      /\ o.filled_quantity = 0 /\ o.quantity > 0 /\ o.hidden_quantity = 0
      /\ taker = NoOrder
  BY <1>1 DEF EngineInv, TypeOK, PegsKnown
<1>3. BookType(book) /\ Indexed(book) /\ Live(book)
  BY DEF EngineInv, TypeOK, BookIndexed, RestingKnown
<1>4. /\ BookType(without) /\ Indexed(without)
      /\ Resting(without) = Resting(book) \ {o.id}
      /\ \A j \in Resting(without) : without.order_map[j] = book.order_map[j]
  BY <1>3, CancelKeeps
<1> HIDE DEF without, o
<1>5. Live(without)
  BY <1>3, <1>4 DEF Live
<1>6. /\ BookType(book') /\ Indexed(book') /\ Live(book')
      /\ Resting(book') \subseteq Resting(book) \cup {o.id}
  <2>1. CASE book' = without
    BY <2>1, <1>4, <1>5
  <2>2. ASSUME NEW p \in PegPrices(without, o),
               book' = BookAdd(without, PegAsLimit(o, p))
        PROVE  /\ BookType(book') /\ Indexed(book') /\ Live(book')
               /\ Resting(book') \subseteq Resting(book) \cup {o.id}
    <3> DEFINE x == PegAsLimit(o, p)
    <3>1. p \in Price
      BY <1>2, <1>4, PegPricesType
    <3>2. x \in Order /\ x.id = o.id /\ Tradable(x)
      BY <1>2, <3>1, PegAsLimitShape
    <3> HIDE DEF x
    <3>3. /\ x.type = "Limit" /\ x.id \notin Resting(without)
          /\ book' = BookAdd(without, x)
      BY <1>4, <2>2, <3>2 DEF Tradable, x
    <3>4. BookType(book') /\ Indexed(book')
      BY <1>4, <3>2, <3>3, AddKeeps
    <3>5. /\ Resting(book') = Resting(without) \cup {o.id}
          /\ book'.order_map[o.id] = x
          /\ \A j \in Resting(without) : j # o.id =>
               book'.order_map[j] = without.order_map[j]
      BY <1>4, <3>2, <3>3, AddShape
    <3>6. Live(book')
      BY <1>5, <3>2, <3>5 DEF Live
    <3> QED BY <1>4, <3>4, <3>5, <3>6
  <2> QED BY <1>1, <2>1, <2>2
<1>7. RestingKnown' /\ BookIndexed' /\ Resting(book)' \subseteq DOMAIN submitted'
  BY <1>1, <1>2, <1>6 DEF EngineInv, TypeOK, RestingKnown, BookIndexed
<1>8. StopsKnown' /\ PegsKnown' /\ TakerKnown'
  BY <1>1, <1>2 DEF EngineInv, StopsKnown, PegsKnown, TakerKnown
<1>9. it' \in Nat \ {0}
  BY <1>1 DEF EngineInv, TypeOK
<1>10. TypeOK'
  BY SMTT(20), <1>1, <1>6, <1>7, <1>9 DEF EngineInv, TypeOK
<1> QED BY <1>7, <1>8, <1>10 DEF EngineInv

\* What FillFront finds: the front order of a level rests, it is not the order
\* being matched, and the quantity that trades is at most what each has left.
LEMMA FrontShape ==
  ASSUME EngineInv, taker # NoOrder, Remaining(taker) > 0,
         NEW p \in BestPrices(book, Opposite(taker.side)),
         book.level[Opposite(taker.side)][p].queue # <<>>
  PROVE  LET maker == book.order_map[Head(book.level[Opposite(taker.side)][p].queue)]
             qty == Least(Remaining(taker), Remaining(maker))
         IN  /\ taker \in Order
             /\ maker \in Order /\ maker.id \in Resting(book)
             /\ maker = book.order_map[maker.id]
             /\ maker.side = Opposite(taker.side) /\ maker.price = p
             /\ maker.id # taker.id
             /\ qty \in Quantity /\ qty \in Nat /\ qty > 0
             /\ qty =< Remaining(maker) /\ qty =< Remaining(taker)
<1> DEFINE s == Opposite(taker.side)
           q == book.level[s][p].queue
           i == Head(q)
           maker == book.order_map[i]
           qty == Least(Remaining(taker), Remaining(maker))
<1>1. BookType(book) /\ Indexed(book) /\ Live(book) /\ taker \in Order
  BY DEF EngineInv, TypeOK, BookIndexed, RestingKnown
<1>2. s \in Side /\ p \in Prices(book, s)
  BY <1>1, OrderFields DEF BestPrices, Opposite, Side
<1>3. q \in Seq(OrderId) /\ q # <<>>
  BY <1>1, <1>2 DEF BookType, Level
<1> HIDE DEF s
<1>4. \A k \in DOMAIN q : /\ q[k] \in Resting(book)
                         /\ book.order_map[q[k]].side = s
                         /\ book.order_map[q[k]].price = p
  BY <1>1, <1>2, IndexedQueue
<1> HIDE DEF q
<1>5. i \in Resting(book) /\ maker.side = s /\ maker.price = p
  <2>1. 1 \in DOMAIN q /\ i = q[1]
    BY <1>3
  <2> QED BY <1>4, <2>1
<1> HIDE DEF i
<1>6. maker \in Order /\ maker.id = i
  BY <1>1, <1>5, IndexedOrder
<1>7. maker.filled_quantity < maker.quantity
  BY <1>1, <1>5 DEF Live, Tradable
<1>8. taker.id \notin Resting(book)
  BY DEF EngineInv, TakerKnown
<1>9. /\ qty \in Nat /\ qty > 0 /\ qty \in Quantity
      /\ qty =< Remaining(maker) /\ qty =< Remaining(taker)
  <2> HIDE DEF maker
  <2>1. /\ taker.quantity \in Quantity /\ taker.filled_quantity \in Quantity
        /\ maker.quantity \in Quantity /\ maker.filled_quantity \in Quantity
    BY <1>1, <1>6 DEF Order
  <2>2. Remaining(maker) > 0 /\ Remaining(maker) \in Quantity
    BY <1>7, <2>1, QuantityModulusAssumption DEF Quantity, Remaining
  <2>3. Remaining(taker) \in Quantity
    BY <2>1, QuantityModulusAssumption DEF Quantity, Remaining
  <2>4. qty \in {Remaining(taker), Remaining(maker)}
    BY DEF Least
  <2> QED BY <2>2, <2>3, <2>4, QuantityModulusAssumption DEF Least, Quantity
<1> QED BY <1>1, <1>5, <1>6, <1>8, <1>9 DEF maker, i, q, s

\* One trade of the inner loop.
LEMMA FillFrontKeeps ==
  ASSUME EngineInv, FillFront
  PROVE  EngineInv'
<1>1. /\ pc = "queue" /\ Remaining(taker) > 0 /\ taker # NoOrder
      /\ UNCHANGED <<stop_orders, pegged_orders, last_trade_price, pc, mark, it,
                     submitted, cancelled>>
  BY Zenon DEF FillFront, EngineInv, TypeOK
<1>2. PICK p \in BestPrices(book, Opposite(taker.side)) :
       LET queue == book.level[Opposite(taker.side)][p].queue
           maker == book.order_map[Head(queue)]
           qty == Least(Remaining(taker), Remaining(maker))
       IN  /\ queue # <<>>
           /\ book' = FillMaker(book, maker.id, qty)
           /\ taker' = [taker EXCEPT !.filled_quantity = @ + qty]
           /\ fills' = Append(fills, [maker |-> maker.id, taker |-> taker.id,
                                      price |-> maker.price, quantity |-> qty,
                                      aggressor_side |-> taker.side])
           /\ traded' = [traded EXCEPT ![maker.id] = @ + qty,
                                       ![taker.id] = @ + qty]
  BY Zenon DEF FillFront
<1> DEFINE maker == book.order_map[Head(book.level[Opposite(taker.side)][p].queue)]
           qty == Least(Remaining(taker), Remaining(maker))
<1>3. /\ taker \in Order
      /\ maker \in Order /\ maker.id \in Resting(book)
      /\ maker = book.order_map[maker.id]
      /\ maker.id # taker.id
      /\ qty \in Quantity /\ qty \in Nat /\ qty > 0
      /\ qty =< Remaining(maker) /\ qty =< Remaining(taker)
  BY Zenon, <1>1, <1>2, FrontShape
<1>4. /\ book' = FillMaker(book, maker.id, qty)
      /\ taker' = [taker EXCEPT !.filled_quantity = taker.filled_quantity + qty]
      /\ fills' = Append(fills, [maker |-> maker.id, taker |-> taker.id,
                                 price |-> maker.price, quantity |-> qty,
                                 aggressor_side |-> taker.side])
      /\ traded' = [traded EXCEPT ![maker.id] = @ + qty, ![taker.id] = @ + qty]
  BY Zenon, <1>2
<1> HIDE DEF maker, qty
<1>5. BookType(book) /\ Indexed(book) /\ Live(book)
  BY DEF EngineInv, TypeOK, BookIndexed, RestingKnown
<1>6. /\ BookType(book') /\ Indexed(book') /\ Live(book')
      /\ Resting(book') \subseteq Resting(book)
  <2>1. qty =< Remaining(book.order_map[maker.id])
    BY <1>3
  <2> HIDE <1>3
  <2> QED BY <2>1, <1>3, <1>4, <1>5, FillMakerKeeps
<1>7. /\ taker' \in Order /\ taker' # NoOrder /\ taker'.id = taker.id
      /\ taker'.filled_quantity =< taker'.quantity
      /\ taker'.hidden_quantity = taker.hidden_quantity /\ taker'.type = taker.type
  <2>1. taker.filled_quantity + qty \in Quantity
    BY <1>3, QuantityModulusAssumption DEF Order, Quantity, Remaining
  <2>2. taker.filled_quantity + qty =< taker.quantity
    BY <1>3, OrderFields DEF Remaining
  <2>3. /\ taker' \in Order /\ taker'.id = taker.id
        /\ taker'.quantity = taker.quantity
        /\ taker'.filled_quantity = taker.filled_quantity + qty
        /\ taker'.hidden_quantity = taker.hidden_quantity /\ taker'.type = taker.type
    BY <1>3, <1>4, <2>1 DEF Order
  <2> QED BY <2>2, <2>3, NoOrderAssumption
<1>8. /\ taker.id \in DOMAIN submitted /\ submitted[taker.id].type # "Pegged"
      /\ taker.id \notin Resting(book) /\ taker.hidden_quantity = 0
      /\ taker.type = "Limit" => submitted[taker.id].type = "Limit"
  BY <1>1 DEF EngineInv, TakerKnown
<1>9. TakerKnown'
  BY <1>1, <1>6, <1>7, <1>8 DEF TakerKnown
<1>10. RestingKnown' /\ BookIndexed' /\ StopsKnown' /\ PegsKnown'
  BY <1>1, <1>6
  DEF EngineInv, RestingKnown, BookIndexed, StopsKnown, PegsKnown
<1>11. fills' \in Seq(Fill) /\ Len(fills') = Len(fills) + 1
  <2>1. [maker |-> maker.id, taker |-> taker.id, price |-> maker.price,
         quantity |-> qty, aggressor_side |-> taker.side] \in Fill
    BY <1>3 DEF Fill, Order
  <2>2. fills \in Seq(Fill)
    BY DEF EngineInv, TypeOK
  <2> QED BY <1>4, <2>1, <2>2
<1>12. mark' \in 0 .. Len(fills')
  BY <1>1, <1>11 DEF EngineInv, TypeOK
<1>13. traded' \in [DOMAIN submitted' -> Nat]
  <2>1. /\ traded \in [DOMAIN submitted -> Nat]
        /\ maker.id \in DOMAIN submitted
    BY <1>3 DEF EngineInv, TypeOK
  <2> QED BY <1>1, <1>3, <1>4, <1>8, <2>1
<1>14. Resting(book)' \subseteq DOMAIN submitted'
  BY <1>1, <1>6 DEF EngineInv, TypeOK
<1>15. TypeOK'
  BY <1>1, <1>6, <1>7, <1>11, <1>12, <1>13, <1>14 DEF EngineInv, TypeOK
<1> QED BY <1>9, <1>10, <1>15 DEF EngineInv

\* The end of match_limit (matching_engine.cpp:100-107): what is left of a GTC
\* order joins the book, where it was not, and nothing else moves.
LEMMA RestKeeps ==
  ASSUME NEW b, b = Rest(taker), EngineInv, taker # NoOrder
  PROVE  /\ BookType(b) /\ Indexed(b) /\ Live(b)
         /\ \/ b = book
            \/ /\ taker.type = "Limit" /\ Remaining(taker) > 0
               /\ \E x \in Order : /\ b = BookAdd(book, x)
                                   /\ x.id = taker.id /\ x.type = "Limit"
               /\ Resting(b) = Resting(book) \cup {taker.id}
               /\ b.order_map[taker.id].side = taker.side
               /\ Remaining(b.order_map[taker.id])
                    + b.order_map[taker.id].hidden_quantity = Remaining(taker)
               /\ \A j \in Resting(book) : b.order_map[j] = book.order_map[j]
               /\ \A s \in Side :
                    Prices(b, s) = IF s = taker.side
                                   THEN Prices(book, s) \cup {taker.price}
                                   ELSE Prices(book, s)
<1>1. /\ BookType(book) /\ Indexed(book) /\ Live(book) /\ taker \in Order
      /\ taker.id \notin Resting(book) /\ taker.hidden_quantity = 0
  BY DEF EngineInv, TypeOK, BookIndexed, RestingKnown, TakerKnown
<1>2. CASE b = book
  BY <1>1, <1>2
<1>3. CASE b # book
  <2>1. /\ taker.type = "Limit" /\ Remaining(taker) > 0
        /\ b = IF IsIceberg(taker) THEN AddIceberg(book, taker)
                                   ELSE BookAdd(book, taker)
    BY <1>3 DEF Rest
  <2>2. PICK x \in Order :
          /\ b = BookAdd(book, x)
          /\ x.id = taker.id /\ x.side = taker.side /\ x.price = taker.price
          /\ Tradable(x)
          /\ Remaining(x) + x.hidden_quantity = Remaining(taker)
    <3>1. CASE IsIceberg(taker)
      <4>1. taker.visible_quantity > 0 /\ b = AddIceberg(book, taker)
        BY <2>1, <3>1 DEF IsIceberg
      <4> QED BY <1>1, <2>1, <4>1, SliceShape
    <3>2. CASE ~IsIceberg(taker)
      <4>1. Tradable(taker) /\ Remaining(taker) + taker.hidden_quantity = Remaining(taker)
        BY <1>1, <2>1, OrderFields DEF Tradable, Remaining
      <4> QED BY <1>1, <2>1, <3>2, <4>1
    <3> QED BY <3>1, <3>2
  <2>3. x.type = "Limit" /\ x.id \notin Resting(book)
    BY <1>1, <2>2 DEF Tradable
  <2>4. BookType(b) /\ Indexed(b)
    BY <1>1, <2>2, <2>3, AddKeeps
  <2>5. /\ Resting(b) = Resting(book) \cup {taker.id}
        /\ b.order_map[taker.id] = x
        /\ \A j \in Resting(book) : j # taker.id =>
             b.order_map[j] = book.order_map[j]
        /\ \A s \in Side :
             Prices(b, s) = IF s = taker.side
                            THEN Prices(book, s) \cup {taker.price}
                            ELSE Prices(book, s)
    BY <1>1, <2>2, <2>3, AddShape
  <2>6. Live(b)
    BY <1>1, <2>2, <2>5 DEF Live
  <2> QED BY <1>1, <2>1, <2>2, <2>3, <2>4, <2>5, <2>6
<1> QED BY <1>2, <1>3

\* The match of the submitted order is over: its remainder may rest, and the
\* call returns or goes on to the stops.
LEMMA EndMatchKeeps ==
  ASSUME EngineInv, EndMatch
  PROVE  EngineInv'
<1>1. /\ UNCHANGED <<stop_orders, pegged_orders, submitted, traded, cancelled>>
      /\ book' = Rest(taker) /\ taker # NoOrder /\ taker' = NoOrder
      /\ pc' \in {"idle", "stops"} /\ it' = 1
      /\ (mark' = mark /\ fills' = fills) \/ (mark' = 0 /\ fills' = <<>>)
  BY DEF EndMatch, MatchOver, StartScan, Return, history, EngineInv, TypeOK
<1>2. last_trade_price' \in Price
  <2>1. CASE NewFills
    <3>1. fills[Len(fills)] \in Fill
      BY <2>1 DEF EngineInv, TypeOK, NewFills
    <3> QED BY <2>1, <3>1 DEF EndMatch, StartScan, Fill
  <2>2. CASE ~NewFills
    BY <2>2 DEF EndMatch, EngineInv, TypeOK
  <2> QED BY <2>1, <2>2
<1>3. /\ BookType(book') /\ Indexed(book') /\ Live(book')
      /\ \/ book' = book
         \/ /\ taker.type = "Limit"
            /\ Resting(book') = Resting(book) \cup {taker.id}
  BY <1>1, RestKeeps
<1>4. /\ taker.id \in DOMAIN submitted
      /\ taker.type = "Limit" => submitted[taker.id].type = "Limit"
  BY <1>1 DEF EngineInv, TakerKnown
<1>5. /\ Resting(book)' \subseteq DOMAIN submitted'
      /\ \A i \in Resting(book)' : submitted'[i].type \in {"Limit", "Pegged"}
  BY <1>1, <1>3, <1>4 DEF EngineInv, TypeOK, RestingKnown
<1>6. /\ BookIndexed' /\ RestingKnown' /\ StopsKnown' /\ PegsKnown' /\ TakerKnown'
  BY <1>1, <1>3, <1>5
  DEF EngineInv, BookIndexed, RestingKnown, StopsKnown, PegsKnown, TakerKnown
<1>7. mark' \in 0 .. Len(fills') /\ fills' \in Seq(Fill)
  <2>1. <<>> \in Seq(Fill) /\ Len(<<>>) = 0
    OBVIOUS
  <2>2. mark \in 0 .. Len(fills) /\ fills \in Seq(Fill)
    BY DEF EngineInv, TypeOK
  <2>3. CASE mark' = mark /\ fills' = fills
    BY <2>2, <2>3
  <2>4. CASE mark' = 0 /\ fills' = <<>>
    BY <2>1, <2>4
  <2> QED BY <1>1, <2>3, <2>4
<1>8. TypeOK'
  BY <1>1, <1>2, <1>3, <1>5, <1>7 DEF EngineInv, TypeOK
<1> QED BY <1>6, <1>8 DEF EngineInv

-----------------------------------------------------------------------------
\* Every step of the engine keeps EngineInv.
LEMMA StepKeepsEngineInv ==
  ASSUME EngineInv, [Next]_vars
  PROVE  EngineInv'
<1>1. CASE UNCHANGED vars
  BY <1>1
  DEF vars, engine, call, history, EngineInv, TypeOK, BookIndexed, RestingKnown,
      TakerKnown, StopsKnown, PegsKnown
<1>2. ASSUME NEW i \in Fresh, NEW r \in Requests, Submit(i, r)
      PROVE  EngineInv'
  BY <1>2, SubmitMatchedKeeps, SubmitStopKeeps, SubmitPeggedKeeps DEF Submit
<1>3. ASSUME NEW i \in OrderId, Cancel(i)
      PROVE  EngineInv'
  BY <1>3, CancelKeepsEngineInv
<1>4. CASE EnterLevel \/ LeaveLevel \/ SkipStop \/ EndScan \/ EndReprice
  BY <1>4, LoopStepKeeps
<1>5. CASE FillFront
  BY <1>5, FillFrontKeeps
<1>6. CASE EndMatch
  BY <1>6, EndMatchKeeps
<1>7. CASE TriggerStop
  BY <1>7, TriggerStopKeeps
<1>8. CASE EndStopMatch
  BY <1>8, EndStopMatchKeeps
<1>9. CASE Reprice
  BY <1>9, RepriceKeeps
<1> QED
  BY <1>1, <1>2, <1>3, <1>4, <1>5, <1>6, <1>7, <1>8, <1>9 DEF Next, CallStep

\* EngineInv holds in every reachable state.
THEOREM EngineInvariant == Spec => []EngineInv
<1>1. Init => EngineInv
  BY InitEngineInv
<1>2. EngineInv /\ [Next]_vars => EngineInv'
  BY StepKeepsEngineInv
<1> QED BY <1>1, <1>2, PTL DEF Spec

\* Every variable keeps its type, quantities that wrap included
\* (types.hpp:10-12), whatever orders are sent.
THEOREM TypeCorrect == Spec => []TypeOK
<1>1. EngineInv => TypeOK
  BY DEF EngineInv
<1> QED BY <1>1, EngineInvariant, PTL

\* order_map_ and the price maps agree after every step of every call
\* (order_book.cpp:6-56): what cancel finds is in the queue it unlinks it from,
\* and no level outlives its last order.
THEOREM IndexesAgree == Spec => []BookIndexed
<1>1. EngineInv => BookIndexed
  BY DEF EngineInv
<1> QED BY <1>1, EngineInvariant, PTL

=============================================================================
