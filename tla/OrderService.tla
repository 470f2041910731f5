---------------------------- MODULE OrderService ----------------------------
(***************************************************************************)
(* The order service of backend/main.py: concurrent requests that place,   *)
(* cancel, replace and delete, and the TCP feed, against one engine in     *)
(* memory and one database.                                                *)
(*                                                                         *)
(* A request is a thread with a session of its own.  engine_lock is held   *)
(* from the trade of place_order to its commit; everything else touches    *)
(* the engine under the lock for one call only, and writes its rows after  *)
(* it has let go.  A session keeps the values it has read and writes       *)
(* changed columns as absolute values (no row is read again once it is     *)
(* loaded), so a value read too early undoes what others wrote.            *)
(*                                                                         *)
(* The engine's matching is the subject of MatchingEngine.  Here the       *)
(* engine is what is left in it of each order, and a call of it is bound   *)
(* by a contract only (Call, Taker, Values of trades): who trades with     *)
(* whom, and what orders without a row do, is left open.  Rows and engine  *)
(* orders bear the name of the request that made them.  Average prices,    *)
(* realised profit and messages on Redis are left out.                     *)
(***************************************************************************)
EXTENDS Integers, FiniteSetsExt

CONSTANTS
  Accounts,
  Requests,
  Jobs,         (* what a request may ask for                               *)
  MaxQuantity,  (* the largest quantity of a request (schemas.py)           *)
  LeastPrice, GreatestPrice,   (* prices at which orders may trade          *)
  InitialCash,  (* cash_ticks of a new account                              *)
  MaxPosition,  (* ASTRAX_MAX_POSITION                                      *)
  BandBps,      (* ASTRAX_PRICE_BAND_BPS                                    *)
  FeedQuantity, (* bound: what an order of the feed takes                   *)
  MaxFeeds,     (* bound: orders of the feed                                *)
  MaxMishaps    (* bound: commits that fail and restarts                    *)

Side == {"buy", "sell"}
Stops == {"stop", "stop_limit"}
Priced == {"limit", "iceberg", "stop_limit"}

\* A request that places, as schemas.py admits it: key is its idempotency key.
\* The other fields of a cancel or of a deletion are not looked at.
Job ==
  {j \in [op : {"place", "cancel", "replace", "delete"}, account : Accounts,
          type : {"market", "pegged"} \cup Priced \cup Stops, side : Side,
          quantity : 1 .. MaxQuantity, price : Nat, stop : Nat,
          tif : {"GTC", "IOC", "FOK"}, key : Nat] :
     /\ j.price > 0 <=> j.type \in Priced
     /\ j.stop > 0 <=> j.type \in Stops
     /\ j.type = "iceberg" => j.quantity > 1}

ASSUME JobsAssumption == \A j \in Jobs : j \in Job
ASSUME PricesAssumption == /\ {LeastPrice, GreatestPrice} \subseteq Int
                           /\ LeastPrice <= GreatestPrice
ASSUME LimitsAssumption ==
  {MaxQuantity, InitialCash, MaxPosition, BandBps, FeedQuantity, MaxFeeds, MaxMishaps}
    \subseteq Nat

NoOne == "no one"

ASSUME RequestsAssumption == IsFiniteSet(Requests) /\ NoOne \notin Requests

VARIABLES
  left,         (* the engine: what is left of an order, in the book or, if *)
                (* it is a stop, among the stops                            *)
  pegged,       (* the engine: pegs it has on its list                      *)
  lock,         (* who holds engine_lock                                    *)
  exists,       (* accounts in the database                                 *)
  cash, position,         (* per account                                    *)
  status, filled,         (* orders: status and filled_quantity             *)
  executed, spent,        (* fills: quantity of all executions of an order, *)
                          (* and price times quantity                       *)
  pc, job,      (* where each request is, and what it is                    *)
  seen,         (* what its session has read                                *)
  targets,      (* orders it still has to cancel                            *)
  got, owed,    (* what each order traded in its call of the engine, and    *)
                (* price times quantity                                     *)
  feed,         (* what the feed's client task is doing                     *)
  feeds, mishaps,         (* bounds                                         *)
  submitted, killed,      (* history: requests that reached the engine, and *)
                          (* those a mishap ended                           *)
  undone,       (* history: a commit failed or the process restarted, after *)
                (* the engine was called                                    *)
  stale,        (* history: accounts whose cash was read too early          *)
  raced,        (* history: a feed and a place applied fills side by side   *)
  reopened,     (* history: closed rows a fill was written to               *)
  missed,       (* history: what an order traded in its own call after it   *)
                (* had come to rest                                         *)
  excess        (* history: what fills cost an account beyond the prices of *)
                (* their orders                                             *)

core == <<left, pegged, lock>>
ledger == <<exists, cash, position, filled, executed, spent>>
database == <<ledger, status>>
sessions == <<pc, job, seen, targets, got, owed>>
trail == <<reopened, missed, excess>>
history == <<submitted, killed, undone, stale, raced, trail>>
vars == <<core, database, sessions, feed, feeds, mishaps, history>>

Open == {"open", "partially_filled"}
Closed == {"filled", "cancelled", "replaced"}
Nothing == [r \in Requests |-> 0]
Values == [cash |-> cash, position |-> position, filled |-> filled, status |-> status]
NotRead == [cash |-> <<>>, position |-> <<>>, filled |-> <<>>, status |-> <<>>]
NoJob == [op |-> "none", account |-> NoOne, type |-> "market", side |-> "buy", quantity |-> 0,
          price |-> 0, stop |-> 0, tif |-> "IOC", key |-> 0]
NoFeed == [at |-> "idle", got |-> Nothing, owed |-> Nothing, seen |-> NotRead]

TypeOK ==
  /\ left \in [Requests -> Nat] /\ pegged \subseteq Requests
  /\ lock \in Requests \cup {NoOne}
  /\ exists \subseteq Accounts
  /\ cash \in [Accounts -> Int] /\ position \in [Accounts -> Int]
  /\ status \in [Requests -> {"none"} \cup Open \cup Closed]
  /\ filled \in [Requests -> Nat] /\ executed \in [Requests -> Nat]
  /\ spent \in [Requests -> Int]
  /\ pc \in [Requests -> {"new", "placing", "locking", "committing", "cancel",
                          "cancelling", "closing", "delete", "deleting", "done"}]
  /\ \A t \in Requests : pc[t] # "new" => job[t] \in Job
  /\ \A t \in Requests : (pc[t] = "committing") = (lock = t)
  /\ targets \in [Requests -> SUBSET Requests]
  /\ feed.at \in {"idle", "filled", "applying"}
  /\ {raced, undone} \subseteq BOOLEAN
  /\ missed \in [Requests -> Nat] /\ excess \in [Accounts -> Nat]
  /\ feeds \in 0 .. MaxFeeds /\ mishaps \in 0 .. MaxMishaps

\* The engine starts with the orders of _seed_paper_book, which have no row.
\* The bounds may be used up from the start.
Init ==
  /\ left = Nothing /\ pegged = {} /\ lock = NoOne
  /\ exists = Accounts
  /\ cash = [a \in Accounts |-> InitialCash]
  /\ position = [a \in Accounts |-> 0]
  /\ status = [r \in Requests |-> "none"]
  /\ filled = Nothing /\ executed = Nothing /\ spent = Nothing
  /\ pc = [r \in Requests |-> "new"]
  /\ job = [r \in Requests |-> NoJob]
  /\ seen = [r \in Requests |-> NotRead]
  /\ targets = [r \in Requests |-> {}]
  /\ got = [r \in Requests |-> Nothing] /\ owed = got
  /\ feed = NoFeed /\ feeds \in 0 .. MaxFeeds /\ mishaps \in 0 .. MaxMishaps
  /\ submitted = {} /\ killed = {} /\ undone = FALSE
  /\ stale = {} /\ raced = FALSE /\ reopened = {}
  /\ missed = Nothing /\ excess = [a \in Accounts |-> 0]

-----------------------------------------------------------------------------
(* The engine: what a call of submit may do.                               *)

\* Stops that no trade has set off yet: they trade with nobody and are not in
\* the book, where a cancel looks for its order.
Dormant == {r \in Requests : left[r] > 0 /\ job[r].type \in Stops}

\* In a call whose taker t is of the given side and takes that much, each
\* other order r trades g[r], the stops in fired go off, and the pegs in back
\* find a reference when the call's fills move them.
Call(t, side, took, g, fired, back) ==
  /\ fired \subseteq Dormant /\ back \subseteq pegged
  /\ \A r \in Requests \ {t} : g[r] <= left[r] /\ (r \in Dormant \ fired => g[r] = 0)
  /\ took = 0 => fired \cup back = {}
  /\ fired = {} => /\ SumFunctionOnSet(g, Requests \ {t}) <= took
                   /\ \A r \in Requests \ {t} : g[r] > 0 => job[r].side # side

\* What the call leaves of the others: a stop that went off is gone, whatever
\* it traded; every peg ever placed, cancelled or traded meanwhile or not,
\* comes back whole if there is a reference.
Remains(took, g, fired, back) ==
  [r \in Requests |->
     IF took > 0 /\ r \in pegged THEN (IF r \in back THEN job[r].quantity ELSE 0)
     ELSE IF r \in fired THEN 0 ELSE left[r] - g[r]]

\* What becomes of an order of job j itself: it trades n, of which it takes the
\* first part, and rest of it stays.  A stop waits; a peg comes to rest, or is
\* refused without a reference; the remainder of a market order goes whatever
\* its tif.  What has come to rest trades again in its own call only with a
\* stop that goes off.
Taker(j, took, n, rest, fired) ==
  CASE j.type \in Stops    -> took = 0 /\ n = 0 /\ rest = j.quantity
    [] j.type = "pegged"   -> took = 0 /\ n = 0 /\ rest \in {0, j.quantity}
    [] j.type = "market"   -> n = took /\ rest = 0
    [] OTHER -> CASE j.tif = "IOC" -> n = took /\ rest = 0
                  [] j.tif = "FOK" -> n = took /\ rest = 0 /\ took \in {0, j.quantity}
                  [] OTHER -> /\ took <= n /\ rest = j.quantity - n
                              /\ n = took \/ (took > 0 /\ fired # {})

\* Orders that trade at prices of other orders, or at one of the moment: the
\* taker, stops and pegs.  Any other trades at its own price.
Floating(t, g) == {r \in Requests : g[r] > 0 /\ (r = t \/ job[r].type \notin {"limit", "iceberg"})}

\* Price times quantity of what orders traded, with what those at prices of
\* the moment pay above the least price.
Worth(t, g, above) ==
  [r \in Requests |-> IF r \in Floating(t, g) THEN g[r] * LeastPrice + above[r]
                      ELSE g[r] * job[r].price]

Markups(t, g) ==
  {above \in [Floating(t, g) -> 0 .. MaxQuantity * (GreatestPrice - LeastPrice)] :
     \A r \in Floating(t, g) : above[r] <= g[r] * (GreatestPrice - LeastPrice)}

-----------------------------------------------------------------------------
(* What orders and fills amount to.                                        *)

Signed(side, quantity) == IF side = "buy" THEN quantity ELSE -quantity

OrdersOf(a) == {r \in Requests : pc[r] # "new" /\ job[r].account = a}
OpenOrders(a) == {r \in OrdersOf(a) : status[r] \in Open}
Left(r) == job[r].quantity - filled[r]

\* What account a gains when each order r of rows comes to g[r].
Shares(a, g, rows) ==
  SumFunctionOnSet([r \in Requests |-> Signed(job[r].side, g[r])], rows \cap OrdersOf(a))

\* What order r costs beyond its price when it trades n for w.
Beyond(r, n, w) ==
  LET over == IF job[r].side = "buy" THEN w - n * job[r].price ELSE -w
  IN  IF over > 0 THEN over ELSE 0

\* Faulty: a fill closes the order it is of.
FilledStatusEarly(r, quantity) ==
  IF quantity > 0 THEN "filled" ELSE "open"

\* The status of order r with the given filled_quantity.
FilledStatus(r, quantity) ==
  CASE quantity >= job[r].quantity -> "filled"
    [] quantity = 0                -> "open"
    [] OTHER                       -> "partially_filled"

\* Orders with a row: only these are found for a fill.
Rows == {r \in Requests : status[r] # "none"}

\* The filled_quantity of row r after a fill of n: a new row has what the engine
\* says of its order; the others are raised up to their quantity.
Raised(r, n, values) ==
  LET old == values.filled[r]
  IN  IF r \notin Rows \/ old >= job[r].quantity THEN old
      ELSE IF old + n < job[r].quantity THEN old + n ELSE job[r].quantity

\* _apply_fills, with the new row there may be among rows: the rows of orders
\* with a fill, and their accounts, are written with what the session has read,
\* added to; a column that comes out as it was read is not written; executions
\* are inserted.
ApplyFills(g, w, values, rows) ==
  LET touched == {r \in rows : g[r] > 0}
      owners == {job[r].account : r \in touched}
      quantity(r) == Raised(r, g[r], values)
      label(r) == FilledStatus(r, quantity(r))
  IN  /\ filled' = [r \in Requests |->
           IF r \in rows \ Rows \/ (r \in touched /\ quantity(r) # values.filled[r])
           THEN quantity(r) ELSE filled[r]]
      /\ status' = [r \in Requests |->
           IF r \in rows \ Rows \/ (r \in touched /\ label(r) # values.status[r])
           THEN label(r) ELSE status[r]]
      /\ executed' = [r \in Requests |-> executed[r] + IF r \in touched THEN g[r] ELSE 0]
      /\ spent' = [r \in Requests |-> spent[r] + IF r \in touched THEN w[r] ELSE 0]
      /\ position' = [a \in Accounts |-> IF a \in owners THEN values.position[a] + Shares(a, g, touched)
                                         ELSE position[a]]
      /\ cash' = [a \in Accounts |-> IF a \in owners THEN values.cash[a] - Shares(a, w, touched)
                                     ELSE cash[a]]
      /\ reopened' = reopened \cup {r \in touched : status[r] \in Closed}
      /\ missed' = [r \in Requests |-> IF r \in rows \ Rows THEN g[r] - values.filled[r]
                                       ELSE missed[r]]
      /\ excess' = [a \in Accounts |-> excess[a] +
           SumFunctionOnSet([r \in Requests |-> Beyond(r, g[r], w[r])], touched \cap OrdersOf(a))]

-----------------------------------------------------------------------------
(* place_order.                                                            *)

Goto(t, label) == pc' = [pc EXCEPT ![t] = label]

\* A request arrives.
Arrive(t) ==
  /\ pc[t] = "new"
  /\ \E j \in Jobs :
       /\ job' = [job EXCEPT ![t] = j]
       /\ Goto(t, CASE j.op = "place" -> "placing"
                    [] j.op = "delete" -> "delete"
                    [] OTHER -> "cancel")
  /\ UNCHANGED <<core, database, seen, targets, got, owed, feed, feeds, mishaps, history>>

\* A row that holds the key of request t already.
Repeated(t) ==
  \E r \in Rows : job[r].account = job[t].account /\ job[r].key = job[t].key

\* The account and its cash are read before the lock; an unknown account and
\* a known key are answered.
PlaceRead(t) ==
  /\ pc[t] = "placing"
  /\ IF job[t].account \notin exists \/ Repeated(t)
     THEN /\ Goto(t, "done")
          /\ UNCHANGED seen
     ELSE /\ Goto(t, "locking")
          /\ seen' = [seen EXCEPT ![t] = Values]
  /\ UNCHANGED <<core, database, job, targets, got, owed, feed, feeds, mishaps, history>>

\* What request t is checked against when the best prices are bid and ask, zero
\* where there is none: its price or stop, or else the other side's best.
Policy(t) == IF job[t].price > 0 THEN job[t].price ELSE job[t].stop
Reference(t, bid, ask) == IF Policy(t) # 0 THEN Policy(t) ELSE IF ask # 0 THEN ask ELSE bid

\* A position with all open orders and the new one, and the price band.
WithinLimits(t, bid, ask) ==
  LET a == job[t].account
      open == Shares(a, [r \in Requests |-> Left(r)], OpenOrders(a))
      projected == position[a] + open + Signed(job[t].side, job[t].quantity)
      middle == IF bid # 0 /\ ask # 0 THEN (bid + ask) \div 2 ELSE IF bid # 0 THEN bid ELSE ask
      off == IF Policy(t) > middle THEN Policy(t) - middle ELSE middle - Policy(t)
  IN  /\ projected \in -MaxPosition .. MaxPosition
      /\ Policy(t) # 0 /\ middle # 0 => off * 10000 <= middle * BandBps

\* Faulty: what open orders may still cost is left out.
RiskWithoutPending(t, bid, ask) ==
  /\ WithinLimits(t, bid, ask)
  /\ job[t].side = "buy" /\ Reference(t, bid, ask) # 0
       => Reference(t, bid, ask) * job[t].quantity <= seen[t].cash[job[t].account]

\* What the open buys of account a may still cost: nothing without a price.
Pending(a) ==
  SumFunctionOnSet([r \in Requests |-> Left(r) * job[r].price],
                   {r \in OpenOrders(a) : job[r].side = "buy"})

\* _risk_check, with the cash read before: without a reference nothing is
\* checked against it.
RiskAccepts(t, bid, ask) ==
  /\ WithinLimits(t, bid, ask)
  /\ job[t].side = "buy" /\ Reference(t, bid, ask) # 0
       => Pending(job[t].account) + Reference(t, bid, ask) * job[t].quantity
            <= seen[t].cash[job[t].account]

\* Best prices there may be.
Quotes == {0} \cup LeastPrice .. GreatestPrice

\* Faulty: the key is not looked for again under the lock.
AcceptsUnchecked(t, bid, ask) == RiskAccepts(t, bid, ask)

\* What is looked at under the lock before the engine is called.
Accepts(t, bid, ask) == ~Repeated(t) /\ RiskAccepts(t, bid, ask)

\* Faulty: nothing is read again under the lock.
SeenBefore(t, took) == [seen[t] EXCEPT !.filled[t] = took]

\* What the session of t knows when the engine has taken its order: its account's
\* cash from before the lock, all else from now, and what its order took.
SeenAfter(t, took) ==
  [Values EXCEPT !.cash[job[t].account] = seen[t].cash[job[t].account], !.filled[t] = took]

\* Under the lock: everything but the account's cash is read now.
Trade(t) ==
  /\ pc[t] = "locking" /\ lock = NoOne
  /\ \E bid, ask \in Quotes : Accepts(t, bid, ask)
  /\ \E took \in 0 .. job[t].quantity, g \in [Requests -> 0 .. MaxQuantity],
       fired \in SUBSET Dormant, back \in SUBSET pegged :
       /\ Call(t, job[t].side, took, g, fired, back)
       /\ \E rest \in 0 .. job[t].quantity :
            /\ Taker(job[t], took, g[t], rest, fired)
            /\ left' = [Remains(took, g, fired, back) EXCEPT ![t] = rest]
            /\ pegged' = IF job[t].type = "pegged" /\ rest > 0 THEN pegged \cup {t} ELSE pegged
       /\ got' = [got EXCEPT ![t] = g]
       /\ \E above \in Markups(t, g) : owed' = [owed EXCEPT ![t] = Worth(t, g, above)]
       /\ seen' = [seen EXCEPT ![t] = SeenAfter(t, took)]
  /\ stale' = IF seen[t].cash[job[t].account] = cash[job[t].account] THEN stale
              ELSE stale \cup {job[t].account}
  /\ lock' = t
  /\ Goto(t, "committing")
  /\ submitted' = submitted \cup {t}
  /\ UNCHANGED <<database, job, targets, feed, feeds, mishaps, killed, undone, raced, trail>>

Refuse(t) ==
  /\ pc[t] = "locking" /\ lock = NoOne
  /\ \E bid, ask \in Quotes : ~Accepts(t, bid, ask)
  /\ Goto(t, "done")
  /\ seen' = [seen EXCEPT ![t] = NotRead]
  /\ UNCHANGED <<core, database, job, targets, got, owed, feed, feeds, mishaps, history>>

\* Faulty: the lock is not let go.
EndLocked(t) ==
  /\ Goto(t, "done")
  /\ seen' = [seen EXCEPT ![t] = NotRead]
  /\ got' = [got EXCEPT ![t] = Nothing] /\ owed' = [owed EXCEPT ![t] = Nothing]
  /\ UNCHANGED lock

\* The request ends and forgets what it has read.
End(t) ==
  /\ Goto(t, "done")
  /\ seen' = [seen EXCEPT ![t] = NotRead]
  /\ got' = [got EXCEPT ![t] = Nothing] /\ owed' = [owed EXCEPT ![t] = Nothing]
  /\ lock' = IF lock = t THEN NoOne ELSE lock

\* The orders of its commit, and whether the database takes it: an account that
\* is gone or a key that is there makes it fail, and nothing is written.  (A
\* counterpart's row that goes after it was read makes it fail too: PlaceFails.)
Written(t) == {r \in Rows \cup {t} : got[t][r] > 0} \cup {t}
Commits(t) ==
  /\ \A r \in Written(t) : job[r].account \in exists
  /\ ~Repeated(t)

PlaceCommit(t) ==
  /\ pc[t] = "committing"
  /\ IF Commits(t)
     THEN /\ ApplyFills(got[t], owed[t], seen[t], Written(t))
          /\ raced' = (raced \/ feed.at = "applying")
          /\ UNCHANGED undone
     ELSE /\ undone' = TRUE
          /\ UNCHANGED <<filled, status, executed, spent, position, cash, raced, trail>>
  /\ End(t)
  /\ UNCHANGED <<left, pegged, exists, job, targets, feed, feeds, mishaps, submitted, killed, stale>>

-----------------------------------------------------------------------------
(* cancel_order, replace_order, delete_account.                            *)

\* The client names an order: of another account, closed, or to be cancelled.
CancelRead(t) ==
  /\ pc[t] = "cancel"
  /\ \E r \in Requests :
       IF r \in OpenOrders(job[t].account)
       THEN /\ Goto(t, "cancelling")
            /\ targets' = [targets EXCEPT ![t] = {r}]
       ELSE /\ Goto(t, "done")
            /\ UNCHANGED targets
  /\ UNCHANGED <<core, database, job, seen, got, owed, feed, feeds, mishaps, history>>

\* core.cancel looks in the book only: a dormant stop is not found, and a peg
\* stays on its list.
Found(r) == left[r] > 0 /\ r \notin Dormant
CancelInEngine(r) ==
  /\ left' = IF Found(r) THEN [left EXCEPT ![r] = 0] ELSE left
  /\ UNCHANGED <<pegged, lock>>

\* The engine is asked under the lock; what it says decides.
EngineCancel(t) ==
  /\ pc[t] = "cancelling" /\ lock = NoOne
  /\ \E r \in targets[t] :
       /\ CancelInEngine(r)
       /\ Goto(t, IF Found(r) THEN "closing" ELSE "done")
  /\ UNCHANGED <<database, job, seen, targets, got, owed, feed, feeds, mishaps, history>>

\* The row is written after the lock; a replacement is placed then, if it is.
CancelCommit(t) ==
  /\ pc[t] = "closing"
  /\ \E r \in targets[t] :
       status' = IF r \in Rows
                 THEN [status EXCEPT ![r] = IF job[t].op = "replace" THEN "replaced"
                                            ELSE "cancelled"]
                 ELSE status
  /\ Goto(t, IF job[t].op = "replace" /\ targets[t] \subseteq Rows THEN "placing" ELSE "done")
  /\ UNCHANGED <<core, ledger, job, seen, targets, got, owed, feed, feeds, mishaps, history>>

DeleteRead(t) ==
  /\ pc[t] = "delete"
  /\ IF job[t].account \in exists
     THEN /\ Goto(t, "deleting")
          /\ targets' = [targets EXCEPT ![t] = OpenOrders(job[t].account)]
     ELSE Goto(t, "done") /\ UNCHANGED targets
  /\ UNCHANGED <<core, database, job, seen, got, owed, feed, feeds, mishaps, history>>

DeleteCancel(t) ==
  /\ pc[t] = "deleting" /\ lock = NoOne
  /\ \E r \in targets[t] :
       /\ CancelInEngine(r)
       /\ targets' = [targets EXCEPT ![t] = @ \ {r}]
  /\ UNCHANGED <<database, pc, job, seen, got, owed, feed, feeds, mishaps, history>>

\* The account goes with its orders and their executions.
DeleteCommit(t) ==
  /\ pc[t] = "deleting" /\ targets[t] = {}
  /\ exists' = exists \ {job[t].account}
  /\ LET gone == OrdersOf(job[t].account)
     IN  /\ status' = [r \in Requests |-> IF r \in gone THEN "none" ELSE status[r]]
         /\ filled' = [r \in Requests |-> IF r \in gone THEN 0 ELSE filled[r]]
         /\ executed' = [r \in Requests |-> IF r \in gone THEN 0 ELSE executed[r]]
         /\ spent' = [r \in Requests |-> IF r \in gone THEN 0 ELSE spent[r]]
  /\ Goto(t, "done")
  /\ UNCHANGED <<core, cash, position, job, seen, targets, got, owed, feed, feeds, mishaps, history>>

-----------------------------------------------------------------------------
(* The TCP feed: an order under the lock, its fills without it.            *)

\* An order that trades; one that does not changes nothing here.
FeedSubmit ==
  /\ feed.at = "idle" /\ feeds < MaxFeeds /\ lock = NoOne
  /\ feeds' = feeds + 1
  /\ \E side \in Side, took \in 1 .. FeedQuantity, g \in [Requests -> 0 .. MaxQuantity],
       fired \in SUBSET Dormant, back \in SUBSET pegged :
       /\ Call(NoOne, side, took, g, fired, back)
       /\ left' = Remains(took, g, fired, back)
       /\ \E above \in Markups(NoOne, g) :
            feed' = [NoFeed EXCEPT !.at = "filled", !.got = g, !.owed = Worth(NoOne, g, above)]
  /\ UNCHANGED <<pegged, lock, database, sessions, mishaps, history>>

FeedRead ==
  /\ feed.at = "filled"
  /\ feed' = [feed EXCEPT !.at = "applying", !.seen = Values]
  /\ UNCHANGED <<core, database, sessions, feeds, mishaps, history>>

FeedCommit ==
  /\ feed.at = "applying"
  /\ ApplyFills(feed.got, feed.owed, feed.seen, Rows)
  /\ feed' = NoFeed
  /\ raced' = (raced \/ lock # NoOne)
  /\ UNCHANGED <<core, exists, sessions, feeds, mishaps, submitted, killed, undone, stale>>

\* The database refuses the commit: a row is gone since it was read, or it fails.
FeedFails ==
  /\ feed.at = "applying"
  /\ feed' = NoFeed
  /\ undone' = TRUE
  /\ UNCHANGED <<core, database, sessions, feeds, mishaps, submitted, killed, stale, raced, trail>>

-----------------------------------------------------------------------------
(* Mishaps.                                                                *)

Mishap ==
  /\ mishaps < MaxMishaps
  /\ mishaps' = mishaps + 1

\* A commit fails: the session is rolled back, the engine is not.
PlaceFails(t) ==
  /\ Mishap
  /\ pc[t] = "committing"
  /\ killed' = killed \cup {t} /\ undone' = TRUE
  /\ End(t)
  /\ UNCHANGED <<left, pegged, database, job, targets, feed, feeds, submitted, stale, raced, trail>>

CancelFails(t) ==
  /\ Mishap
  /\ pc[t] = "closing"
  /\ Goto(t, "done") /\ undone' = TRUE
  /\ UNCHANGED <<core, database, job, seen, targets, got, owed, feed, feeds, submitted, killed,
                 stale, raced, trail>>

\* The process ends and starts again: the engine is empty but for the seed,
\* the database is as it was.
Restart ==
  /\ Mishap
  /\ left' = Nothing /\ pegged' = {} /\ lock' = NoOne
  /\ killed' = killed \cup {t \in Requests : pc[t] = "committing"} /\ undone' = TRUE
  /\ pc' = [t \in Requests |-> IF pc[t] = "new" THEN "new" ELSE "done"]
  /\ seen' = [t \in Requests |-> NotRead]
  /\ got' = [t \in Requests |-> Nothing] /\ owed' = got'
  /\ feed' = NoFeed
  /\ UNCHANGED <<database, job, targets, feeds, submitted, stale, raced, trail>>

Next ==
  \/ \E t \in Requests :
       \/ Arrive(t)
       \/ PlaceRead(t) \/ Trade(t) \/ Refuse(t) \/ PlaceCommit(t)
       \/ CancelRead(t) \/ EngineCancel(t) \/ CancelCommit(t)
       \/ DeleteRead(t) \/ DeleteCancel(t) \/ DeleteCommit(t)
       \/ PlaceFails(t) \/ CancelFails(t)
  \/ FeedSubmit \/ FeedRead \/ FeedCommit \/ FeedFails
  \/ Restart

Spec == Init /\ [][Next]_vars

-----------------------------------------------------------------------------
(* Properties.                                                             *)

\* One key, one order: of two requests of an account with the same key only
\* one reaches the engine, unless a mishap took the row of the first
\* ("simultaneous retries cannot submit the same idempotency key twice").
KeyOnce ==
  \A t, u \in submitted \ killed :
    (t # u /\ job[t].account = job[u].account /\ job[t].account \in exists)
      => job[t].key # job[u].key

\* The books balance: an account's position is what its executions come to and
\* its cash what they cost, and filled_quantity is what an order executed up to
\* its quantity (a peg may execute more), but for what it traded in its own call
\* after it had come to rest.  This holds through concurrent requests, failed
\* commits and restarts of any order type, unless the cash was read too early
\* (stale) or a feed and a request applied fills side by side (raced).
LedgerExact ==
  raced \/ \A a \in exists :
    /\ position[a] = Shares(a, executed, Requests)
    /\ a \in stale \/ cash[a] = InitialCash - Shares(a, spent, Requests)
    /\ \A r \in OrdersOf(a) :
         /\ filled[r] <= job[r].quantity
         /\ filled[r] + missed[r] =
              IF executed[r] < job[r].quantity THEN executed[r] ELSE job[r].quantity

Rests(r) == job[r].type \in {"limit", "iceberg"} /\ job[r].tif = "GTC"

\* A row that is closed has nothing in the engine, pegs apart, which come back
\* after a cancel and after a fill.  A good-till-cancelled limit or iceberg row
\* that is open has there what the row has left, less what it traded in its own
\* call at rest; not so if the process restarted or a commit failed (as one
\* does when the account is deleted between the trade and the commit, which
\* takes the other side's fill with it), the feed has still to apply or has
\* undone the closing, or a cancel is on its way to the row.  Of other open rows
\* nothing is claimed: what a market order, an IOC, a stop that went off or a
\* refused peg did not trade stays open with nothing in the engine.
StatusAgrees ==
  \A r \in Rows :
    /\ status[r] \in Closed /\ job[r].type # "pegged" => left[r] = 0
    /\ (/\ status[r] \in Open /\ Rests(r)
        /\ ~undone /\ ~raced /\ r \notin reopened
        /\ feed.got[r] = 0 /\ \A t \in Requests : got[t][r] = 0
        /\ \A t \in Requests : CASE pc[t] = "closing" -> r \notin targets[t]
                                  [] pc[t] = "deleting" -> job[t].account # job[r].account
                                  [] OTHER -> TRUE)
       => left[r] = Left(r) - missed[r]

\* What the buying power check guarantees: an account is overdrawn by no more
\* than its fills cost beyond the prices of their orders, which the check does
\* not foresee.  That is the whole cost of market and stop orders and of pegs
\* (their price is 0), and what a limit order pays above its limit.  Cash read
\* too early, fills applied side by side, and a fill that comes after its priced
\* buy was closed (neither pending nor paid in between) are outside the guarantee.
Solvent ==
  raced \/ \A a \in exists :
    \/ cash[a] + excess[a] >= 0 \/ a \in stale
    \/ \E r \in reopened : job[r].account = a /\ job[r].side = "buy" /\ job[r].price > 0
=============================================================================
