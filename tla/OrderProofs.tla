----------------------------- MODULE OrderProofs -----------------------------
(***************************************************************************)
(* Theorems about OrderService for every number of accounts, requests,     *)
(* orders of the feed and mishaps.                                         *)
(*                                                                         *)
(* One key makes one order: KeyInv follows an order from its call of the   *)
(* engine, under the lock, to its row; until the row is there nobody else  *)
(* has the lock to look for it.                                            *)
(*                                                                         *)
(* The ledger: OrderInv.  Budget and Behind follow the quantity of an      *)
(* order between the engine, the fills on their way and the row; Current   *)
(* says that a session that is about to write has seen what is there,      *)
(* unless fills are applied side by side, and Booked that the accounts are *)
(* then what the executions come to; StatusFits and Wholes tie the rows to *)
(* the engine, and Covered the cash to what open orders may still cost.    *)
(***************************************************************************)
EXTENDS OrderService, FoldProofs

Labels == {"new", "placing", "locking", "committing", "cancel", "cancelling",
           "closing", "delete", "deleting", "done"}
Statuses == {"none"} \cup Open \cup Closed

SameKey(r, u) == job[r].account = job[u].account /\ job[r].key = job[u].key

HasRow(r) == status[r] # "none"

Shaped ==
  /\ pc \in [Requests -> Labels]
  /\ status \in [Requests -> Statuses]
  /\ DOMAIN job = Requests
  /\ submitted \subseteq Requests

\* Who writes the row of an order that went into the engine has the lock.
LockHeld ==
  \A t \in Requests : /\ pc[t] = "committing" <=> lock = t
                      /\ pc[t] = "committing" => t \in submitted

\* A row is of a request that is over and that reached the engine, and of an
\* account that exists.
RowsOwned ==
  \A r \in Requests : HasRow(r) => /\ pc[r] = "done"
                                   /\ r \in submitted
                                   /\ job[r].account \in exists

\* An order that went into the engine gets its row before the lock is free.
RowFollows ==
  \A r \in submitted : /\ pc[r] \in {"committing", "done"}
                       /\ \/ pc[r] = "committing" \/ HasRow(r)
                          \/ r \in killed \/ job[r].account \notin exists

\* No two rows have one key, and no row that of an order on its way to one.
KeysApart ==
  \A r, u \in Requests :
    r # u /\ HasRow(r) /\ (HasRow(u) \/ pc[u] = "committing") => ~SameKey(r, u)

KeyInv == Shaped /\ LockHeld /\ RowsOwned /\ RowFollows /\ KeysApart

-----------------------------------------------------------------------------

\* What fills do to the rows: those that are there stay, and of the others
\* only those get one that are to.
LEMMA RowsAfterFills ==
  ASSUME Shaped, NEW g, NEW w, NEW values, NEW rows \in SUBSET Requests,
         ApplyFills(g, w, values, rows)
  PROVE  /\ status' \in [Requests -> Statuses]
         /\ \A r \in Requests : status'[r] # "none" <=> HasRow(r) \/ r \in rows
<1> DEFINE label(r) == FilledStatus(r, Raised(r, g[r], values))
           written == {r \in Requests : r \in rows \ Rows
                         \/ (r \in rows /\ g[r] > 0 /\ label(r) # values.status[r])}
<1>1. status' = [r \in Requests |-> IF r \in written THEN label(r) ELSE status[r]]
  BY DEF ApplyFills
<1>2. \A r \in Requests : label(r) \in Statuses \ {"none"}
  BY DEF FilledStatus, Statuses, Open, Closed
<1>3. \A r \in Requests : r \in written => r \in rows
  OBVIOUS
<1>4. \A r \in rows : r \in written \/ HasRow(r)
  BY DEF Rows, HasRow
<1> HIDE DEF written, label
<1> QED BY <1>1, <1>2, <1>3, <1>4 DEF Shaped, HasRow

\* Steps that leave rows, jobs, accounts and what was submitted alone.
LEMMA RowsUntouched ==
  ASSUME KeyInv, UNCHANGED <<status, job, exists, submitted, killed>>,
         NEW t \in Requests, NEW label \in Labels \ {"committing"},
         pc' = [pc EXCEPT ![t] = label], pc[t] \notin {"committing", "done"},
         lock' = lock
  PROVE  KeyInv'
BY DEF KeyInv, Shaped, LockHeld, RowsOwned, RowFollows, KeysApart, HasRow, SameKey

\* Steps that change none of what KeyInv speaks of.
LEMMA KeysUntouched ==
  ASSUME KeyInv, UNCHANGED <<pc, status, job, exists, submitted, killed, lock>>
  PROVE  KeyInv'
BY DEF KeyInv, Shaped, LockHeld, RowsOwned, RowFollows, KeysApart, HasRow, SameKey

LEMMA ArriveKeeps ==
  ASSUME KeyInv, NEW t \in Requests, Arrive(t)
  PROVE  KeyInv'
<1>1. PICK j \in Jobs :
        /\ job' = [job EXCEPT ![t] = j]
        /\ pc' = [pc EXCEPT ![t] = CASE j.op = "place" -> "placing"
                                     [] j.op = "delete" -> "delete"
                                     [] OTHER -> "cancel"]
  BY DEF Arrive, Goto
<1>2. PICK label \in {"placing", "delete", "cancel"} : pc' = [pc EXCEPT ![t] = label]
  BY <1>1
<1>3. /\ pc[t] = "new"
      /\ UNCHANGED <<status, exists, submitted, killed, lock>>
  BY DEF Arrive, core, database, ledger, history
<1>4. ~HasRow(t) /\ t \notin submitted
  BY <1>3 DEF KeyInv, RowsOwned, RowFollows
<1>5. \A r \in Requests \ {t} : job'[r] = job[r] /\ pc'[r] = pc[r]
  BY <1>1, <1>2 DEF KeyInv, Shaped
<1>6. pc'[t] = label /\ label \in Labels \ {"committing"}
  BY <1>2 DEF KeyInv, Shaped, Labels
<1>7. Shaped'
  BY <1>1, <1>2, <1>3, <1>6 DEF KeyInv, Shaped
<1>8. LockHeld' /\ RowsOwned' /\ RowFollows'
  BY <1>3, <1>4, <1>5, <1>6
  DEF KeyInv, Shaped, LockHeld, RowsOwned, RowFollows, HasRow
<1>9. KeysApart'
  BY <1>3, <1>4, <1>5, <1>6 DEF KeyInv, KeysApart, HasRow, SameKey
<1> QED BY <1>7, <1>8, <1>9 DEF KeyInv

LEMMA TradeKeeps ==
  ASSUME KeyInv, NEW t \in Requests, Trade(t)
  PROVE  KeyInv'
<1>1. /\ pc[t] = "locking" /\ lock = NoOne /\ ~Repeated(t)
      /\ lock' = t /\ pc' = [pc EXCEPT ![t] = "committing"]
      /\ submitted' = submitted \cup {t}
      /\ UNCHANGED <<status, exists, job, killed>>
  BY DEF Trade, Accepts, Goto, database, ledger
<1>2. \A r \in Requests : pc[r] # "committing"
  BY <1>1, RequestsAssumption DEF KeyInv, LockHeld
<1>3. \A r \in Requests : HasRow(r) => ~SameKey(r, t) /\ r # t
  BY <1>1 DEF KeyInv, RowsOwned, Repeated, Rows, HasRow, SameKey
<1>4. pc'[t] = "committing" /\ \A r \in Requests \ {t} : pc'[r] = pc[r]
  BY <1>1 DEF KeyInv, Shaped
<1>5. Shaped'
  BY <1>1 DEF KeyInv, Shaped, Labels
<1>6. LockHeld' /\ RowsOwned' /\ RowFollows'
  BY <1>1, <1>2, <1>3, <1>4
  DEF KeyInv, Shaped, LockHeld, RowsOwned, RowFollows, HasRow
<1>7. KeysApart'
  BY <1>1, <1>2, <1>3, <1>4 DEF KeyInv, KeysApart, HasRow, SameKey
<1> QED BY <1>5, <1>6, <1>7 DEF KeyInv

LEMMA PlaceCommitKeeps ==
  ASSUME KeyInv, NEW t \in Requests, PlaceCommit(t)
  PROVE  KeyInv'
<1>1. /\ pc[t] = "committing" /\ lock = t
      /\ lock' = NoOne /\ pc' = [pc EXCEPT ![t] = "done"]
      /\ UNCHANGED <<exists, job, submitted, killed>>
  BY DEF PlaceCommit, End, Goto, KeyInv, LockHeld
<1>2. pc'[t] = "done" /\ \A r \in Requests \ {t} : pc'[r] = pc[r] /\ pc'[r] # "committing"
  BY <1>1 DEF KeyInv, Shaped, LockHeld
<1>3. ~HasRow(t) /\ \A r \in Requests \ {t} : HasRow(r) => ~SameKey(r, t)
  BY <1>1 DEF KeyInv, RowsOwned, KeysApart
<1>4. ~Repeated(t)
  BY <1>3 DEF Repeated, Rows, HasRow, SameKey
<1>5. LockHeld'
  BY <1>1, <1>2, RequestsAssumption DEF LockHeld
<1>6. CASE Commits(t)
  <2>1. ApplyFills(got[t], owed[t], seen[t], Written(t)) /\ Written(t) \in SUBSET Requests
    BY <1>6 DEF PlaceCommit, Written, Rows
  <2>2. /\ status' \in [Requests -> Statuses]
        /\ \A r \in Requests : status'[r] # "none" <=> HasRow(r) \/ r = t
    <3>1. \A r \in Written(t) : r = t \/ HasRow(r)
      BY DEF Written, Rows, HasRow
    <3>2. t \in Written(t)
      BY DEF Written
    <3> QED BY <3>1, <3>2, <2>1, RowsAfterFills DEF KeyInv
  <2>3. t \in submitted /\ job[t].account \in exists
    <3>1. job[t].account \in exists
      BY <1>6 DEF Commits, Written
    <3>2. t \in submitted
      BY <1>1 DEF KeyInv, LockHeld
    <3> QED BY <3>1, <3>2
  <2>4. Shaped'
    BY <1>1, <2>2 DEF KeyInv, Shaped, Labels
  <2>5. RowsOwned' /\ RowFollows'
    BY <1>1, <1>2, <2>2, <2>3 DEF KeyInv, Shaped, RowsOwned, RowFollows, HasRow
  <2>6. KeysApart'
    BY <1>1, <1>2, <1>3, <2>2 DEF KeyInv, KeysApart, HasRow, SameKey
  <2> QED BY <1>5, <2>4, <2>5, <2>6 DEF KeyInv
<1>7. CASE ~Commits(t)
  <2>1. status' = status
    BY <1>7 DEF PlaceCommit
  <2>2. job[t].account \notin exists
    <3>1. \A r \in Written(t) : r = t \/ job[r].account \in exists
      BY DEF Written, Rows, KeyInv, RowsOwned, HasRow
    <3> QED BY <3>1, <1>4, <1>7 DEF Commits
  <2>3. Shaped'
    BY <1>1, <2>1 DEF KeyInv, Shaped, Labels
  <2>4. RowsOwned' /\ RowFollows'
    BY <1>1, <1>2, <2>1, <2>2 DEF KeyInv, Shaped, RowsOwned, RowFollows, HasRow
  <2>5. KeysApart'
    BY <1>1, <1>2, <2>1 DEF KeyInv, KeysApart, HasRow, SameKey
  <2> QED BY <1>5, <2>3, <2>4, <2>5 DEF KeyInv
<1> QED BY <1>6, <1>7

LEMMA CancelCommitKeeps ==
  ASSUME KeyInv, NEW t \in Requests, CancelCommit(t)
  PROVE  KeyInv'
<1>1. PICK r \in targets[t] :
        status' = IF r \in Rows
                  THEN [status EXCEPT ![r] = IF job[t].op = "replace" THEN "replaced"
                                             ELSE "cancelled"]
                  ELSE status
  BY DEF CancelCommit
<1>2. PICK label \in {"placing", "done"} : pc' = [pc EXCEPT ![t] = label]
  BY DEF CancelCommit, Goto
<1>3. /\ pc[t] = "closing"
      /\ UNCHANGED <<lock, exists, job, submitted, killed>>
  BY DEF CancelCommit, core, ledger, history
<1>4. /\ status' \in [Requests -> Statuses]
      /\ \A q \in Requests : status'[q] # "none" <=> HasRow(q)
  BY <1>1 DEF Rows, HasRow, KeyInv, Shaped, Statuses, Closed
<1>5. /\ pc'[t] = label /\ label \in Labels \ {"committing"}
      /\ \A q \in Requests \ {t} : pc'[q] = pc[q]
  BY <1>2 DEF KeyInv, Shaped, Labels
<1>6. ~HasRow(t) /\ t \notin submitted
  BY <1>3 DEF KeyInv, RowsOwned, RowFollows
<1>7. Shaped'
  BY <1>2, <1>3, <1>4, <1>5 DEF KeyInv, Shaped
<1>8. LockHeld' /\ RowsOwned' /\ RowFollows'
  BY <1>3, <1>4, <1>5, <1>6 DEF KeyInv, Shaped, LockHeld, RowsOwned, RowFollows, HasRow
<1>9. KeysApart'
  BY <1>3, <1>4, <1>5, <1>6 DEF KeyInv, KeysApart, HasRow, SameKey
<1> QED BY <1>7, <1>8, <1>9 DEF KeyInv

LEMMA DeleteCommitKeeps ==
  ASSUME KeyInv, NEW t \in Requests, DeleteCommit(t)
  PROVE  KeyInv'
<1> DEFINE a == job[t].account
           gone == OrdersOf(a)
<1>1. /\ pc[t] = "deleting" /\ pc' = [pc EXCEPT ![t] = "done"]
      /\ exists' = exists \ {a}
      /\ status' = [r \in Requests |-> IF r \in gone THEN "none" ELSE status[r]]
      /\ UNCHANGED <<lock, job, submitted, killed>>
  BY DEF DeleteCommit, Goto, core, history
<1>2. pc'[t] = "done" /\ \A q \in Requests \ {t} : pc'[q] = pc[q]
  BY <1>1 DEF KeyInv, Shaped
<1>3. ~HasRow(t) /\ t \notin submitted
  BY <1>1 DEF KeyInv, RowsOwned, RowFollows
<1>4. \A r \in Requests : status'[r] # "none" <=> HasRow(r) /\ job[r].account # a
  BY <1>1 DEF OrdersOf, HasRow, KeyInv, RowsOwned
<1>5. Shaped'
  BY <1>1 DEF KeyInv, Shaped, Labels, Statuses
<1> HIDE DEF a, gone
<1>6. LockHeld' /\ RowsOwned' /\ RowFollows'
  BY <1>1, <1>2, <1>3, <1>4 DEF KeyInv, Shaped, LockHeld, RowsOwned, RowFollows, HasRow
<1>7. KeysApart'
  BY <1>1, <1>2, <1>3, <1>4 DEF KeyInv, KeysApart, HasRow, SameKey
<1> QED BY <1>5, <1>6, <1>7 DEF KeyInv

LEMMA FeedCommitKeeps ==
  ASSUME KeyInv, FeedCommit
  PROVE  KeyInv'
<1>1. /\ ApplyFills(feed.got, feed.owed, feed.seen, Rows) /\ Rows \in SUBSET Requests
      /\ UNCHANGED <<pc, lock, exists, job, submitted, killed>>
  BY DEF FeedCommit, core, sessions, Rows
<1>2. /\ status' \in [Requests -> Statuses]
      /\ \A r \in Requests : status'[r] # "none" <=> HasRow(r)
  <2>1. \A r \in Rows : HasRow(r)
    BY DEF Rows, HasRow
  <2> QED BY <1>1, <2>1, RowsAfterFills DEF KeyInv
<1> QED BY <1>1, <1>2
        DEF KeyInv, Shaped, LockHeld, RowsOwned, RowFollows, KeysApart, HasRow, SameKey

LEMMA PlaceFailsKeeps ==
  ASSUME KeyInv, NEW t \in Requests, PlaceFails(t)
  PROVE  KeyInv'
<1>1. /\ pc[t] = "committing" /\ lock = t
      /\ lock' = NoOne /\ pc' = [pc EXCEPT ![t] = "done"]
      /\ killed' = killed \cup {t}
      /\ UNCHANGED <<status, exists, job, submitted>>
  BY DEF PlaceFails, End, Goto, KeyInv, LockHeld, database, ledger
<1>2. pc'[t] = "done" /\ \A r \in Requests \ {t} : pc'[r] = pc[r] /\ pc'[r] # "committing"
  BY <1>1 DEF KeyInv, Shaped, LockHeld
<1>3. Shaped'
  BY <1>1 DEF KeyInv, Shaped, Labels
<1>4. LockHeld'
  BY <1>1, <1>2, RequestsAssumption DEF LockHeld
<1>5. RowsOwned' /\ RowFollows' /\ KeysApart'
  BY <1>1, <1>2 DEF KeyInv, Shaped, RowsOwned, RowFollows, KeysApart, HasRow, SameKey
<1> QED BY <1>3, <1>4, <1>5 DEF KeyInv

LEMMA RestartKeeps ==
  ASSUME KeyInv, Restart
  PROVE  KeyInv'
<1>1. /\ lock' = NoOne
      /\ killed' = killed \cup {t \in Requests : pc[t] = "committing"}
      /\ pc' = [t \in Requests |-> IF pc[t] = "new" THEN "new" ELSE "done"]
      /\ UNCHANGED <<status, exists, job, submitted>>
  BY DEF Restart, database, ledger
<1>2. Shaped'
  BY <1>1 DEF KeyInv, Shaped, Labels
<1>3. LockHeld'
  BY <1>1, RequestsAssumption DEF LockHeld
<1>4. RowsOwned' /\ RowFollows' /\ KeysApart'
  BY <1>1 DEF KeyInv, Shaped, RowsOwned, RowFollows, KeysApart, HasRow, SameKey
<1> QED BY <1>2, <1>3, <1>4 DEF KeyInv

\* The steps of a request that touch no row and do not call the engine to
\* trade.
LEMMA QuietStepKeeps ==
  ASSUME KeyInv, NEW t \in Requests,
         \/ PlaceRead(t) \/ Refuse(t) \/ CancelRead(t) \/ EngineCancel(t)
         \/ DeleteRead(t) \/ DeleteCancel(t) \/ CancelFails(t)
  PROVE  KeyInv'
<1>1. CASE PlaceRead(t)
  <2>1. PICK label \in {"done", "locking"} : pc' = [pc EXCEPT ![t] = label]
    BY <1>1 DEF PlaceRead, Goto
  <2>2. pc[t] = "placing" /\ UNCHANGED <<status, job, exists, submitted, killed, lock>>
    BY <1>1 DEF PlaceRead, core, database, ledger, history
  <2> QED BY <2>1, <2>2, RowsUntouched DEF Labels
<1>2. CASE Refuse(t)
  <2>1. /\ pc[t] = "locking" /\ pc' = [pc EXCEPT ![t] = "done"]
        /\ UNCHANGED <<status, job, exists, submitted, killed, lock>>
    BY <1>2 DEF Refuse, Goto, core, database, ledger, history
  <2> QED BY <2>1, RowsUntouched DEF Labels
<1>3. CASE CancelRead(t)
  <2>1. PICK label \in {"done", "cancelling"} : pc' = [pc EXCEPT ![t] = label]
    BY <1>3 DEF CancelRead, Goto
  <2>2. pc[t] = "cancel" /\ UNCHANGED <<status, job, exists, submitted, killed, lock>>
    BY <1>3 DEF CancelRead, core, database, ledger, history
  <2> QED BY <2>1, <2>2, RowsUntouched DEF Labels
<1>4. CASE EngineCancel(t)
  <2>1. PICK label \in {"done", "closing"} : pc' = [pc EXCEPT ![t] = label]
    BY <1>4 DEF EngineCancel, Goto
  <2>2. pc[t] = "cancelling" /\ UNCHANGED <<status, job, exists, submitted, killed, lock>>
    BY <1>4 DEF EngineCancel, CancelInEngine, database, ledger, history
  <2> QED BY <2>1, <2>2, RowsUntouched DEF Labels
<1>5. CASE DeleteRead(t)
  <2>1. PICK label \in {"done", "deleting"} : pc' = [pc EXCEPT ![t] = label]
    BY <1>5 DEF DeleteRead, Goto
  <2>2. pc[t] = "delete" /\ UNCHANGED <<status, job, exists, submitted, killed, lock>>
    BY <1>5 DEF DeleteRead, core, database, ledger, history
  <2> QED BY <2>1, <2>2, RowsUntouched DEF Labels
<1>6. CASE DeleteCancel(t)
  <2>1. UNCHANGED <<pc, status, job, exists, submitted, killed, lock>>
    BY <1>6 DEF DeleteCancel, CancelInEngine, database, ledger, history
  <2> QED BY <2>1, KeysUntouched
<1>7. CASE CancelFails(t)
  <2>1. /\ pc[t] = "closing" /\ pc' = [pc EXCEPT ![t] = "done"]
        /\ UNCHANGED <<status, job, exists, submitted, killed, lock>>
    BY <1>7 DEF CancelFails, Goto, core, database, ledger, history
  <2> QED BY <2>1, RowsUntouched DEF Labels
<1> QED BY <1>1, <1>2, <1>3, <1>4, <1>5, <1>6, <1>7

LEMMA InitKeyInv == Init => KeyInv
BY RequestsAssumption
DEF Init, KeyInv, Shaped, Labels, Statuses, LockHeld, RowsOwned, RowFollows, KeysApart,
    HasRow

LEMMA StepKeepsKeyInv == KeyInv /\ [Next]_vars => KeyInv'
<1> SUFFICES ASSUME KeyInv, [Next]_vars PROVE KeyInv'
  OBVIOUS
<1>1. ASSUME NEW t \in Requests, Arrive(t) PROVE KeyInv'
  BY <1>1, ArriveKeeps
<1>2. ASSUME NEW t \in Requests, Trade(t) PROVE KeyInv'
  BY <1>2, TradeKeeps
<1>3. ASSUME NEW t \in Requests, PlaceCommit(t) PROVE KeyInv'
  BY <1>3, PlaceCommitKeeps
<1>4. ASSUME NEW t \in Requests, CancelCommit(t) PROVE KeyInv'
  BY <1>4, CancelCommitKeeps
<1>5. ASSUME NEW t \in Requests, DeleteCommit(t) PROVE KeyInv'
  BY <1>5, DeleteCommitKeeps
<1>6. ASSUME NEW t \in Requests, PlaceFails(t) PROVE KeyInv'
  BY <1>6, PlaceFailsKeeps
<1>7. ASSUME NEW t \in Requests,
             \/ PlaceRead(t) \/ Refuse(t) \/ CancelRead(t) \/ EngineCancel(t)
             \/ DeleteRead(t) \/ DeleteCancel(t) \/ CancelFails(t)
      PROVE  KeyInv'
  BY <1>7, QuietStepKeeps
<1>8. CASE FeedSubmit \/ FeedRead \/ FeedFails \/ UNCHANGED vars
  <2>1. UNCHANGED <<pc, status, job, exists, submitted, killed, lock>>
    BY <1>8 DEF FeedSubmit, FeedRead, FeedFails, vars, core, database, ledger, sessions, history
  <2> QED BY <2>1, KeysUntouched
<1>9. CASE FeedCommit
  BY <1>9, FeedCommitKeeps
<1>10. CASE Restart
  BY <1>10, RestartKeeps
<1> QED BY <1>1, <1>2, <1>3, <1>4, <1>5, <1>6, <1>7, <1>8, <1>9, <1>10 DEF Next

-----------------------------------------------------------------------------

\* The invariant of keys, rows and the lock (place_order, main.py:300).
THEOREM KeyInvariant == Spec => []KeyInv
BY InitKeyInv, StepKeepsKeyInv, PTL DEF Spec

\* "simultaneous retries cannot submit the same idempotency key twice"
\* (main.py:312): of two requests of an account with one key only one ever
\* reaches the engine, unless a mishap took the row of the first.
THEOREM KeysSubmittedOnce == Spec => []KeyOnce
<1>1. KeyInv => KeyOnce
  BY DEF KeyInv, Shaped, LockHeld, RowFollows, KeysApart, HasRow, SameKey, KeyOnce
<1> QED BY <1>1, KeyInvariant, PTL

-----------------------------------------------------------------------------
(* The invariants of the ledger.                                           *)

Amounts == [Requests -> Nat]
Sums == [Requests -> Int]
Snapshots == [cash : [Accounts -> Int], position : [Accounts -> Int],
              filled : Amounts, status : [Requests -> Statuses]]
Feeds == [at : {"idle", "filled", "applying"}, got : Amounts, owed : Sums,
          seen : Snapshots \cup {NotRead}]

\* What is read is read whole; an order takes no more than it trades.
Typed ==
  /\ left \in Amounts
  /\ exists \subseteq Accounts
  /\ cash \in [Accounts -> Int] /\ position \in [Accounts -> Int]
  /\ filled \in Amounts /\ executed \in Amounts /\ spent \in Sums
  /\ missed \in Amounts /\ excess \in [Accounts -> Nat]
  /\ job \in [Requests -> Job \cup {NoJob}]
  /\ \A t \in Requests : pc[t] # "new" => job[t] \in Job
  /\ DOMAIN seen = Requests
  /\ \A t \in Requests : pc[t] \in {"locking", "committing"} => seen[t] \in Snapshots
  /\ \A t \in Requests : pc[t] = "committing" => seen[t].filled[t] <= got[t][t]
  /\ targets \in [Requests -> SUBSET Requests]
  /\ got \in [Requests -> Amounts] /\ owed \in [Requests -> Sums]
  /\ feed \in Feeds /\ (feed.at = "applying" => feed.seen \in Snapshots)
  /\ raced \in BOOLEAN /\ undone \in BOOLEAN
  /\ feeds \in 0 .. MaxFeeds /\ mishaps \in 0 .. MaxMishaps

Peg(r) == job[r].type = "pegged"

\* Nothing is left or has traded of order r.
Untouched(r) ==
  left[r] = 0 /\ missed[r] = 0 /\ feed.got[r] = 0 /\ \A t \in Requests : got[t][r] = 0

\* Only what reached the engine is there or has traded, and only in its call;
\* a peg trades with others only.
Engaged ==
  /\ \A r \in Requests \ submitted : Untouched(r)
  /\ pegged \subseteq {r \in submitted : Peg(r)}
  /\ \A t \in Requests : pc[t] # "committing" => got[t] = Nothing
  /\ feed.at = "idle" => feed.got = Nothing
  /\ \A r \in Requests : ~HasRow(r) => filled[r] = 0 /\ executed[r] = 0 /\ spent[r] = 0
  /\ reopened \subseteq {r \in Requests : pc[r] = "done"}
  /\ \A r \in Requests : pc[r] # "new" /\ Peg(r) => missed[r] = 0 /\ got[r][r] = 0

\* What is to be cancelled has had a row: one order, or orders of the account.
Targeted ==
  \A t \in Requests : \A r \in targets[t] :
    /\ pc[r] = "done" /\ r \in submitted
    /\ pc[t] \in {"cancelling", "closing"} => targets[t] = {r}
    /\ pc[t] = "deleting" => job[r].account = job[t].account

Grounded == KeyInv /\ Typed /\ Engaged /\ Targeted

\* Order r has a row or is about to.
Active(r) == HasRow(r) \/ pc[r] = "committing"

\* What is on its way to the rows.
Due(r) == feed.got[r] + IF lock = NoOne THEN 0 ELSE got[lock][r]

\* What there is of an order in the engine, on its way and in its row.
Total(r) == executed[r] + Due(r) + left[r]

\* Nobody else has the lock, and the feed has nothing of an order in its call.
Locked == /\ lock \in Requests \cup {NoOne}
          /\ \A r \in Requests : pc[r] = "committing" => feed.got[r] = 0

\* No order trades more than its quantity; pegs do.
Budget ==
  \A r \in Requests : Active(r) /\ ~Peg(r) => Total(r) <= job[r].quantity

\* What filled_quantity of r has been read, or is there, is of executions.
Fits(n, r) == n <= executed[r] /\ n <= job[r].quantity
BehindOf(r) ==
  /\ Fits(filled[r], r)
  /\ feed.at = "applying" => Fits(feed.seen.filled[r], r)
  /\ \A t \in Requests \ {r} : pc[t] = "committing" => Fits(seen[t].filled[r], r)
Known(r) == Active(r) \/ r \notin submitted
Behind == \A r \in Requests : Known(r) => BehindOf(r)

\* Session values has seen what is there.
Seen(values) ==
  /\ \A a \in exists : /\ values.position[a] = position[a]
                       /\ a \in stale \/ values.cash[a] = cash[a]
  /\ \A r \in Requests : HasRow(r) => values.filled[r] = filled[r]

\* Unless fills are applied side by side, a session that is about to commit has
\* seen what is there.
Current ==
  ~raced => /\ \A t \in Requests : pc[t] = "committing" => Seen(seen[t])
            /\ feed.at = "applying" => Seen(feed.seen)

Called == {"cancelled", "replaced"}

\* A request is about to call r off.
Closing(r) == \E t \in Requests : pc[t] = "closing" /\ r \in targets[t]

\* Pegs apart, a filled order has executed its quantity, and one that is called
\* off is out of the engine.
StatusOf(r) ==
  ~Peg(r) => /\ status[r] = "filled" => executed[r] >= job[r].quantity
             /\ status[r] \in Called \/ Closing(r) => left[r] = 0
StatusFits == \A r \in Requests : StatusOf(r)

\* Nobody is about to take r out of the rows.
Standing(r) ==
  \A t \in Requests : /\ pc[t] = "closing" => r \notin targets[t]
                      /\ pc[t] = "deleting" => job[t].account # job[r].account

\* Rows that nobody is about to close.
Kept(r) == HasRow(r) /\ status[r] \notin Called /\ r \notin reopened /\ Standing(r)

\* Nothing of a standing order that rests is lost between the engine and the
\* rows.
Whole(r) == Total(r) = job[r].quantity
Wholes ==
  ~undone => \A r \in Requests : (pc[r] = "committing" \/ Kept(r)) /\ Rests(r) => Whole(r)

\* What an account owns is what its executions come to.
Accounted(r) ==
  filled[r] + missed[r] = IF executed[r] < job[r].quantity THEN executed[r] ELSE job[r].quantity
BooksOf(a) ==
  /\ position[a] = Shares(a, executed, Requests)
  /\ a \in stale \/ cash[a] = InitialCash - Shares(a, spent, Requests)
  /\ \A r \in OrdersOf(a) : Accounted(r)
Booked == ~raced => \A a \in exists : BooksOf(a)

\* What an open order may still cost account a at its price.
Priceable(r) == job[r].side = "buy" /\ job[r].price > 0
Costs(r) == Priceable(r) /\ (status[r] \in Open \/ pc[r] = "committing")
Cost(a) == [r \in Requests |-> IF r \in OrdersOf(a) /\ Costs(r)
                              THEN (job[r].quantity - executed[r]) * job[r].price ELSE 0]

Exempt(a) == a \in stale \/ \E r \in reopened : job[r].account = a /\ Priceable(r)

Covered ==
  ~raced => \A a \in exists :
    Exempt(a) \/ cash[a] + excess[a] >= SumFunctionOnSet(Cost(a), Requests)

-----------------------------------------------------------------------------
(* What the steps do, as far as the invariants look.                         *)

\* The steps of a request that neither call the engine to trade nor end a trade.
Aside(t) ==
  \/ Arrive(t) \/ PlaceRead(t) \/ Refuse(t) \/ CancelRead(t) \/ EngineCancel(t)
  \/ CancelCommit(t) \/ DeleteRead(t) \/ DeleteCancel(t) \/ CancelFails(t)

\* A trade that is written, and one that is not.
Wrote(t) == PlaceCommit(t) /\ Commits(t)
Dropped(t) == PlaceFails(t) \/ (PlaceCommit(t) /\ ~Commits(t))

LEMMA StepIs ==
  ASSUME [Next]_vars
  PROVE  \/ \E t \in Requests : \/ Aside(t) \/ Trade(t) \/ Wrote(t)
                                \/ Dropped(t) \/ DeleteCommit(t)
         \/ FeedSubmit \/ FeedRead \/ FeedCommit \/ FeedFails \/ Restart \/ UNCHANGED vars
BY DEF Next, Aside, Wrote, Dropped

\* A step aside moves request t to label,
Moves(t, label) ==
  /\ \A r \in Requests \ {t} : /\ pc'[r] = pc[r] /\ job'[r] = job[r] /\ seen'[r] = seen[r]
                               /\ targets'[r] = targets[r]
  /\ pc' = [pc EXCEPT ![t] = label] /\ label \in Labels \ {"new", "committing"}
  /\ pc[t] \notin {"committing", "done"}
  /\ pc[t] # "new" => job'[t] = job[t]
  /\ pc[t] = "new" => label # "closing" /\ targets'[t] = targets[t]
  /\ pc[t] = "deleting" => label = "deleting"

\* may take orders off that t is to call off,
Takes(t, label) ==
  /\ \A r \in Requests :
       \/ left'[r] = left[r]
       \/ /\ left'[r] = 0 /\ r \in targets[t]
          /\ \/ pc[t] = "cancelling" /\ (label = "closing" \/ left[r] = 0)
             \/ pc[t] = "deleting" /\ label = "deleting"
  /\ label = "closing" => /\ pc[t] = "cancelling" /\ targets'[t] = targets[t]
                          /\ \A r \in targets[t] : left'[r] = 0

\* and may close such a row.
Closes(t) ==
  /\ \A r \in Requests :
       \/ status'[r] = status[r]
       \/ status[r] # "none" /\ status'[r] \in Called /\ pc[t] = "closing" /\ r \in targets[t]
  /\ undone => undone'
  /\ pc[t] = "closing" => \/ undone'
                          \/ \A r \in targets[t] : status[r] # "none" => status'[r] \in Called

AsideTypes ==
  /\ left' \in Amounts /\ job' \in [Requests -> Job \cup {NoJob}]
  /\ \A r \in Requests : pc'[r] # "new" => job'[r] \in Job
  /\ DOMAIN seen' = Requests
  /\ \A r \in Requests : pc'[r] \in {"locking", "committing"} => seen'[r] \in Snapshots
  /\ targets' \in [Requests -> SUBSET Requests]
  /\ undone' \in BOOLEAN /\ mishaps' \in 0 .. MaxMishaps

AsideKeeps ==
  UNCHANGED <<executed, spent, filled, cash, position, missed, excess, reopened, got, owed, feed,
              lock, submitted, killed, stale, raced, exists, pegged, feeds>>

LEMMA ValuesTyped ==
  ASSUME KeyInv, Typed
  PROVE  Values \in Snapshots
BY DEF KeyInv, Shaped, Typed, Values, Snapshots

LEMMA NothingIs == Nothing \in Amounts /\ Nothing \in Sums /\ \A r \in Requests : Nothing[r] = 0
BY DEF Nothing, Amounts, Sums

LEMMA AsideIs ==
  ASSUME KeyInv, Typed, Targeted, NEW t \in Requests, Aside(t)
  PROVE  /\ AsideKeeps /\ AsideTypes /\ Closes(t)
         /\ \E label \in Labels : Moves(t, label) /\ Takes(t, label)
<1> USE DEF AsideKeeps, AsideTypes
<1>0. /\ pc \in [Requests -> Labels] /\ DOMAIN seen = Requests /\ DOMAIN job = Requests
      /\ targets \in [Requests -> SUBSET Requests] /\ left \in Amounts /\ status \in [Requests -> Statuses]
      /\ Values \in Snapshots
  BY ValuesTyped DEF KeyInv, Shaped, Typed
<1> DEFINE Quiet == UNCHANGED <<left, status, undone, mishaps>>
<1>q. ASSUME NEW label \in Labels, Quiet, label # "closing", pc[t] # "closing"
      PROVE  Takes(t, label) /\ Closes(t)
  BY <1>q DEF Takes, Closes
<1>1. CASE Arrive(t)
  <2>1. PICK j \in Jobs : /\ job' = [job EXCEPT ![t] = j]
                          /\ pc' = [pc EXCEPT ![t] = CASE j.op = "place" -> "placing"
                                                        [] j.op = "delete" -> "delete"
                                                        [] OTHER -> "cancel"]
    BY <1>1 DEF Arrive, Goto
  <2>2. PICK label \in {"placing", "delete", "cancel"} : pc' = [pc EXCEPT ![t] = label]
    BY <2>1
  <2>3. j \in Job
    BY JobsAssumption
  <2>4. AsideKeeps /\ Quiet /\ pc[t] = "new" /\ UNCHANGED <<seen, targets>>
    BY <1>1 DEF Arrive, core, database, ledger, history, trail
  <2>5. Moves(t, label)
    BY <1>0, <2>1, <2>2, <2>4 DEF Moves, Labels
  <2>6. Takes(t, label) /\ Closes(t)
    BY <1>q, <2>2, <2>4 DEF Labels
  <2>7. AsideTypes
    BY <1>0, <2>1, <2>2, <2>3, <2>4 DEF Typed
  <2> QED BY <2>2, <2>4, <2>5, <2>6, <2>7 DEF Labels
<1>2. CASE PlaceRead(t)
  <2>1. PICK label \in {"done", "locking"} :
          /\ pc' = [pc EXCEPT ![t] = label]
          /\ seen' = seen \/ seen' = [seen EXCEPT ![t] = Values]
          /\ label = "locking" => seen' = [seen EXCEPT ![t] = Values]
    BY <1>2 DEF PlaceRead, Goto
  <2>2. AsideKeeps /\ Quiet /\ pc[t] = "placing" /\ UNCHANGED <<job, targets>>
    BY <1>2 DEF PlaceRead, core, database, ledger, history, trail
  <2>3. Moves(t, label)
    BY <1>0, <2>1, <2>2 DEF Moves, Labels
  <2>4. Takes(t, label) /\ Closes(t)
    BY <1>q, <2>1, <2>2 DEF Labels
  <2>5. AsideTypes
    BY <1>0, <2>1, <2>2 DEF Typed
  <2> QED BY <2>1, <2>2, <2>3, <2>4, <2>5 DEF Labels
<1>3. CASE Refuse(t)
  <2>1. /\ AsideKeeps /\ Quiet /\ pc[t] = "locking" /\ UNCHANGED <<job, targets>>
        /\ pc' = [pc EXCEPT ![t] = "done"] /\ seen' = [seen EXCEPT ![t] = NotRead]
    BY <1>3 DEF Refuse, Goto, core, database, ledger, history, trail
  <2>2. Moves(t, "done")
    BY <1>0, <2>1 DEF Moves, Labels
  <2>3. Takes(t, "done") /\ Closes(t)
    BY <1>q, <2>1 DEF Labels
  <2>4. AsideTypes
    BY <1>0, <2>1 DEF Typed
  <2> QED BY <2>1, <2>2, <2>3, <2>4 DEF Labels
<1>4. CASE CancelRead(t)
  <2>1. PICK label \in {"done", "cancelling"}, r \in Requests :
          /\ pc' = [pc EXCEPT ![t] = label]
          /\ targets' = targets \/ targets' = [targets EXCEPT ![t] = {r}]
    BY <1>4 DEF CancelRead, Goto
  <2>2. AsideKeeps /\ Quiet /\ pc[t] = "cancel" /\ UNCHANGED <<job, seen>>
    BY <1>4 DEF CancelRead, core, database, ledger, history, trail
  <2>3. Moves(t, label)
    BY <1>0, <2>1, <2>2 DEF Moves, Labels
  <2>4. Takes(t, label) /\ Closes(t)
    BY <1>q, <2>1, <2>2 DEF Labels
  <2>5. AsideTypes
    BY <1>0, <2>1, <2>2 DEF Typed
  <2> QED BY <2>1, <2>2, <2>3, <2>4, <2>5 DEF Labels
<1>5. CASE EngineCancel(t)
  <2>1. PICK r \in targets[t] :
          /\ left' = IF Found(r) THEN [left EXCEPT ![r] = 0] ELSE left
          /\ pc' = [pc EXCEPT ![t] = IF Found(r) THEN "closing" ELSE "done"]
    BY <1>5 DEF EngineCancel, CancelInEngine, Goto
  <2>2. /\ AsideKeeps /\ pc[t] = "cancelling"
        /\ UNCHANGED <<job, seen, targets, status, undone, mishaps>>
    BY <1>5 DEF EngineCancel, CancelInEngine, database, ledger, history, trail
  <2>3. targets[t] = {r} /\ r \in Requests
    BY <1>0, <2>2 DEF Targeted
  <2>4. PICK label \in {"done", "closing"} :
          /\ pc' = [pc EXCEPT ![t] = label]
          /\ label = "closing" => left' = [left EXCEPT ![r] = 0]
          /\ label = "done" => left' = left
    BY <2>1
  <2>5. Moves(t, label)
    BY <1>0, <2>2, <2>4 DEF Moves, Labels
  <2>6. Takes(t, label)
    BY <1>0, <2>2, <2>3, <2>4 DEF Takes, Amounts
  <2>7. Closes(t)
    BY <2>2 DEF Closes
  <2>8. left' \in Amounts
    BY <1>0, <2>3, <2>4 DEF Amounts
  <2>9. AsideTypes
    BY <1>0, <2>2, <2>3, <2>4, <2>8 DEF Typed
  <2> QED BY <2>2, <2>4, <2>5, <2>6, <2>7, <2>9 DEF Labels
<1>6. CASE CancelCommit(t)
  <2>1. PICK r \in targets[t] :
          status' = IF r \in Rows
                    THEN [status EXCEPT ![r] = IF job[t].op = "replace" THEN "replaced"
                                               ELSE "cancelled"]
                    ELSE status
    BY <1>6 DEF CancelCommit
  <2>2. PICK label \in {"placing", "done"} : pc' = [pc EXCEPT ![t] = label]
    BY <1>6 DEF CancelCommit, Goto
  <2>3. /\ AsideKeeps /\ pc[t] = "closing"
        /\ UNCHANGED <<left, job, seen, targets, undone, mishaps>>
    BY <1>6 DEF CancelCommit, core, ledger, history, trail
  <2>4. targets[t] = {r} /\ r \in Requests
    BY <1>0, <2>3 DEF Targeted
  <2>5. Moves(t, label)
    BY <1>0, <2>2, <2>3 DEF Moves, Labels
  <2>6. Takes(t, label)
    BY <2>2, <2>3 DEF Takes
  <2>7. \A q \in Requests : \/ status'[q] = status[q]
                            \/ q = r /\ status[q] # "none" /\ status'[q] \in Called
    BY <1>0, <2>1, <2>4 DEF Rows, Called
  <2>8. status[r] # "none" => status'[r] \in Called
    BY <1>0, <2>1, <2>4 DEF Rows, Called
  <2>9. Closes(t)
    BY <2>3, <2>4, <2>7, <2>8 DEF Closes
  <2>10. AsideTypes
    BY <1>0, <2>2, <2>3 DEF Typed
  <2> QED BY <2>2, <2>3, <2>5, <2>6, <2>9, <2>10 DEF Labels
<1>7. CASE DeleteRead(t)
  <2>1. PICK label \in {"done", "deleting"} :
          /\ pc' = [pc EXCEPT ![t] = label]
          /\ targets' = targets \/ targets' = [targets EXCEPT ![t] = OpenOrders(job[t].account)]
    BY <1>7 DEF DeleteRead, Goto
  <2>2. AsideKeeps /\ Quiet /\ pc[t] = "delete" /\ UNCHANGED <<job, seen>>
    BY <1>7 DEF DeleteRead, core, database, ledger, history, trail
  <2>3. Moves(t, label)
    BY <1>0, <2>1, <2>2 DEF Moves, Labels
  <2>4. Takes(t, label) /\ Closes(t)
    BY <1>q, <2>1, <2>2 DEF Labels
  <2>5. AsideTypes
    BY <1>0, <2>1, <2>2 DEF Typed, OpenOrders, OrdersOf
  <2> QED BY <2>1, <2>2, <2>3, <2>4, <2>5 DEF Labels
<1>8. CASE DeleteCancel(t)
  <2>1. PICK r \in targets[t] :
          /\ left' = left \/ left' = [left EXCEPT ![r] = 0]
          /\ targets' = [targets EXCEPT ![t] = @ \ {r}]
    BY <1>8 DEF DeleteCancel, CancelInEngine
  <2>2. /\ AsideKeeps /\ pc[t] = "deleting"
        /\ UNCHANGED <<pc, job, seen, status, undone, mishaps>>
    BY <1>8 DEF DeleteCancel, CancelInEngine, database, ledger, history, trail
  <2>3. Moves(t, "deleting")
    BY <1>0, <2>1, <2>2 DEF Moves, Labels
  <2>4. Takes(t, "deleting")
    BY <1>0, <2>1, <2>2 DEF Takes, Amounts
  <2>5. Closes(t)
    BY <2>2 DEF Closes
  <2>6. left' \in Amounts
    BY <1>0, <2>1 DEF Amounts
  <2>7. AsideTypes
    BY <1>0, <2>1, <2>2, <2>6 DEF Typed
  <2> QED BY <2>2, <2>3, <2>4, <2>5, <2>7 DEF Labels
<1>9. CASE CancelFails(t)
  <2>1. /\ AsideKeeps /\ pc[t] = "closing" /\ pc' = [pc EXCEPT ![t] = "done"] /\ undone' = TRUE
        /\ UNCHANGED <<left, job, seen, targets, status>>
    BY <1>9 DEF CancelFails, Goto, core, database, ledger, trail
  <2>2. mishaps' \in 0 .. MaxMishaps
    BY <1>9, LimitsAssumption DEF CancelFails, Mishap, Typed
  <2>3. Moves(t, "done")
    BY <1>0, <2>1 DEF Moves, Labels
  <2>4. Takes(t, "done")
    BY <2>1 DEF Takes
  <2>5. Closes(t)
    BY <2>1 DEF Closes
  <2>6. AsideTypes
    BY <1>0, <2>1, <2>2 DEF Typed
  <2> QED BY <2>1, <2>3, <2>4, <2>5, <2>6 DEF Labels
<1> QED BY <1>1, <1>2, <1>3, <1>4, <1>5, <1>6, <1>7, <1>8, <1>9 DEF Aside

\* What a call leaves of the orders other than t, which trade g.
Calls(t, g, after) ==
  \A r \in Requests \ {t} :
    /\ g[r] <= left[r]
    /\ ~Peg(r) => after[r] + g[r] <= left[r]
    /\ Rests(r) => after[r] + g[r] = left[r]
    /\ left[r] = 0 /\ r \notin pegged => after[r] = 0

\* Of the n that order t trades it takes the first part; rest of it stays.
Taken(t, took, n, rest) ==
  /\ took <= n
  /\ Peg(t) => n = 0
  /\ ~Peg(t) => n + rest <= job[t].quantity
  /\ Rests(t) => n + rest = job[t].quantity

LEMMA RemainsIs ==
  ASSUME Typed, Engaged, NEW t, NEW side, NEW took \in Nat,
         NEW g \in [Requests -> 0 .. MaxQuantity],
         NEW fired \in SUBSET Dormant, NEW back \in SUBSET pegged,
         Call(t, side, took, g, fired, back)
  PROVE  /\ g \in Amounts
         /\ Calls(t, g, Remains(took, g, fired, back))
         /\ \A r \in Requests \ {t} : Remains(took, g, fired, back)[r] \in Nat
<1> DEFINE after == Remains(took, g, fired, back)
<1>1. g \in Amounts
  BY LimitsAssumption DEF Amounts
<1>2. ASSUME NEW r \in Requests \ {t}
      PROVE  /\ g[r] <= left[r] /\ after[r] \in Nat
             /\ ~Peg(r) => after[r] + g[r] <= left[r]
             /\ Rests(r) => after[r] + g[r] = left[r]
             /\ left[r] = 0 /\ r \notin pegged => after[r] = 0
  <2>1. g[r] \in Nat /\ left[r] \in Nat /\ g[r] <= left[r]
    BY <1>1 DEF Amounts, Typed, Call
  <2>2. after[r] = IF took > 0 /\ r \in pegged THEN (IF r \in back THEN job[r].quantity ELSE 0)
                   ELSE IF r \in fired THEN 0 ELSE left[r] - g[r]
    BY DEF Remains
  <2>3. r \in pegged => Peg(r) /\ ~Rests(r)
    BY DEF Engaged, Peg, Rests
  <2>4. r \in fired => ~Rests(r)
    BY DEF Dormant, Rests, Stops
  <2>5. r \in pegged => job[r].quantity \in Nat
    BY DEF Typed, Job, NoJob
  <2> HIDE DEF after
  <2>6. CASE took > 0 /\ r \in pegged
    BY <2>1, <2>2, <2>3, <2>5, <2>6
  <2>7. CASE ~(took > 0 /\ r \in pegged) /\ r \in fired
    BY <2>1, <2>2, <2>4, <2>7
  <2>8. CASE ~(took > 0 /\ r \in pegged) /\ r \notin fired
    BY <2>1, <2>2, <2>8
  <2> QED BY <2>1, <2>6, <2>7, <2>8
<1> QED BY <1>1, <1>2 DEF Calls

LEMMA WorthIs ==
  ASSUME Typed, NEW t, NEW g \in Amounts, NEW above \in Markups(t, g)
  PROVE  Worth(t, g, above) \in Sums
<1>1. LeastPrice \in Int /\ GreatestPrice \in Int
  BY PricesAssumption
<1>2. \A r \in Floating(t, g) : above[r] \in Int
  BY DEF Markups
<1>3. ASSUME NEW r \in Requests
      PROVE  (IF r \in Floating(t, g) THEN g[r] * LeastPrice + above[r] ELSE g[r] * job[r].price) \in Int
  <2>1. g[r] \in Int /\ job[r].price \in Int
    BY DEF Amounts, Typed, Job, NoJob
  <2>2. g[r] * LeastPrice \in Int /\ g[r] * job[r].price \in Int
    BY <1>1, <2>1
  <2> QED BY <1>2, <2>2
<1> QED BY <1>3 DEF Worth, Sums

TradeKeepsMost ==
  UNCHANGED <<exists, cash, position, filled, executed, spent, status, job, targets, feed, feeds,
              mishaps, killed, undone, raced, reopened, missed, excess>>

LEMMA TakerIs ==
  ASSUME NEW t \in Requests, job[t] \in Job, NEW took \in Nat, NEW n \in Nat, NEW rest \in Nat, NEW fired,
         Taker(job[t], took, n, rest, fired), took <= job[t].quantity
  PROVE  Taken(t, took, n, rest)
<1>1. job[t].quantity \in Nat /\ job[t].tif \in {"GTC", "IOC", "FOK"}
  BY DEF Job
<1>2. job[t].type \in {"market", "pegged"} \cup Priced \cup Stops
  BY DEF Job
<1>3. CASE job[t].type \in Stops
  BY <1>1, <1>3 DEF Taker, Taken, Peg, Rests, Stops
<1>4. CASE job[t].type = "pegged"
  BY <1>1, <1>4 DEF Taker, Taken, Peg, Rests, Stops
<1>5. CASE job[t].type = "market"
  BY <1>1, <1>5 DEF Taker, Taken, Peg, Rests, Stops
<1>6. CASE job[t].type \notin Stops \cup {"pegged", "market"}
  BY <1>1, <1>6 DEF Taker, Taken, Peg, Rests
<1> QED BY <1>3, <1>4, <1>5, <1>6

TradeOf(t, took, g, w) ==
  /\ left' \in Amounts
  /\ got' = [got EXCEPT ![t] = g] /\ owed' = [owed EXCEPT ![t] = w]
  /\ seen' = [seen EXCEPT ![t] = SeenAfter(t, took)]
  /\ Calls(t, g, left') /\ Taken(t, took, g[t], left'[t])
  /\ pegged' \subseteq pegged \cup {r \in {t} : Peg(r)}

LEMMA TradeIs ==
  ASSUME KeyInv, Typed, Engaged, NEW t \in Requests, Trade(t)
  PROVE  /\ pc[t] = "locking" /\ lock = NoOne /\ lock' = t /\ pc' = [pc EXCEPT ![t] = "committing"]
         /\ t \notin submitted /\ submitted' = submitted \cup {t}
         /\ TradeKeepsMost
         /\ stale' = IF seen[t].cash[job[t].account] = cash[job[t].account] THEN stale
                     ELSE stale \cup {job[t].account}
         /\ \E took \in Nat, g \in Amounts, w \in Sums : TradeOf(t, took, g, w)
<1>1. /\ pc[t] = "locking" /\ lock = NoOne /\ lock' = t /\ pc' = [pc EXCEPT ![t] = "committing"]
      /\ submitted' = submitted \cup {t}
      /\ TradeKeepsMost
      /\ stale' = IF seen[t].cash[job[t].account] = cash[job[t].account] THEN stale
                  ELSE stale \cup {job[t].account}
  BY DEF Trade, Goto, TradeKeepsMost, database, ledger, trail
<1>2. t \notin submitted
  BY <1>1 DEF KeyInv, RowFollows
<1>3. job[t] \in Job /\ job[t].quantity \in Nat
  BY <1>1 DEF Typed, Job
<1>4. PICK took \in 0 .. job[t].quantity, g \in [Requests -> 0 .. MaxQuantity],
           fired \in SUBSET Dormant, back \in SUBSET pegged :
        /\ Call(t, job[t].side, took, g, fired, back)
        /\ \E rest \in 0 .. job[t].quantity :
             /\ Taker(job[t], took, g[t], rest, fired)
             /\ left' = [Remains(took, g, fired, back) EXCEPT ![t] = rest]
             /\ pegged' = IF job[t].type = "pegged" /\ rest > 0 THEN pegged \cup {t} ELSE pegged
        /\ got' = [got EXCEPT ![t] = g]
        /\ \E above \in Markups(t, g) : owed' = [owed EXCEPT ![t] = Worth(t, g, above)]
        /\ seen' = [seen EXCEPT ![t] = SeenAfter(t, took)]
  BY DEF Trade
<1>5. PICK rest \in 0 .. job[t].quantity :
        /\ Taker(job[t], took, g[t], rest, fired)
        /\ left' = [Remains(took, g, fired, back) EXCEPT ![t] = rest]
        /\ pegged' = IF job[t].type = "pegged" /\ rest > 0 THEN pegged \cup {t} ELSE pegged
  BY <1>4
<1>6. PICK above \in Markups(t, g) : owed' = [owed EXCEPT ![t] = Worth(t, g, above)]
  BY <1>4
<1>7. took \in Nat /\ rest \in Nat /\ took <= job[t].quantity
  BY <1>3
<1> DEFINE after == Remains(took, g, fired, back)
<1>8. /\ g \in Amounts /\ Calls(t, g, after)
      /\ \A r \in Requests \ {t} : after[r] \in Nat
      /\ DOMAIN after = Requests
  <2>1. DOMAIN after = Requests
    BY DEF Remains
  <2> QED BY <1>4, <1>7, <2>1, RemainsIs
<1>9. Worth(t, g, above) \in Sums
  BY <1>8, WorthIs
<1> HIDE DEF after
<1>10. left' = [after EXCEPT ![t] = rest]
  BY <1>5 DEF after
<1>11. left' \in Amounts /\ left'[t] = rest /\ \A r \in Requests \ {t} : left'[r] = after[r]
  BY <1>7, <1>8, <1>10 DEF Amounts
<1>12. Calls(t, g, left')
  BY <1>8, <1>11 DEF Calls
<1>13. Taken(t, took, g[t], left'[t])
  <2>1. g[t] \in Nat
    BY <1>8 DEF Amounts
  <2> QED BY <1>3, <1>5, <1>7, <1>11, <2>1, TakerIs
<1>14. pegged' \subseteq pegged \cup {r \in {t} : Peg(r)}
  BY <1>5 DEF Peg
<1>15. TradeOf(t, took, g, Worth(t, g, above))
  BY <1>4, <1>6, <1>11, <1>12, <1>13, <1>14 DEF TradeOf
<1> QED BY <1>1, <1>2, <1>7, <1>8, <1>9, <1>15

FeedKeepsMost ==
  UNCHANGED <<pegged, lock, exists, cash, position, filled, executed, spent, status, pc, job, seen,
              targets, got, owed, mishaps, submitted, killed, undone, stale, raced, reopened, missed,
              excess>>

LEMMA FeedSubmitIs ==
  ASSUME Typed, Engaged, FeedSubmit
  PROVE  /\ feed.at = "idle" /\ lock = NoOne /\ FeedKeepsMost /\ left' \in Amounts
         /\ feeds' \in 0 .. MaxFeeds
         /\ \E g \in Amounts, w \in Sums :
              /\ feed' = [NoFeed EXCEPT !.at = "filled", !.got = g, !.owed = w]
              /\ Calls(NoOne, g, left')
<1>1. feed.at = "idle" /\ lock = NoOne /\ FeedKeepsMost
  BY DEF FeedSubmit, FeedKeepsMost, database, ledger, sessions, history, trail
<1>2. feeds' \in 0 .. MaxFeeds
  BY LimitsAssumption DEF FeedSubmit, Typed
<1>3. PICK side \in Side, took \in 1 .. FeedQuantity, g \in [Requests -> 0 .. MaxQuantity],
           fired \in SUBSET Dormant, back \in SUBSET pegged :
        /\ Call(NoOne, side, took, g, fired, back)
        /\ left' = Remains(took, g, fired, back)
        /\ \E above \in Markups(NoOne, g) :
             feed' = [NoFeed EXCEPT !.at = "filled", !.got = g, !.owed = Worth(NoOne, g, above)]
  BY DEF FeedSubmit
<1>4. PICK above \in Markups(NoOne, g) :
        feed' = [NoFeed EXCEPT !.at = "filled", !.got = g, !.owed = Worth(NoOne, g, above)]
  BY <1>3
<1>5. took \in Nat
  BY LimitsAssumption
<1> DEFINE after == Remains(took, g, fired, back)
<1>6. /\ g \in Amounts /\ Calls(NoOne, g, after)
      /\ \A r \in Requests : after[r] \in Nat
      /\ DOMAIN after = Requests
  <2>1. DOMAIN after = Requests
    BY DEF Remains
  <2> QED BY <1>3, <1>5, <2>1, RemainsIs, RequestsAssumption
<1>7. Worth(NoOne, g, above) \in Sums
  BY <1>6, WorthIs
<1>8. after \in Amounts
  <2>1. after = [r \in Requests |-> after[r]]
    BY DEF Remains
  <2> HIDE DEF after
  <2> QED BY <1>6, <2>1 DEF Amounts
<1> QED BY <1>1, <1>2, <1>3, <1>4, <1>6, <1>7, <1>8

-----------------------------------------------------------------------------
(* What fills amount to, and what is read and written.                       *)

Ints(g) == \A r \in Requests : g[r] \in Int

LEMMA AmountsAreInts ==
  /\ \A g \in Amounts : Ints(g)
  /\ \A w \in Sums : Ints(w)
BY DEF Amounts, Sums, Ints

\* What order r of rows adds to account a.
Gain(a, g, rows) ==
  [r \in Requests |-> IF r \in rows \cap OrdersOf(a) THEN Signed(job[r].side, g[r]) ELSE 0]

LEMMA SharesIs ==
  ASSUME NEW a, NEW g, Ints(g), NEW rows
  PROVE  /\ \A r \in Requests : Gain(a, g, rows)[r] \in Int
         /\ Shares(a, g, rows) = SumFunctionOnSet(Gain(a, g, rows), Requests)
         /\ Shares(a, g, rows) \in Int
<1> DEFINE w == [r \in Requests |-> Signed(job[r].side, g[r])]
           T == rows \cap OrdersOf(a)
           u == Gain(a, g, rows)
<1>1. \A r \in Requests : w[r] \in Int
  BY DEF Signed, Ints
<1>2. T \in SUBSET Requests /\ IsFiniteSet(Requests)
  BY RequestsAssumption DEF OrdersOf
<1>3. MaskOf(u, w, T, Requests)
  BY DEF MaskOf, Gain
<1>4. \A r \in Requests : u[r] \in Int
  BY <1>1 DEF Gain
<1>5. Shares(a, g, rows) = SumFunctionOnSet(w, T)
  BY DEF Shares
<1> HIDE DEF w, T, u
<1>6. \A x \in T : w[x] \in Int
  BY <1>1, <1>2
<1>7. SumFunctionOnSet(w, T) = SumFunctionOnSet(u, Requests)
  BY <1>2, <1>3, <1>6, SumMasked
<1>8. SumFunctionOnSet(u, Requests) \in Int
  BY <1>2, <1>4, SumType
<1> QED BY <1>4, <1>5, <1>7, <1>8 DEF u

\* The rows that fills are written to.
Touched(g, rows) == {r \in rows : g[r] > 0}

\* What fills of account a cost beyond the prices of their orders, by order.
Excesses(a, g, w, rows) ==
  [r \in Requests |-> IF r \in rows \cap OrdersOf(a) THEN Beyond(r, g[r], w[r]) ELSE 0]

Overpaid(a, g, w, rows) ==
  SumFunctionOnSet([r \in Requests |-> Beyond(r, g[r], w[r])], rows \cap OrdersOf(a))

LEMMA BeyondIs ==
  ASSUME Typed, NEW r \in Requests, NEW n \in Nat, NEW v \in Int
  PROVE  /\ Beyond(r, n, v) \in Nat /\ n * job[r].price \in Nat
         /\ job[r].side = "buy" => Beyond(r, n, v) >= v - n * job[r].price
         /\ job[r].side # "buy" => Beyond(r, n, v) >= -v
<1>1. job[r].price \in Nat
  BY DEF Typed, Job, NoJob
<1>2. n * job[r].price \in Nat
  BY <1>1
<1> DEFINE m == n * job[r].price
<1>3. Beyond(r, n, v) = LET over == IF job[r].side = "buy" THEN v - m ELSE -v
                        IN  IF over > 0 THEN over ELSE 0
  BY DEF Beyond
<1>4. m \in Nat
  BY <1>2
<1> HIDE DEF m
<1>5. CASE job[r].side = "buy"
  BY <1>3, <1>4, <1>5 DEF m
<1>6. CASE job[r].side # "buy"
  BY <1>3, <1>4, <1>6 DEF m
<1> QED BY <1>5, <1>6

LEMMA OverpaidIs ==
  ASSUME Typed, NEW a, NEW g \in Amounts, NEW w \in Sums, NEW rows
  PROVE  /\ \A r \in Requests : Excesses(a, g, w, rows)[r] \in Nat
         /\ Overpaid(a, g, w, rows) = SumFunctionOnSet(Excesses(a, g, w, rows), Requests)
         /\ Overpaid(a, g, w, rows) \in Nat
<1> DEFINE b == [r \in Requests |-> Beyond(r, g[r], w[r])]
           T == rows \cap OrdersOf(a)
           u == Excesses(a, g, w, rows)
<1>1. \A r \in Requests : b[r] \in Nat
  BY BeyondIs DEF Amounts, Sums
<1>2. T \in SUBSET Requests /\ IsFiniteSet(Requests)
  BY RequestsAssumption DEF OrdersOf
<1>3. MaskOf(u, b, T, Requests)
  BY DEF MaskOf, Excesses
<1>4. \A r \in Requests : u[r] \in Nat
  BY <1>1 DEF Excesses
<1>5. Overpaid(a, g, w, rows) = SumFunctionOnSet(b, T)
  BY DEF Overpaid
<1> HIDE DEF b, T, u
<1>6. \A x \in T : b[x] \in Int
  BY <1>1, <1>2
<1>7. SumFunctionOnSet(b, T) = SumFunctionOnSet(u, Requests)
  BY <1>2, <1>3, <1>6, SumMasked
<1>8. SumFunctionOnSet(u, Requests) \in Int /\ 0 <= SumFunctionOnSet(u, Requests)
  BY <1>2, <1>4, SumType, SumNotBelow
<1> QED BY <1>4, <1>5, <1>7, <1>8 DEF u

\* What the fills do to row r.
ExecutedOf(r, g, w, rows) ==
  IF r \in Touched(g, rows) THEN executed'[r] = executed[r] + g[r] /\ spent'[r] = spent[r] + w[r]
  ELSE executed'[r] = executed[r] /\ spent'[r] = spent[r]

FilledOf(r, g, values, rows) ==
  IF r \in rows \ Rows
  THEN filled'[r] = values.filled[r] /\ missed'[r] = g[r] - values.filled[r]
  ELSE /\ missed'[r] = missed[r]
       /\ IF r \in Touched(g, rows)
          THEN \/ filled'[r] = Raised(r, g[r], values)
               \/ Raised(r, g[r], values) = values.filled[r] /\ filled'[r] = filled[r]
          ELSE filled'[r] = filled[r]

LabelOf(r, g, values, rows) ==
  \/ status'[r] = status[r] /\ r \notin rows \ Rows
  \/ /\ r \in Touched(g, rows) \cup (rows \ Rows)
     /\ status'[r] = FilledStatus(r, Raised(r, g[r], values))

RowsFilled(g, w, values, rows) ==
  \A r \in Requests : /\ ExecutedOf(r, g, w, rows)
                      /\ FilledOf(r, g, values, rows)
                      /\ LabelOf(r, g, values, rows)

Owners(g, rows) == {job[r].account : r \in Touched(g, rows)}

AccountsFilled(g, w, values, rows) ==
  \A a \in Accounts :
    /\ a \in Owners(g, rows) =>
         /\ position'[a] = values.position[a] + Shares(a, g, Touched(g, rows))
         /\ cash'[a] = values.cash[a] - Shares(a, w, Touched(g, rows))
    /\ a \notin Owners(g, rows) => position'[a] = position[a] /\ cash'[a] = cash[a]
    /\ excess'[a] = excess[a] + Overpaid(a, g, w, Touched(g, rows))

FillTypes ==
  /\ cash' \in [Accounts -> Int] /\ position' \in [Accounts -> Int]
  /\ filled' \in Amounts /\ executed' \in Amounts /\ spent' \in Sums
  /\ missed' \in Amounts /\ excess' \in [Accounts -> Nat]

LEMMA RaisedIs ==
  ASSUME Typed, NEW r \in Requests, NEW n \in Nat, NEW values \in Snapshots
  PROVE  /\ Raised(r, n, values) \in Nat
         /\ values.filled[r] \in Nat /\ job[r].quantity \in Nat
         /\ r \notin Rows => Raised(r, n, values) = values.filled[r]
         /\ values.filled[r] <= job[r].quantity /\ r \in Rows =>
              Raised(r, n, values) = IF values.filled[r] + n < job[r].quantity
                                     THEN values.filled[r] + n ELSE job[r].quantity
<1>1. values.filled[r] \in Nat /\ job[r].quantity \in Nat
  BY DEF Snapshots, Amounts, Typed, Job, NoJob
<1> QED BY <1>1 DEF Raised

LEMMA FillsWritten ==
  ASSUME Typed, NEW g \in Amounts, NEW w \in Sums, NEW values \in Snapshots,
         NEW rows \in SUBSET Requests, ApplyFills(g, w, values, rows),
         \A r \in rows \ Rows : values.filled[r] <= g[r]
  PROVE  /\ FillTypes /\ RowsFilled(g, w, values, rows) /\ AccountsFilled(g, w, values, rows)
         /\ reopened' = reopened \cup {r \in Touched(g, rows) : status[r] \in Closed}
<1> DEFINE touched == Touched(g, rows)
           owners == Owners(g, rows)
           new == rows \ Rows
           quantity(r) == Raised(r, g[r], values)
           label(r) == FilledStatus(r, quantity(r))
<1>1. /\ filled' = [r \in Requests |->
           IF r \in new \/ (r \in touched /\ quantity(r) # values.filled[r])
           THEN quantity(r) ELSE filled[r]]
      /\ status' = [r \in Requests |->
           IF r \in new \/ (r \in touched /\ label(r) # values.status[r])
           THEN label(r) ELSE status[r]]
      /\ executed' = [r \in Requests |-> executed[r] + IF r \in touched THEN g[r] ELSE 0]
      /\ spent' = [r \in Requests |-> spent[r] + IF r \in touched THEN w[r] ELSE 0]
      /\ missed' = [r \in Requests |-> IF r \in new THEN g[r] - values.filled[r] ELSE missed[r]]
  BY DEF ApplyFills, Touched
<1>2. /\ position' = [a \in Accounts |-> IF a \in owners THEN values.position[a] + Shares(a, g, touched)
                                         ELSE position[a]]
      /\ cash' = [a \in Accounts |-> IF a \in owners THEN values.cash[a] - Shares(a, w, touched)
                                     ELSE cash[a]]
      /\ reopened' = reopened \cup {r \in touched : status[r] \in Closed}
      /\ excess' = [a \in Accounts |-> excess[a] + Overpaid(a, g, w, touched)]
  BY DEF ApplyFills, Touched, Owners, Overpaid
<1>3. /\ values.cash \in [Accounts -> Int] /\ values.position \in [Accounts -> Int]
      /\ \A r \in Requests : values.filled[r] \in Nat
  BY DEF Snapshots, Amounts
<1>4. \A r \in Requests : g[r] \in Nat /\ w[r] \in Int
  BY DEF Amounts, Sums
<1>5. \A a \in Accounts : Shares(a, g, touched) \in Int /\ Shares(a, w, touched) \in Int
  BY AmountsAreInts, SharesIs
<1>6. \A a \in Accounts : Overpaid(a, g, w, touched) \in Nat
  BY OverpaidIs
<1>7. \A r \in Requests : quantity(r) \in Nat
  BY <1>4, RaisedIs
<1>8. \A r \in new : r \in Requests /\ g[r] - values.filled[r] \in Nat
  BY <1>3, <1>4
<1>9. \A r \in new : quantity(r) = values.filled[r]
  BY DEF Raised
<1>10. touched \subseteq Requests
  BY DEF Touched
<1> HIDE DEF touched, owners, new, quantity, label
<1>11. filled' \in Amounts
  BY <1>1, <1>7 DEF Typed, Amounts
<1>12. executed' \in Amounts /\ spent' \in Sums
  BY <1>1, <1>4 DEF Typed, Amounts, Sums
<1>13. missed' \in Amounts
  BY <1>1, <1>8 DEF Typed, Amounts
<1>14. cash' \in [Accounts -> Int] /\ position' \in [Accounts -> Int]
  BY <1>2, <1>3, <1>5 DEF Typed
<1>15. excess' \in [Accounts -> Nat]
  BY <1>2, <1>6 DEF Typed
<1>16. FillTypes
  BY <1>11, <1>12, <1>13, <1>14, <1>15 DEF FillTypes
<1>17. ASSUME NEW r \in Requests
       PROVE  /\ ExecutedOf(r, g, w, rows)
              /\ FilledOf(r, g, values, rows)
              /\ LabelOf(r, g, values, rows)
  <2>1. ExecutedOf(r, g, w, rows)
    <3>1. executed[r] \in Nat /\ spent[r] \in Int
      BY DEF Typed, Amounts, Sums
    <3> QED BY <1>1, <3>1 DEF ExecutedOf, touched
  <2>2. FilledOf(r, g, values, rows)
    BY <1>1, <1>9 DEF FilledOf, touched, new, quantity
  <2>3. LabelOf(r, g, values, rows)
    BY <1>1 DEF LabelOf, touched, new, quantity, label
  <2> QED BY <2>1, <2>2, <2>3
<1>18. AccountsFilled(g, w, values, rows)
  BY <1>2 DEF AccountsFilled, touched, owners
<1> QED BY <1>2, <1>16, <1>17, <1>18 DEF RowsFilled, touched

-----------------------------------------------------------------------------
(* How trades end.                                                           *)

Ends(t) ==
  /\ pc[t] = "committing" /\ lock = t /\ lock' = NoOne
  /\ pc' = [pc EXCEPT ![t] = "done"] /\ seen' = [seen EXCEPT ![t] = NotRead]
  /\ got' = [got EXCEPT ![t] = Nothing] /\ owed' = [owed EXCEPT ![t] = Nothing]
  /\ UNCHANGED <<left, pegged, exists, job, targets, feed, feeds, submitted, stale>>

LEMMA DroppedIs ==
  ASSUME KeyInv, Typed, NEW t \in Requests, Dropped(t)
  PROVE  /\ Ends(t) /\ undone' = TRUE /\ mishaps' \in 0 .. MaxMishaps
         /\ UNCHANGED <<filled, status, executed, spent, position, cash, raced, reopened, missed,
                        excess>>
<1>1. CASE PlaceFails(t)
  <2>1. pc[t] = "committing" /\ lock = t
    BY <1>1 DEF PlaceFails, KeyInv, LockHeld
  <2>2. Ends(t) /\ undone' = TRUE
    BY <1>1, <2>1 DEF PlaceFails, Ends, End, Goto, database, ledger
  <2>3. UNCHANGED <<filled, status, executed, spent, position, cash, raced, reopened, missed, excess>>
    BY <1>1 DEF PlaceFails, database, ledger, trail
  <2>4. mishaps' \in 0 .. MaxMishaps
    BY <1>1, LimitsAssumption DEF PlaceFails, Mishap, Typed
  <2> QED BY <2>2, <2>3, <2>4
<1>2. CASE PlaceCommit(t) /\ ~Commits(t)
  <2>1. pc[t] = "committing" /\ lock = t
    BY <1>2 DEF PlaceCommit, KeyInv, LockHeld
  <2>2. Ends(t) /\ undone' = TRUE
    BY <1>2, <2>1 DEF PlaceCommit, Ends, End, Goto
  <2>3. UNCHANGED <<filled, status, executed, spent, position, cash, raced, reopened, missed, excess>>
    BY <1>2 DEF PlaceCommit, trail
  <2>4. mishaps' \in 0 .. MaxMishaps
    BY <1>2 DEF PlaceCommit, Typed
  <2> QED BY <2>2, <2>3, <2>4
<1> QED BY <1>1, <1>2 DEF Dropped

\* The rows of a commit are rows there are and one new one.
NewRow(t, rows) ==
  /\ rows \in SUBSET Requests /\ t \in rows /\ rows \ Rows = {t}
  /\ \A r \in Rows : got[t][r] > 0 => r \in rows

LEMMA WroteIs ==
  ASSUME KeyInv, Typed, NEW t \in Requests, Wrote(t)
  PROVE  /\ Ends(t) /\ raced' = (raced \/ feed.at = "applying")
         /\ UNCHANGED <<undone, mishaps, killed>>
         /\ ApplyFills(got[t], owed[t], seen[t], Written(t)) /\ NewRow(t, Written(t))
         /\ job[t].account \in exists /\ ~HasRow(t)
<1>1. PlaceCommit(t) /\ Commits(t)
  BY DEF Wrote
<1>2. pc[t] = "committing" /\ lock = t
  BY <1>1 DEF PlaceCommit, KeyInv, LockHeld
<1>3. Ends(t)
  BY <1>1, <1>2 DEF PlaceCommit, Ends, End, Goto
<1>4. ~HasRow(t)
  BY <1>2 DEF KeyInv, RowsOwned
<1>5. NewRow(t, Written(t))
  BY <1>4 DEF NewRow, Written, Rows, HasRow
<1>6. job[t].account \in exists
  BY <1>1 DEF Commits, Written
<1> QED BY <1>1, <1>3, <1>4, <1>5, <1>6 DEF PlaceCommit

\* What the fills of a commit do, and those of the feed.
LEMMA WroteFills ==
  ASSUME KeyInv, Typed, NEW t \in Requests, Wrote(t)
  PROVE  /\ FillTypes /\ RowsFilled(got[t], owed[t], seen[t], Written(t))
         /\ AccountsFilled(got[t], owed[t], seen[t], Written(t))
         /\ reopened' = reopened \cup {r \in Touched(got[t], Written(t)) : status[r] \in Closed}
         /\ got[t] \in Amounts /\ owed[t] \in Sums /\ seen[t] \in Snapshots
<1>1. /\ pc[t] = "committing" /\ Written(t) \in SUBSET Requests /\ Written(t) \ Rows = {t}
      /\ ApplyFills(got[t], owed[t], seen[t], Written(t))
  BY WroteIs DEF Ends, NewRow
<1>2. got[t] \in Amounts /\ owed[t] \in Sums /\ seen[t] \in Snapshots
  BY <1>1 DEF Typed
<1>3. \A r \in Written(t) \ Rows : seen[t].filled[r] <= got[t][r]
  BY <1>1 DEF Typed
<1> QED BY <1>1, <1>2, <1>3, FillsWritten

FeedEnds ==
  /\ feed.at = "applying" /\ feed' = NoFeed
  /\ UNCHANGED <<left, pegged, lock, exists, pc, job, seen, targets, got, owed, feeds, mishaps,
                 submitted, killed, stale>>

LEMMA FeedCommitIs ==
  ASSUME Typed, FeedCommit
  PROVE  /\ FeedEnds /\ raced' = (raced \/ lock # NoOne) /\ UNCHANGED undone
         /\ FillTypes /\ RowsFilled(feed.got, feed.owed, feed.seen, Rows)
         /\ AccountsFilled(feed.got, feed.owed, feed.seen, Rows)
         /\ reopened' = reopened \cup {r \in Touched(feed.got, Rows) : status[r] \in Closed}
         /\ feed.got \in Amounts /\ feed.owed \in Sums /\ feed.seen \in Snapshots
<1>1. /\ FeedEnds /\ raced' = (raced \/ lock # NoOne) /\ UNCHANGED undone
      /\ ApplyFills(feed.got, feed.owed, feed.seen, Rows)
  BY DEF FeedCommit, FeedEnds, core, sessions
<1>2. feed.got \in Amounts /\ feed.owed \in Sums /\ feed.seen \in Snapshots
  BY <1>1 DEF Typed, Feeds, FeedEnds
<1>3. Rows \in SUBSET Requests /\ \A r \in Rows \ Rows : feed.seen.filled[r] <= feed.got[r]
  BY DEF Rows
<1> QED BY <1>1, <1>2, <1>3, FillsWritten

LEMMA FeedFailsIs ==
  ASSUME FeedFails
  PROVE  /\ FeedEnds /\ undone' = TRUE
         /\ UNCHANGED <<filled, status, executed, spent, position, cash, raced, reopened, missed,
                        excess>>
BY DEF FeedFails, FeedEnds, core, database, ledger, sessions, trail

DeleteOf(t) ==
  /\ pc[t] = "deleting" /\ pc' = [pc EXCEPT ![t] = "done"]
  /\ exists' = exists \ {job[t].account}
  /\ UNCHANGED <<left, pegged, lock, cash, position, job, seen, targets, got, owed, feed, feeds,
                 mishaps, submitted, killed, undone, stale, raced, reopened, missed, excess>>

\* Rows of the account go, and nobody else's.
Gone(a) ==
  \A r \in Requests :
    IF r \in OrdersOf(a)
    THEN status'[r] = "none" /\ filled'[r] = 0 /\ executed'[r] = 0 /\ spent'[r] = 0
    ELSE status'[r] = status[r] /\ filled'[r] = filled[r] /\ executed'[r] = executed[r] /\ spent'[r] = spent[r]

LEMMA DeleteIs ==
  ASSUME Typed, NEW t \in Requests, DeleteCommit(t)
  PROVE  /\ DeleteOf(t) /\ Gone(job[t].account)
         /\ filled' \in Amounts /\ executed' \in Amounts /\ spent' \in Sums
<1> DEFINE gone == OrdersOf(job[t].account)
<1>1. DeleteOf(t)
  BY DEF DeleteCommit, DeleteOf, Goto, core, history, trail
<1>2. /\ status' = [r \in Requests |-> IF r \in gone THEN "none" ELSE status[r]]
      /\ filled' = [r \in Requests |-> IF r \in gone THEN 0 ELSE filled[r]]
      /\ executed' = [r \in Requests |-> IF r \in gone THEN 0 ELSE executed[r]]
      /\ spent' = [r \in Requests |-> IF r \in gone THEN 0 ELSE spent[r]]
  BY DEF DeleteCommit
<1>3. Gone(job[t].account)
  BY <1>2 DEF Gone
<1>4. filled' \in Amounts /\ executed' \in Amounts /\ spent' \in Sums
  BY <1>2 DEF Typed, Amounts, Sums
<1> QED BY <1>1, <1>3, <1>4

LEMMA FeedReadIs ==
  ASSUME FeedRead
  PROVE  /\ feed.at = "filled" /\ feed' = [feed EXCEPT !.at = "applying", !.seen = Values]
         /\ FeedKeepsMost /\ UNCHANGED <<left, feeds>>
BY DEF FeedRead, FeedKeepsMost, core, database, ledger, sessions, history, trail

RestartOf ==
  /\ left' = Nothing /\ pegged' = {} /\ lock' = NoOne /\ undone' = TRUE
  /\ pc' = [t \in Requests |-> IF pc[t] = "new" THEN "new" ELSE "done"]
  /\ seen' = [t \in Requests |-> NotRead]
  /\ got' = [t \in Requests |-> Nothing] /\ owed' = [t \in Requests |-> Nothing]
  /\ feed' = NoFeed
  /\ UNCHANGED <<exists, cash, position, status, filled, executed, spent, job, targets, feeds,
                 submitted, stale, raced, reopened, missed, excess>>

LEMMA RestartIs ==
  ASSUME Typed, Restart
  PROVE  RestartOf /\ mishaps' \in 0 .. MaxMishaps
<1>1. RestartOf
  BY DEF Restart, RestartOf, database, ledger, trail
<1>2. mishaps' \in 0 .. MaxMishaps
  BY LimitsAssumption DEF Restart, Mishap, Typed
<1> QED BY <1>1, <1>2

-----------------------------------------------------------------------------
(* Types.                                                                    *)

LEMMA AsideTyped ==
  ASSUME KeyInv, Typed, Targeted, NEW t \in Requests, Aside(t)
  PROVE  Typed'
<1>1. AsideKeeps /\ AsideTypes /\ \E label \in Labels : Moves(t, label)
  BY AsideIs
<1>2. \A r \in Requests : pc'[r] = "committing" =>
        pc[r] = "committing" /\ seen'[r] = seen[r]
  BY <1>1 DEF Moves, KeyInv, Shaped
<1>3. \A r \in Requests : pc'[r] = "committing" => seen'[r].filled[r] <= got'[r][r]
  BY <1>1, <1>2 DEF AsideKeeps, Typed
<1> QED BY <1>1, <1>3 DEF Typed, AsideKeeps, AsideTypes

LEMMA TradeTyped ==
  ASSUME KeyInv, Typed, Engaged, NEW t \in Requests, Trade(t)
  PROVE  Typed'
<1>1. /\ pc[t] = "locking" /\ pc' = [pc EXCEPT ![t] = "committing"]
      /\ TradeKeepsMost
  BY TradeIs
<1>2. PICK took \in Nat, g \in Amounts, w \in Sums : TradeOf(t, took, g, w)
  BY TradeIs
<1>3. took <= g[t]
  BY <1>2 DEF TradeOf, Taken
<1>4. Values \in Snapshots /\ seen[t] \in Snapshots
  BY <1>1, ValuesTyped DEF Typed
<1>5. job[t].account \in Accounts
  BY <1>1 DEF Typed, Job
<1>6. SeenAfter(t, took) \in Snapshots /\ SeenAfter(t, took).filled[t] = took
  BY <1>4, <1>5 DEF SeenAfter, Snapshots, Amounts
<1>7. got'[t] = g /\ seen'[t] = SeenAfter(t, took) /\ pc'[t] = "committing"
  BY <1>1, <1>2 DEF TradeOf, Typed, KeyInv, Shaped
<1>8. \A r \in Requests \ {t} : got'[r] = got[r] /\ seen'[r] = seen[r] /\ pc'[r] = pc[r]
  BY <1>1, <1>2 DEF TradeOf, Typed, KeyInv, Shaped
<1>9. /\ got' \in [Requests -> Amounts] /\ owed' \in [Requests -> Sums] /\ left' \in Amounts
      /\ DOMAIN seen' = Requests
  BY <1>2 DEF TradeOf, Typed
<1>10. \A r \in Requests : pc'[r] \in {"locking", "committing"} => seen'[r] \in Snapshots
  BY <1>6, <1>7, <1>8 DEF Typed
<1>11. \A r \in Requests : pc'[r] = "committing" => seen'[r].filled[r] <= got'[r][r]
  BY <1>3, <1>6, <1>7, <1>8 DEF Typed
<1>12. \A r \in Requests : pc'[r] # "new" => job[r] \in Job
  BY <1>1, <1>7, <1>8 DEF Typed
<1> QED BY <1>1, <1>9, <1>10, <1>11, <1>12 DEF Typed, TradeKeepsMost

LEMMA EndsTyped ==
  ASSUME KeyInv, Typed, NEW t \in Requests, Ends(t), FillTypes,
         raced' \in BOOLEAN, undone' \in BOOLEAN, mishaps' \in 0 .. MaxMishaps
  PROVE  Typed'
<1>1. \A r \in Requests \ {t} : got'[r] = got[r] /\ seen'[r] = seen[r] /\ pc'[r] = pc[r]
  BY DEF Ends, Typed, KeyInv, Shaped
<1>2. pc[t] = "committing" /\ pc'[t] = "done"
  BY DEF Ends, KeyInv, Shaped
<1>3. /\ got' \in [Requests -> Amounts] /\ owed' \in [Requests -> Sums] /\ DOMAIN seen' = Requests
  BY NothingIs DEF Ends, Typed
<1>4. \A r \in Requests : pc'[r] # "new" => job[r] \in Job
  BY <1>1, <1>2 DEF Typed
<1>5. \A r \in Requests : pc'[r] \in {"locking", "committing"} => seen'[r] \in Snapshots
  BY <1>1, <1>2 DEF Typed
<1>6. \A r \in Requests : pc'[r] = "committing" => seen'[r].filled[r] <= got'[r][r]
  BY <1>1, <1>2 DEF Typed
<1> QED BY <1>3, <1>4, <1>5, <1>6 DEF Typed, Ends, FillTypes

LEMMA WroteTyped ==
  ASSUME KeyInv, Typed, NEW t \in Requests, Wrote(t)
  PROVE  Typed'
<1>1. FillTypes
  BY WroteFills
<1>2. Ends(t) /\ raced' = (raced \/ feed.at = "applying") /\ UNCHANGED <<undone, mishaps>>
  BY WroteIs
<1>3. raced' \in BOOLEAN /\ undone' \in BOOLEAN /\ mishaps' \in 0 .. MaxMishaps
  BY <1>2 DEF Typed
<1> QED BY <1>1, <1>2, <1>3, EndsTyped

LEMMA DroppedTyped ==
  ASSUME KeyInv, Typed, NEW t \in Requests, Dropped(t)
  PROVE  Typed'
<1>1. /\ Ends(t) /\ undone' = TRUE /\ mishaps' \in 0 .. MaxMishaps
      /\ UNCHANGED <<filled, executed, spent, position, cash, raced, missed, excess>>
  BY DroppedIs
<1>2. FillTypes /\ raced' \in BOOLEAN
  BY <1>1 DEF FillTypes, Typed
<1> QED BY <1>1, <1>2, EndsTyped

LEMMA DeleteTyped ==
  ASSUME KeyInv, Typed, NEW t \in Requests, DeleteCommit(t)
  PROVE  Typed'
<1>1. DeleteOf(t) /\ filled' \in Amounts /\ executed' \in Amounts /\ spent' \in Sums
  BY DeleteIs
<1>2. pc[t] = "deleting" /\ pc'[t] = "done" /\ \A r \in Requests \ {t} : pc'[r] = pc[r]
  BY <1>1 DEF DeleteOf, KeyInv, Shaped
<1>3. \A r \in Requests : /\ pc'[r] # "new" => job[r] \in Job
                          /\ pc'[r] \in {"locking", "committing"} => seen[r] \in Snapshots
                          /\ pc'[r] = "committing" => seen[r].filled[r] <= got[r][r]
  BY <1>2 DEF Typed
<1>4. exists' \subseteq Accounts
  BY <1>1 DEF DeleteOf, Typed
<1> QED BY <1>1, <1>3, <1>4 DEF Typed, DeleteOf

NoFeedTyped == NoFeed \in Feeds /\ NoFeed.at # "applying"

LEMMA NoFeedIs == NoFeedTyped
BY NothingIs DEF NoFeedTyped, NoFeed, Feeds

LEMMA FeedSubmitTyped ==
  ASSUME Typed, Engaged, FeedSubmit
  PROVE  Typed'
<1>1. FeedKeepsMost /\ left' \in Amounts /\ feeds' \in 0 .. MaxFeeds
  BY FeedSubmitIs
<1>2. PICK g \in Amounts, w \in Sums :
        feed' = [NoFeed EXCEPT !.at = "filled", !.got = g, !.owed = w]
  BY FeedSubmitIs
<1>3. feed' \in Feeds /\ feed'.at # "applying"
  BY <1>2 DEF NoFeed, Feeds
<1> QED BY <1>1, <1>3 DEF Typed, FeedKeepsMost

LEMMA FeedReadTyped ==
  ASSUME KeyInv, Typed, FeedRead
  PROVE  Typed'
<1>1. /\ feed' = [feed EXCEPT !.at = "applying", !.seen = Values]
      /\ FeedKeepsMost /\ UNCHANGED <<left, feeds>>
  BY FeedReadIs
<1>2. feed' \in Feeds /\ feed'.seen \in Snapshots
  BY <1>1, ValuesTyped DEF Feeds, Typed
<1> QED BY <1>1, <1>2 DEF Typed, FeedKeepsMost

LEMMA FeedCommitTyped ==
  ASSUME Typed, FeedCommit
  PROVE  Typed'
<1>1. FillTypes /\ FeedEnds /\ raced' = (raced \/ lock # NoOne) /\ UNCHANGED undone
  BY FeedCommitIs
<1>2. feed' \in Feeds /\ feed'.at # "applying"
  BY <1>1, NoFeedIs DEF FeedEnds, NoFeedTyped
<1>3. raced' \in BOOLEAN
  BY <1>1 DEF Typed
<1> QED BY <1>1, <1>2, <1>3 DEF Typed, FeedEnds, FillTypes

LEMMA FeedFailsTyped ==
  ASSUME Typed, FeedFails
  PROVE  Typed'
<1>1. /\ FeedEnds /\ undone' = TRUE
      /\ UNCHANGED <<filled, status, executed, spent, position, cash, raced, reopened, missed, excess>>
  BY FeedFailsIs
<1>2. feed' \in Feeds /\ feed'.at # "applying"
  BY <1>1, NoFeedIs DEF FeedEnds, NoFeedTyped
<1> QED BY <1>1, <1>2 DEF Typed, FeedEnds

LEMMA RestartTyped ==
  ASSUME KeyInv, Typed, Restart
  PROVE  Typed'
<1>1. RestartOf /\ mishaps' \in 0 .. MaxMishaps
  BY RestartIs
<1>2. \A r \in Requests : pc'[r] = (IF pc[r] = "new" THEN "new" ELSE "done")
  BY <1>1 DEF RestartOf
<1>3. \A r \in Requests : /\ pc'[r] # "new" => job[r] \in Job
                          /\ pc'[r] \notin {"locking", "committing"}
  BY <1>2 DEF Typed
<1>4. /\ got' \in [Requests -> Amounts] /\ owed' \in [Requests -> Sums]
      /\ DOMAIN seen' = Requests /\ left' \in Amounts
  BY <1>1, NothingIs DEF RestartOf
<1>5. feed' \in Feeds /\ feed'.at # "applying"
  BY <1>1, NoFeedIs DEF RestartOf, NoFeedTyped
<1> QED BY <1>1, <1>3, <1>4, <1>5 DEF Typed, RestartOf

LEMMA InitTyped == Init => Typed
<1> SUFFICES ASSUME Init PROVE Typed
  OBVIOUS
<1>1. NoFeed \in Feeds /\ NoFeed.at # "applying"
  BY NoFeedIs DEF NoFeedTyped
<1>2. InitialCash \in Int
  BY LimitsAssumption
<1>3. /\ left \in Amounts /\ filled \in Amounts /\ executed \in Amounts /\ spent \in Sums
      /\ missed \in Amounts
  BY NothingIs DEF Init
<1>4. /\ exists \subseteq Accounts /\ excess \in [Accounts -> Nat]
      /\ cash \in [Accounts -> Int] /\ position \in [Accounts -> Int]
  BY <1>2 DEF Init
<1>5. got \in [Requests -> Amounts] /\ owed \in [Requests -> Sums]
  BY NothingIs DEF Init
<1>6. /\ job \in [Requests -> Job \cup {NoJob}] /\ targets \in [Requests -> SUBSET Requests]
      /\ DOMAIN seen = Requests /\ \A t \in Requests : pc[t] = "new"
  BY DEF Init
<1>7. /\ raced \in BOOLEAN /\ undone \in BOOLEAN
      /\ feeds \in 0 .. MaxFeeds /\ mishaps \in 0 .. MaxMishaps
  BY DEF Init
<1>8. feed \in Feeds /\ feed.at # "applying"
  BY <1>1 DEF Init
<1> HIDE DEF Init
<1> QED BY <1>3, <1>4, <1>5, <1>6, <1>7, <1>8 DEF Typed

-----------------------------------------------------------------------------
(* What reaches the engine.                                                  *)

\* A request that has arrived keeps its job.
LEMMA AsideJobs ==
  ASSUME KeyInv, Typed, Targeted, NEW t \in Requests, Aside(t)
  PROVE  /\ \A r \in Requests : pc[r] # "new" => pc'[r] # "new" /\ job'[r] = job[r]
         /\ \A r \in Requests : pc'[r] = "committing" <=> pc[r] = "committing"
         /\ \A r \in Requests : pc[r] = "done" => pc'[r] = "done"
         /\ \A r \in Requests : status'[r] # "none" <=> HasRow(r)
         /\ \A r \in Requests : left'[r] = left[r] \/ left'[r] = 0
<1>1. AsideKeeps /\ Closes(t)
  BY AsideIs
<1>2. PICK label \in Labels : Moves(t, label) /\ Takes(t, label)
  BY AsideIs
<1>3. pc'[t] = label /\ \A r \in Requests \ {t} : pc'[r] = pc[r] /\ job'[r] = job[r]
  BY <1>2 DEF Moves, KeyInv, Shaped
<1>4. /\ label \notin {"new", "committing"} /\ pc[t] \notin {"committing", "done"}
      /\ pc[t] # "new" => job'[t] = job[t]
  BY <1>2 DEF Moves
<1>5. \A r \in Requests : status'[r] # "none" <=> HasRow(r)
  BY <1>1 DEF Closes, HasRow, Called
<1>6. \A r \in Requests : left'[r] = left[r] \/ left'[r] = 0
  BY <1>2 DEF Takes
<1> QED BY <1>3, <1>4, <1>5, <1>6

\* What is not submitted has not traded or it has only just arrived.
LEMMA SubmittedIs ==
  ASSUME KeyInv
  PROVE  \A r \in submitted : r \in Requests /\ pc[r] \in {"committing", "done"}
BY DEF KeyInv, Shaped, RowFollows

LEMMA AsideEngaged ==
  ASSUME KeyInv, Typed, Engaged, Targeted, NEW t \in Requests, Aside(t)
  PROVE  Engaged'
<1>1. AsideKeeps
  BY AsideIs
<1>2. /\ \A r \in Requests : pc[r] # "new" => pc'[r] # "new" /\ job'[r] = job[r]
      /\ \A r \in Requests : pc'[r] = "committing" <=> pc[r] = "committing"
      /\ \A r \in Requests : pc[r] = "done" => pc'[r] = "done"
      /\ \A r \in Requests : status'[r] # "none" <=> HasRow(r)
      /\ \A r \in Requests : left'[r] = left[r] \/ left'[r] = 0
  BY AsideJobs
<1>3. \A r \in Requests \ submitted : Untouched(r)'
  BY <1>1, <1>2 DEF Engaged, Untouched, AsideKeeps
<1>4. pegged' \subseteq {r \in submitted' : Peg(r)'}
  BY <1>1, <1>2, SubmittedIs DEF Engaged, AsideKeeps, Peg
<1>5. \A u \in Requests : pc'[u] # "committing" => got'[u] = Nothing
  BY <1>1, <1>2 DEF Engaged, AsideKeeps
<1>6. \A r \in Requests : ~HasRow(r)' => filled'[r] = 0 /\ executed'[r] = 0 /\ spent'[r] = 0
  BY <1>1, <1>2 DEF Engaged, AsideKeeps, HasRow
<1>7. reopened' \subseteq {r \in Requests : pc'[r] = "done"}
  BY <1>1, <1>2 DEF Engaged, AsideKeeps
<1>8. \A r \in Requests : pc'[r] # "new" /\ Peg(r)' => missed'[r] = 0 /\ got'[r][r] = 0
  <2>1. \A r \in Requests : pc[r] = "new" => missed[r] = 0 /\ got[r][r] = 0
    BY SubmittedIs DEF Engaged, Untouched
  <2> QED BY <1>1, <1>2, <2>1 DEF Engaged, AsideKeeps, Peg
<1>9. feed'.at = "idle" => feed'.got = Nothing
  BY <1>1 DEF Engaged, AsideKeeps
<1>10. submitted' = submitted
  BY <1>1 DEF AsideKeeps
<1> QED BY <1>10, <1>3, <1>4, <1>5, <1>6, <1>7, <1>8, <1>9 DEF Engaged

LEMMA TradeEngaged ==
  ASSUME KeyInv, Typed, Engaged, NEW t \in Requests, Trade(t)
  PROVE  Engaged'
<1>1. /\ pc[t] = "locking" /\ pc' = [pc EXCEPT ![t] = "committing"]
      /\ submitted' = submitted \cup {t} /\ TradeKeepsMost
  BY TradeIs
<1>2. PICK took \in Nat, g \in Amounts, w \in Sums : TradeOf(t, took, g, w)
  BY TradeIs
<1>3. /\ pc'[t] = "committing" /\ got'[t] = g
      /\ \A r \in Requests \ {t} : pc'[r] = pc[r] /\ got'[r] = got[r]
  BY <1>1, <1>2 DEF TradeOf, Typed, KeyInv, Shaped
<1>4. Calls(t, g, left') /\ Taken(t, took, g[t], left'[t]) /\ left' \in Amounts
  BY <1>2 DEF TradeOf
<1>5. pegged' \subseteq pegged \cup {r \in {t} : Peg(r)}
  BY <1>2 DEF TradeOf
<1>6. ASSUME NEW r \in Requests \ submitted'
      PROVE  Untouched(r)'
  <2>1. r # t /\ r \in Requests \ submitted
    BY <1>1
  <2>2. left[r] = 0 /\ r \notin pegged /\ g[r] \in Nat
    BY <2>1 DEF Engaged, Untouched, Amounts
  <2>3. left'[r] = 0 /\ g[r] = 0
    BY <1>4, <2>1, <2>2 DEF Calls
  <2>4. \A u \in Requests : got'[u][r] = 0
    BY <1>3, <2>1, <2>3 DEF Engaged, Untouched
  <2> QED BY <1>1, <2>1, <2>3, <2>4 DEF Engaged, Untouched, TradeKeepsMost
<1>7. pegged' \subseteq {r \in submitted' : Peg(r)'}
  BY <1>1, <1>5 DEF Engaged, TradeKeepsMost, Peg
<1>8. \A u \in Requests : pc'[u] # "committing" => got'[u] = Nothing
  BY <1>3 DEF Engaged
<1>9. reopened' \subseteq {r \in Requests : pc'[r] = "done"}
  BY <1>1, <1>3 DEF Engaged, TradeKeepsMost
<1>10. \A r \in Requests : pc'[r] # "new" /\ Peg(r)' => missed'[r] = 0 /\ got'[r][r] = 0
  BY <1>1, <1>3, <1>4 DEF Engaged, TradeKeepsMost, Peg, Taken
<1>11. /\ \A r \in Requests : ~HasRow(r)' => filled'[r] = 0 /\ executed'[r] = 0 /\ spent'[r] = 0
       /\ feed'.at = "idle" => feed'.got = Nothing
  BY <1>1 DEF Engaged, TradeKeepsMost, HasRow
<1> QED BY <1>6, <1>7, <1>8, <1>9, <1>10, <1>11 DEF Engaged

\* Orders that have no row after fills had none, and got nothing.
RowsKept(rows) ==
  \A r \in Requests : status'[r] = "none" =>
    /\ ~HasRow(r) /\ r \notin rows
    /\ filled'[r] = filled[r] /\ executed'[r] = executed[r] /\ spent'[r] = spent[r]

LEMMA RowsFilledKept ==
  ASSUME NEW g, NEW w, NEW values, NEW rows, RowsFilled(g, w, values, rows)
  PROVE  RowsKept(rows)
<1> SUFFICES ASSUME NEW r \in Requests, status'[r] = "none"
             PROVE  /\ ~HasRow(r) /\ r \notin rows
                    /\ filled'[r] = filled[r] /\ executed'[r] = executed[r] /\ spent'[r] = spent[r]
  BY DEF RowsKept
<1>1. ExecutedOf(r, g, w, rows) /\ FilledOf(r, g, values, rows) /\ LabelOf(r, g, values, rows)
  BY DEF RowsFilled
<1>2. FilledStatus(r, Raised(r, g[r], values)) # "none"
  BY DEF FilledStatus
<1>3. status'[r] = status[r] /\ r \notin rows \ Rows
  BY <1>1, <1>2 DEF LabelOf
<1>4. ~HasRow(r) /\ r \notin rows
  BY <1>3 DEF HasRow, Rows
<1> QED BY <1>1, <1>4 DEF ExecutedOf, FilledOf, Touched

\* A trade that ends.
LEMMA EndsEngaged ==
  ASSUME KeyInv, Typed, Engaged, NEW t \in Requests, Ends(t),
         \A r \in Requests : status'[r] = "none" => /\ ~HasRow(r) /\ filled'[r] = filled[r]
                                                    /\ executed'[r] = executed[r] /\ spent'[r] = spent[r],
         reopened' \subseteq reopened \cup {r \in Requests : HasRow(r)},
         \A r \in Requests \ {t} : missed'[r] = missed[r],
         missed'[t] = missed[t] \/ (Peg(t) => missed'[t] = 0)
  PROVE  Engaged'
<1>1. /\ pc[t] = "committing" /\ pc'[t] = "done" /\ got'[t] = Nothing
      /\ \A r \in Requests \ {t} : pc'[r] = pc[r] /\ got'[r] = got[r]
      /\ UNCHANGED <<left, pegged, job, feed, submitted>>
  BY DEF Ends, Typed, KeyInv, Shaped
<1>2. t \in submitted
  BY <1>1 DEF KeyInv, LockHeld
<1>3. \A r \in Requests \ submitted : Untouched(r)'
  BY <1>1, <1>2, NothingIs DEF Engaged, Untouched
<1>4. pegged' \subseteq {r \in submitted' : Peg(r)'}
  BY <1>1 DEF Engaged, Peg
<1>5. \A u \in Requests : pc'[u] # "committing" => got'[u] = Nothing
  BY <1>1 DEF Engaged
<1>6. \A r \in Requests : ~HasRow(r)' => filled'[r] = 0 /\ executed'[r] = 0 /\ spent'[r] = 0
  BY DEF Engaged, HasRow
<1>7. reopened' \subseteq {r \in Requests : pc'[r] = "done"}
  BY <1>1 DEF Engaged, KeyInv, RowsOwned
<1>8. \A r \in Requests : pc'[r] # "new" /\ Peg(r)' => missed'[r] = 0 /\ got'[r][r] = 0
  BY <1>1, NothingIs DEF Engaged, Peg
<1>9. feed'.at = "idle" => feed'.got = Nothing
  BY <1>1 DEF Engaged
<1> QED BY <1>1, <1>3, <1>4, <1>5, <1>6, <1>7, <1>8, <1>9 DEF Engaged

LEMMA WroteEngaged ==
  ASSUME KeyInv, Typed, Engaged, NEW t \in Requests, Wrote(t)
  PROVE  Engaged'
<1>1. Ends(t) /\ NewRow(t, Written(t))
  BY WroteIs
<1>2. /\ RowsFilled(got[t], owed[t], seen[t], Written(t))
      /\ reopened' = reopened \cup {r \in Touched(got[t], Written(t)) : status[r] \in Closed}
      /\ got[t] \in Amounts /\ seen[t] \in Snapshots
  BY WroteFills
<1>3. RowsKept(Written(t))
  BY <1>2, RowsFilledKept
<1>4. reopened' \subseteq reopened \cup {r \in Requests : HasRow(r)}
  BY <1>1, <1>2 DEF Touched, NewRow, HasRow, Closed
<1>5. \A r \in Requests : FilledOf(r, got[t], seen[t], Written(t))
  BY <1>2 DEF RowsFilled
<1>6. \A r \in Requests \ {t} : missed'[r] = missed[r]
  BY <1>1, <1>5 DEF FilledOf, NewRow
<1>7. missed'[t] = got[t][t] - seen[t].filled[t]
  BY <1>1, <1>5 DEF FilledOf, NewRow
<1>8. Peg(t) => missed'[t] = 0
  <2>1. pc[t] = "committing"
    BY <1>1 DEF Ends
  <2>2. seen[t].filled[t] <= got[t][t] /\ seen[t].filled[t] \in Nat
    BY <1>2, <2>1 DEF Typed, Snapshots, Amounts
  <2>3. Peg(t) => got[t][t] = 0
    BY <2>1 DEF Engaged
  <2> QED BY <1>7, <2>2, <2>3
<1> HIDE DEF Ends
<1> QED BY <1>1, <1>3, <1>4, <1>6, <1>8, EndsEngaged DEF RowsKept

LEMMA DroppedEngaged ==
  ASSUME KeyInv, Typed, Engaged, NEW t \in Requests, Dropped(t)
  PROVE  Engaged'
<1>1. Ends(t) /\ UNCHANGED <<filled, status, executed, spent, reopened, missed>>
  BY DroppedIs
<1> QED BY <1>1, EndsEngaged DEF HasRow

LEMMA DeleteEngaged ==
  ASSUME KeyInv, Typed, Engaged, NEW t \in Requests, DeleteCommit(t)
  PROVE  Engaged'
<1>1. DeleteOf(t) /\ Gone(job[t].account)
  BY DeleteIs
<1>2. /\ pc[t] = "deleting" /\ pc'[t] = "done" /\ \A r \in Requests \ {t} : pc'[r] = pc[r]
      /\ UNCHANGED <<left, pegged, job, got, feed, submitted, reopened, missed>>
  BY <1>1 DEF DeleteOf, KeyInv, Shaped
<1>3. \A r \in Requests : ~HasRow(r)' => filled'[r] = 0 /\ executed'[r] = 0 /\ spent'[r] = 0
  BY <1>1 DEF Gone, Engaged, HasRow
<1>4. /\ \A r \in Requests \ submitted : Untouched(r)'
      /\ pegged' \subseteq {r \in submitted' : Peg(r)'}
  BY <1>2 DEF Engaged, Untouched, Peg
<1>5. /\ \A u \in Requests : pc'[u] # "committing" => got'[u] = Nothing
      /\ feed'.at = "idle" => feed'.got = Nothing
      /\ reopened' \subseteq {r \in Requests : pc'[r] = "done"}
      /\ \A r \in Requests : pc'[r] # "new" /\ Peg(r)' => missed'[r] = 0 /\ got'[r][r] = 0
  BY <1>2 DEF Engaged, Peg
<1> QED BY <1>2, <1>3, <1>4, <1>5 DEF Engaged

\* Steps of the feed.
LEMMA FeedEngaged ==
  ASSUME Engaged, UNCHANGED <<pegged, pc, job, got, submitted>>,
         \A r \in Requests \ submitted :
           left'[r] = 0 /\ feed'.got[r] = 0 /\ missed'[r] = missed[r],
         \A r \in Requests : Peg(r) => missed'[r] = missed[r],
         feed'.at = "idle" => feed'.got = Nothing,
         \A r \in Requests : status'[r] = "none" => /\ ~HasRow(r) /\ filled'[r] = filled[r]
                                                    /\ executed'[r] = executed[r] /\ spent'[r] = spent[r],
         reopened' \subseteq {r \in Requests : pc[r] = "done"}
  PROVE  Engaged'
BY DEF Engaged, Untouched, Peg, HasRow

LEMMA FeedSubmitEngaged ==
  ASSUME KeyInv, Typed, Engaged, FeedSubmit
  PROVE  Engaged'
<1>1. FeedKeepsMost /\ left' \in Amounts
  BY FeedSubmitIs
<1>2. PICK g \in Amounts, w \in Sums :
        /\ feed' = [NoFeed EXCEPT !.at = "filled", !.got = g, !.owed = w]
        /\ Calls(NoOne, g, left')
  BY FeedSubmitIs
<1>3. feed'.at # "idle" /\ feed'.got = g
  BY <1>2 DEF NoFeed
<1>4. ASSUME NEW r \in Requests \ submitted PROVE left'[r] = 0 /\ g[r] = 0
  <2>1. left[r] = 0 /\ r \notin pegged /\ g[r] \in Nat /\ r \in Requests \ {NoOne}
    BY RequestsAssumption DEF Engaged, Untouched, Amounts
  <2> QED BY <1>2, <2>1 DEF Calls
<1>5. reopened' \subseteq {r \in Requests : pc[r] = "done"}
  BY <1>1 DEF FeedKeepsMost, Engaged
<1> QED BY <1>1, <1>3, <1>4, <1>5, FeedEngaged DEF FeedKeepsMost, HasRow

LEMMA FeedReadEngaged ==
  ASSUME KeyInv, Typed, Engaged, FeedRead
  PROVE  Engaged'
<1>1. /\ feed' = [feed EXCEPT !.at = "applying", !.seen = Values]
      /\ FeedKeepsMost /\ UNCHANGED <<left, feeds>>
  BY FeedReadIs
<1>2. feed'.at # "idle" /\ feed'.got = feed.got
  BY <1>1 DEF Typed, Feeds
<1>3. \A r \in Requests \ submitted : left'[r] = 0 /\ feed'.got[r] = 0
  BY <1>1, <1>2 DEF Engaged, Untouched
<1>4. reopened' \subseteq {r \in Requests : pc[r] = "done"}
  BY <1>1 DEF FeedKeepsMost, Engaged
<1> QED BY <1>1, <1>2, <1>3, <1>4, FeedEngaged DEF FeedKeepsMost, HasRow

LEMMA FeedCommitEngaged ==
  ASSUME KeyInv, Typed, Engaged, FeedCommit
  PROVE  Engaged'
<1>1. /\ FeedEnds /\ RowsFilled(feed.got, feed.owed, feed.seen, Rows)
      /\ reopened' = reopened \cup {r \in Touched(feed.got, Rows) : status[r] \in Closed}
  BY FeedCommitIs
<1>2. RowsKept(Rows)
  BY <1>1, RowsFilledKept
<1>3. \A r \in Requests : missed'[r] = missed[r]
  BY <1>1 DEF RowsFilled, FilledOf
<1>4. reopened' \subseteq {r \in Requests : pc[r] = "done"}
  BY <1>1 DEF Engaged, Touched, Rows, KeyInv, RowsOwned, HasRow
<1>5. feed'.got = Nothing
  BY <1>1 DEF FeedEnds, NoFeed
<1>6. \A r \in Requests \ submitted : left'[r] = 0 /\ feed'.got[r] = 0
  BY <1>1, <1>5, NothingIs DEF Engaged, Untouched, FeedEnds
<1> QED BY <1>1, <1>2, <1>3, <1>4, <1>5, <1>6, FeedEngaged DEF FeedEnds, RowsKept

LEMMA FeedFailsEngaged ==
  ASSUME KeyInv, Typed, Engaged, FeedFails
  PROVE  Engaged'
<1>1. FeedEnds /\ UNCHANGED <<filled, status, executed, spent, reopened, missed>>
  BY FeedFailsIs
<1>2. feed'.got = Nothing
  BY <1>1 DEF FeedEnds, NoFeed
<1>3. \A r \in Requests \ submitted : left'[r] = 0 /\ feed'.got[r] = 0
  BY <1>1, <1>2, NothingIs DEF Engaged, Untouched, FeedEnds
<1>4. reopened' \subseteq {r \in Requests : pc[r] = "done"}
  BY <1>1 DEF Engaged
<1> QED BY <1>1, <1>2, <1>3, <1>4, FeedEngaged DEF FeedEnds, HasRow

LEMMA RestartEngaged ==
  ASSUME KeyInv, Typed, Engaged, Restart
  PROVE  Engaged'
<1>1. RestartOf
  BY RestartIs
<1>2. feed'.got = Nothing
  BY <1>1 DEF RestartOf, NoFeed
<1>3. \A r \in Requests : pc'[r] = (IF pc[r] = "new" THEN "new" ELSE "done")
  BY <1>1 DEF RestartOf
<1>4. \A u \in Requests : got'[u] = Nothing
  BY <1>1 DEF RestartOf
<1>5. \A r \in Requests \ submitted : Untouched(r)'
  BY <1>1, <1>2, <1>4, NothingIs DEF RestartOf, Engaged, Untouched
<1>6. \A r \in Requests : ~HasRow(r)' => filled'[r] = 0 /\ executed'[r] = 0 /\ spent'[r] = 0
  BY <1>1 DEF RestartOf, Engaged, HasRow
<1>7. reopened' \subseteq {r \in Requests : pc'[r] = "done"}
  BY <1>1, <1>3 DEF RestartOf, Engaged
<1>8. \A r \in Requests : pc'[r] # "new" /\ Peg(r)' => missed'[r] = 0 /\ got'[r][r] = 0
  BY <1>1, <1>3, <1>4, NothingIs DEF RestartOf, Engaged, Peg
<1>9. pegged' = {} /\ submitted' = submitted
  BY <1>1 DEF RestartOf
<1> QED BY <1>2, <1>4, <1>5, <1>6, <1>7, <1>8, <1>9 DEF Engaged

LEMMA InitEngaged == Init => Engaged
<1> SUFFICES ASSUME Init PROVE Engaged
  OBVIOUS
<1>1. /\ left = Nothing /\ missed = Nothing /\ got = [r \in Requests |-> Nothing]
      /\ filled = Nothing /\ executed = Nothing /\ spent = Nothing
      /\ pegged = {} /\ reopened = {} /\ feed = NoFeed
      /\ pc = [r \in Requests |-> "new"]
  BY DEF Init
<1>2. feed.got = Nothing
  BY <1>1 DEF NoFeed
<1> HIDE DEF Init
<1>3. \A r \in Requests : Untouched(r)
  BY <1>1, <1>2, NothingIs DEF Untouched
<1> QED BY <1>1, <1>2, <1>3, NothingIs DEF Engaged

-----------------------------------------------------------------------------
(* What is to be cancelled.                                                  *)

TargetedOf(t) ==
  \A r \in targets[t] :
    /\ pc[r] = "done" /\ r \in submitted
    /\ pc[t] \in {"cancelling", "closing"} => targets[t] = {r}
    /\ pc[t] = "deleting" => job[r].account = job[t].account

\* Steps that take nobody on the way to a cancel.
LEMMA TargetedStays ==
  ASSUME Typed, Targeted, UNCHANGED <<targets, job>>, submitted \subseteq submitted',
         \A u \in Requests : /\ pc'[u] = pc[u] \/ pc'[u] \notin {"cancelling", "closing", "deleting"}
                             /\ pc[u] = "done" => pc'[u] = "done"
  PROVE  Targeted'
BY DEF Typed, Targeted

LEMMA AsideTargeted ==
  ASSUME KeyInv, Typed, Engaged, Targeted, NEW t \in Requests, Aside(t)
  PROVE  Targeted'
<1>0. PICK label \in Labels : Moves(t, label)
  BY AsideIs
<1>1. /\ UNCHANGED submitted
      /\ \A u \in Requests : u # t => pc'[u] = pc[u] /\ job'[u] = job[u] /\ targets'[u] = targets[u]
      /\ pc[t] \notin {"committing", "done"}
      /\ job'[t] = job[t] \/ pc[t] = "new"
  BY <1>0, AsideIs DEF Moves, AsideKeeps, KeyInv, Shaped
<1>2. \A u \in Requests : TargetedOf(u)
  BY DEF Targeted, TargetedOf
<1>3. \A u \in Requests : u # t => TargetedOf(u)'
  <2> SUFFICES ASSUME NEW u \in Requests, u # t, NEW r \in targets'[u]
               PROVE  /\ pc'[r] = "done" /\ r \in submitted'
                      /\ pc'[u] \in {"cancelling", "closing"} => targets'[u] = {r}
                      /\ pc'[u] = "deleting" => job'[r].account = job'[u].account
    BY DEF TargetedOf
  <2>1. r \in targets[u] /\ r \in Requests /\ targets'[u] = targets[u]
    BY <1>1 DEF Typed
  <2>2. pc[r] = "done" /\ r # t
    BY <1>1, <1>2, <2>1 DEF TargetedOf
  <2> QED BY <1>1, <1>2, <2>1, <2>2 DEF TargetedOf
<1>4. TargetedOf(t)'
  <2>1. CASE Arrive(t) \/ PlaceRead(t) \/ Refuse(t) \/ CancelCommit(t) \/ CancelFails(t)
    <3>1. /\ targets' = targets
          /\ \E to \in {"placing", "delete", "cancel", "done", "locking"} : pc' = [pc EXCEPT ![t] = to]
      BY <2>1 DEF Arrive, PlaceRead, Refuse, CancelCommit, CancelFails, Goto
    <3>2. pc'[t] \notin {"cancelling", "closing", "deleting"}
      BY <3>1 DEF KeyInv, Shaped
    <3>3. \A r \in targets[t] : r \in Requests /\ r # t
      BY <1>1, <1>2 DEF TargetedOf, Typed
    <3> QED BY <1>1, <1>2, <3>1, <3>2, <3>3 DEF TargetedOf
  <2>2. CASE CancelRead(t)
    <3>1. PICK r \in Requests :
            IF r \in OpenOrders(job[t].account)
            THEN pc' = [pc EXCEPT ![t] = "cancelling"] /\ targets' = [targets EXCEPT ![t] = {r}]
            ELSE pc' = [pc EXCEPT ![t] = "done"] /\ targets' = targets
      BY <2>2 DEF CancelRead, Goto
    <3>2. CASE r \in OpenOrders(job[t].account)
      <4>1. pc[r] = "done" /\ r \in submitted
        BY <3>2 DEF OpenOrders, Open, KeyInv, RowsOwned, HasRow
      <4>2. targets'[t] = {r} /\ pc'[t] = "cancelling" /\ pc'[r] = "done"
        BY <1>1, <3>1, <3>2, <4>1 DEF KeyInv, Shaped, Typed
      <4> QED BY <1>1, <4>1, <4>2 DEF TargetedOf
    <3>3. CASE r \notin OpenOrders(job[t].account)
      <4>1. pc'[t] = "done" /\ targets'[t] = targets[t]
        BY <3>1, <3>3 DEF KeyInv, Shaped
      <4>2. \A q \in targets[t] : q \in Requests /\ q # t
        BY <1>1, <1>2 DEF TargetedOf, Typed
      <4> QED BY <1>1, <1>2, <4>1, <4>2 DEF TargetedOf
    <3> QED BY <3>2, <3>3
  <2>3. CASE EngineCancel(t)
    <3>1. /\ pc[t] = "cancelling" /\ UNCHANGED <<targets, job>>
          /\ \E to \in {"closing", "done"} : pc' = [pc EXCEPT ![t] = to]
      BY <2>3 DEF EngineCancel, Goto
    <3>2. pc'[t] \in {"closing", "done"}
      BY <3>1 DEF KeyInv, Shaped
    <3>3. \A r \in targets[t] : r \in Requests /\ r # t
      BY <1>1, <1>2 DEF TargetedOf, Typed
    <3> QED BY <1>1, <1>2, <3>1, <3>2, <3>3 DEF TargetedOf
  <2>4. CASE DeleteRead(t)
    <3>1. /\ pc[t] = "delete" /\ job' = job
          /\ \/ /\ pc' = [pc EXCEPT ![t] = "deleting"]
                /\ targets' = [targets EXCEPT ![t] = OpenOrders(job[t].account)]
             \/ pc' = [pc EXCEPT ![t] = "done"] /\ targets' = targets
      BY <2>4 DEF DeleteRead, Goto
    <3>2. CASE targets' = targets /\ pc' = [pc EXCEPT ![t] = "done"]
      <4>1. pc'[t] = "done"
        BY <3>2 DEF KeyInv, Shaped
      <4>2. \A r \in targets[t] : r \in Requests /\ r # t
        BY <1>1, <1>2 DEF TargetedOf, Typed
      <4> QED BY <1>1, <1>2, <3>2, <4>1, <4>2 DEF TargetedOf
    <3>3. CASE /\ pc' = [pc EXCEPT ![t] = "deleting"]
               /\ targets' = [targets EXCEPT ![t] = OpenOrders(job[t].account)]
      <4>1. targets'[t] = OpenOrders(job[t].account) /\ pc'[t] = "deleting"
        BY <3>3 DEF KeyInv, Shaped, Typed
      <4>2. \A r \in OpenOrders(job[t].account) :
              /\ r \in Requests /\ pc[r] = "done" /\ r \in submitted
              /\ job[r].account = job[t].account
        BY DEF OpenOrders, OrdersOf, Open, KeyInv, RowsOwned, HasRow
      <4>3. \A r \in OpenOrders(job[t].account) : r # t /\ pc'[r] = "done"
        BY <1>1, <4>2
      <4> QED BY <1>1, <3>1, <4>1, <4>2, <4>3 DEF TargetedOf
    <3> QED BY <3>1, <3>2, <3>3
  <2>5. CASE DeleteCancel(t)
    <3>1. /\ pc[t] = "deleting" /\ UNCHANGED <<pc, job>>
          /\ \E r \in targets[t] : targets' = [targets EXCEPT ![t] = @ \ {r}]
      BY <2>5 DEF DeleteCancel
    <3>2. targets'[t] \subseteq targets[t]
      BY <3>1 DEF Typed
    <3> QED BY <1>1, <1>2, <3>1, <3>2 DEF TargetedOf
  <2> QED BY <2>1, <2>2, <2>3, <2>4, <2>5 DEF Aside
<1> QED BY <1>3, <1>4 DEF Targeted, TargetedOf

\* A request that has read, traded or ended, or a step of the feed.
LEMMA OthersTargeted ==
  ASSUME KeyInv, Typed, Targeted,
         \/ \E t \in Requests : Trade(t) \/ Wrote(t) \/ Dropped(t) \/ DeleteCommit(t)
         \/ FeedSubmit \/ FeedRead \/ FeedCommit \/ FeedFails \/ Restart
  PROVE  Targeted'
<1>1. CASE \E t \in Requests : Trade(t) \/ Wrote(t) \/ Dropped(t) \/ DeleteCommit(t)
  <2>1. PICK t \in Requests : Trade(t) \/ Wrote(t) \/ Dropped(t) \/ DeleteCommit(t)
    BY <1>1
  <2>2. /\ UNCHANGED <<targets, job>> /\ submitted \subseteq submitted'
        /\ pc[t] # "done"
        /\ \E label \in {"committing", "done"} : pc' = [pc EXCEPT ![t] = label]
    BY <2>1 DEF Trade, Wrote, Dropped, PlaceFails, PlaceCommit, DeleteCommit, End, Goto, history
  <2>3. \A u \in Requests : /\ pc'[u] = pc[u] \/ pc'[u] \notin {"cancelling", "closing", "deleting"}
                            /\ pc[u] = "done" => pc'[u] = "done"
    BY <2>2 DEF KeyInv, Shaped
  <2> QED BY <2>2, <2>3, TargetedStays
<1>2. CASE FeedSubmit \/ FeedRead \/ FeedCommit \/ FeedFails
  <2>1. UNCHANGED <<targets, job, pc, submitted>>
    BY <1>2 DEF FeedSubmit, FeedRead, FeedCommit, FeedFails, sessions, history
  <2> QED BY <2>1, TargetedStays
<1>3. CASE Restart
  <2>1. /\ UNCHANGED <<targets, job, submitted>>
        /\ pc' = [t \in Requests |-> IF pc[t] = "new" THEN "new" ELSE "done"]
    BY <1>3 DEF Restart
  <2>2. \A u \in Requests : /\ pc'[u] = pc[u] \/ pc'[u] \notin {"cancelling", "closing", "deleting"}
                            /\ pc[u] = "done" => pc'[u] = "done"
    BY <2>1
  <2> QED BY <2>1, <2>2, TargetedStays
<1> QED BY <1>1, <1>2, <1>3

LEMMA InitGrounded == Init => Grounded
<1>1. Init => Targeted
  BY DEF Init, Targeted
<1> QED BY <1>1, InitKeyInv, InitTyped, InitEngaged DEF Grounded

LEMMA StepGrounded == Grounded /\ [Next]_vars => Grounded'
<1> SUFFICES ASSUME Grounded, [Next]_vars PROVE Grounded'
  OBVIOUS
<1>0. KeyInv /\ Typed /\ Engaged /\ Targeted /\ KeyInv'
  BY StepKeepsKeyInv DEF Grounded
<1>1. ASSUME NEW t \in Requests, Aside(t) PROVE Grounded'
  BY <1>0, <1>1, AsideTyped, AsideEngaged, AsideTargeted DEF Grounded
<1>2. ASSUME NEW t \in Requests, Trade(t) PROVE Grounded'
  BY <1>0, <1>2, TradeTyped, TradeEngaged, OthersTargeted DEF Grounded
<1>3. ASSUME NEW t \in Requests, Wrote(t) PROVE Grounded'
  BY <1>0, <1>3, WroteTyped, WroteEngaged, OthersTargeted DEF Grounded
<1>4. ASSUME NEW t \in Requests, Dropped(t) PROVE Grounded'
  BY <1>0, <1>4, DroppedTyped, DroppedEngaged, OthersTargeted DEF Grounded
<1>5. ASSUME NEW t \in Requests, DeleteCommit(t) PROVE Grounded'
  BY <1>0, <1>5, DeleteTyped, DeleteEngaged, OthersTargeted DEF Grounded
<1>6. CASE FeedSubmit
  BY <1>0, <1>6, FeedSubmitTyped, FeedSubmitEngaged, OthersTargeted DEF Grounded
<1>7. CASE FeedRead
  BY <1>0, <1>7, FeedReadTyped, FeedReadEngaged, OthersTargeted DEF Grounded
<1>8. CASE FeedCommit
  BY <1>0, <1>8, FeedCommitTyped, FeedCommitEngaged, OthersTargeted DEF Grounded
<1>9. CASE FeedFails
  BY <1>0, <1>9, FeedFailsTyped, FeedFailsEngaged, OthersTargeted DEF Grounded
<1>10. CASE Restart
  BY <1>0, <1>10, RestartTyped, RestartEngaged, OthersTargeted DEF Grounded
<1>11. CASE UNCHANGED vars
  <2>1. Typed'
    BY <1>0, <1>11 DEF Typed, vars, core, database, ledger, sessions, history, trail
  <2>2. Engaged'
    BY <1>0, <1>11 DEF Engaged, Untouched, Peg, HasRow, vars, core, database, ledger, sessions, history, trail
  <2>3. Targeted'
    BY <1>0, <1>11 DEF Targeted, vars, sessions, history
  <2> QED BY <1>0, <2>1, <2>2, <2>3 DEF Grounded
<1> QED BY <1>1, <1>2, <1>3, <1>4, <1>5, <1>6, <1>7, <1>8, <1>9, <1>10, <1>11, StepIs

-----------------------------------------------------------------------------
(* The lock, and what there is of an order.                                  *)

LEMMA NotCommitting ==
  ASSUME KeyInv, lock = NoOne
  PROVE  \A r \in Requests : pc[r] # "committing"
BY RequestsAssumption DEF KeyInv, LockHeld

LEMMA OnlyCommitting ==
  ASSUME KeyInv, NEW t \in Requests, pc[t] = "committing"
  PROVE  lock = t /\ lock # NoOne /\ \A r \in Requests : pc[r] = "committing" => r = t
BY RequestsAssumption DEF KeyInv, LockHeld

LEMMA StepLocked ==
  ASSUME Grounded, Locked, [Next]_vars
  PROVE  Locked'
<1> USE DEF Grounded
<1>1. ASSUME NEW t \in Requests, Aside(t) PROVE Locked'
  BY <1>1, AsideIs, AsideJobs DEF AsideKeeps, Locked
<1>2. ASSUME NEW t \in Requests, Trade(t) PROVE Locked'
  <2>1. /\ lock = NoOne /\ lock' = t /\ pc' = [pc EXCEPT ![t] = "committing"] /\ t \notin submitted
        /\ feed' = feed
    BY <1>2, TradeIs DEF TradeKeepsMost
  <2>2. \A r \in Requests : pc'[r] = "committing" => r = t
    BY <2>1, NotCommitting DEF KeyInv, Shaped
  <2>3. feed.got[t] = 0
    BY <2>1 DEF Engaged, Untouched
  <2> QED BY <2>1, <2>2, <2>3 DEF Locked
<1>3. ASSUME NEW t \in Requests, Ends(t) PROVE Locked'
  <2>1. lock' = NoOne /\ feed' = feed /\ \A r \in Requests : pc'[r] = "committing" => pc[r] = "committing"
    BY <1>3 DEF Ends, KeyInv, Shaped
  <2> QED BY <2>1 DEF Locked
<1>4. ASSUME NEW t \in Requests, DeleteCommit(t) PROVE Locked'
  <2>1. DeleteOf(t)
    BY <1>4, DeleteIs
  <2> QED BY <2>1 DEF Locked, DeleteOf, KeyInv, Shaped
<1>5. CASE FeedSubmit
  <2>1. lock = NoOne /\ FeedKeepsMost
    BY <1>5, FeedSubmitIs
  <2> QED BY <2>1, NotCommitting DEF Locked, FeedKeepsMost
<1>6. CASE FeedRead
  <2>1. /\ feed' = [feed EXCEPT !.at = "applying", !.seen = Values] /\ FeedKeepsMost
    BY <1>6, FeedReadIs
  <2>2. feed'.got = feed.got
    BY <2>1 DEF Typed, Feeds
  <2> QED BY <2>1, <2>2 DEF Locked, FeedKeepsMost
<1>7. CASE FeedEnds
  BY <1>7, NothingIs DEF FeedEnds, Locked, NoFeed
<1>8. CASE Restart
  <2>1. RestartOf
    BY <1>8, RestartIs
  <2> QED BY <2>1, NothingIs DEF RestartOf, Locked, NoFeed
<1>9. CASE UNCHANGED vars
  BY <1>9 DEF Locked, vars, core, sessions
<1> QED BY <1>1, <1>2, <1>3, <1>4, <1>5, <1>6, <1>7, <1>8, <1>9, StepIs, WroteIs, DroppedIs,
           FeedCommitIs, FeedFailsIs

LEMMA InitLocked == Init => Locked
<1> SUFFICES ASSUME Init PROVE Locked
  OBVIOUS
<1>1. lock = NoOne /\ \A r \in Requests : pc[r] = "new"
  BY DEF Init
<1> QED BY <1>1 DEF Locked

LEMMA TotalIs ==
  ASSUME Typed, Locked, NEW r \in Requests
  PROVE  /\ Due(r) \in Nat /\ Total(r) \in Nat /\ executed[r] \in Nat /\ left[r] \in Nat
         /\ feed.got[r] \in Nat /\ Total(r) = executed[r] + Due(r) + left[r]
         /\ lock = NoOne => Due(r) = feed.got[r]
         /\ lock # NoOne => Due(r) = feed.got[r] + got[lock][r] /\ got[lock][r] \in Nat
<1>1. executed[r] \in Nat /\ left[r] \in Nat /\ feed.got[r] \in Nat
  BY DEF Typed, Amounts, Feeds
<1>2. lock # NoOne => got[lock][r] \in Nat
  BY DEF Locked, Typed, Amounts
<1> QED BY <1>1, <1>2 DEF Due, Total

\* What a step makes of it: no more, or the same.
NoMore(r) == executed'[r] + Due(r)' + left'[r] <= Total(r)
AsMuch(r) == executed'[r] + Due(r)' + left'[r] = Total(r)

LEMMA AsideTotal ==
  ASSUME Grounded, Locked, NEW t \in Requests, Aside(t)
  PROVE  \A r \in Requests : NoMore(r) /\ (left'[r] = left[r] => AsMuch(r))
<1>1. AsideKeeps /\ \A r \in Requests : left'[r] = left[r] \/ left'[r] = 0
  BY AsideIs, AsideJobs DEF Grounded
<1>2. \A r \in Requests : Due(r)' = Due(r)
  BY <1>1 DEF AsideKeeps, Due
<1>3. \A r \in Requests : executed'[r] = executed[r]
  BY <1>1 DEF AsideKeeps
<1> SUFFICES ASSUME NEW r \in Requests
             PROVE  NoMore(r) /\ (left'[r] = left[r] => AsMuch(r))
  OBVIOUS
<1>4. /\ Due(r) \in Nat /\ executed[r] \in Nat /\ left[r] \in Nat
      /\ Total(r) = executed[r] + Due(r) + left[r]
  BY TotalIs DEF Grounded
<1> QED BY <1>1, <1>2, <1>3, <1>4 DEF NoMore, AsMuch

LEMMA TradeTotal ==
  ASSUME Grounded, Locked, NEW t \in Requests, Trade(t)
  PROVE  /\ \A r \in Requests \ {t} : /\ ~Peg(r) => NoMore(r)
                                      /\ Rests(r) => AsMuch(r)
         /\ ~Peg(t) => executed'[t] + Due(t)' + left'[t] <= job[t].quantity
         /\ Rests(t) => executed'[t] + Due(t)' + left'[t] = job[t].quantity
<1>1. /\ pc[t] = "locking" /\ lock = NoOne /\ lock' = t /\ TradeKeepsMost /\ t \notin submitted
  BY TradeIs DEF Grounded
<1>2. PICK took \in Nat, g \in Amounts, w \in Sums : TradeOf(t, took, g, w)
  BY TradeIs DEF Grounded
<1>3. /\ Calls(t, g, left') /\ Taken(t, took, g[t], left'[t])
      /\ left' \in Amounts /\ got'[t] = g
  BY <1>2 DEF TradeOf, Grounded, Typed
<1>4. \A r \in Requests : Due(r)' = feed.got[r] + g[r] /\ executed'[r] = executed[r]
  BY <1>1, <1>3, RequestsAssumption DEF Due, TradeKeepsMost
<1>5. \A r \in Requests : /\ executed[r] \in Nat /\ left[r] \in Nat /\ feed.got[r] \in Nat
                          /\ Total(r) = executed[r] + feed.got[r] + left[r]
                          /\ g[r] \in Nat /\ left'[r] \in Nat
  BY <1>1, <1>3, TotalIs DEF Grounded, Amounts
<1>6. executed[t] = 0 /\ feed.got[t] = 0
  BY <1>1 DEF Grounded, Engaged, Untouched, KeyInv, RowsOwned
<1>7. ASSUME NEW r \in Requests \ {t}
      PROVE  (~Peg(r) => NoMore(r)) /\ (Rests(r) => AsMuch(r))
  <2>1. (~Peg(r) => left'[r] + g[r] <= left[r]) /\ (Rests(r) => left'[r] + g[r] = left[r])
    BY <1>3 DEF Calls
  <2> QED BY <1>4, <1>5, <2>1 DEF NoMore, AsMuch
<1>8. job[t].quantity \in Nat
  BY DEF Grounded, Typed, Job, NoJob
<1>9. /\ ~Peg(t) => g[t] + left'[t] <= job[t].quantity
      /\ Rests(t) => g[t] + left'[t] = job[t].quantity
  BY <1>3 DEF Taken
<1>10. executed'[t] + Due(t)' + left'[t] = g[t] + left'[t]
  BY <1>4, <1>5, <1>6
<1> QED BY <1>7, <1>8, <1>9, <1>10

LEMMA EndsTotal ==
  ASSUME Grounded, Locked, NEW t \in Requests, Ends(t), NEW r \in Requests
  PROVE  /\ executed'[r] = executed[r] => NoMore(r)
         /\ executed'[r] = executed[r] + got[t][r] => AsMuch(r)
         /\ got[t][r] \in Nat /\ executed[r] \in Nat
<1>1. lock = t /\ lock # NoOne /\ lock' = NoOne /\ UNCHANGED <<feed, left>>
  BY OnlyCommitting DEF Ends, Grounded
<1>2. /\ executed[r] \in Nat /\ left[r] \in Nat /\ feed.got[r] \in Nat /\ got[t][r] \in Nat
      /\ Total(r) = executed[r] + (feed.got[r] + got[t][r]) + left[r]
  BY <1>1, TotalIs DEF Grounded
<1>3. Due(r)' = feed.got[r]
  BY <1>1, <1>2 DEF Due
<1> QED BY <1>1, <1>2, <1>3 DEF NoMore, AsMuch

LEMMA WroteTotal ==
  ASSUME Grounded, Locked, NEW t \in Requests, Wrote(t)
  PROVE  \A r \in Requests : HasRow(r) \/ r = t => AsMuch(r)
<1>1. Ends(t) /\ NewRow(t, Written(t))
  BY WroteIs DEF Grounded
<1>2. RowsFilled(got[t], owed[t], seen[t], Written(t)) /\ got[t] \in Amounts
  BY WroteFills DEF Grounded
<1> SUFFICES ASSUME NEW r \in Requests, HasRow(r) \/ r = t
             PROVE  AsMuch(r)
  OBVIOUS
<1>3. got[t][r] \in Nat /\ executed[r] \in Nat
  BY <1>1, EndsTotal
<1>4. got[t][r] > 0 => r \in Touched(got[t], Written(t))
  BY <1>1 DEF NewRow, Touched, HasRow, Rows
<1>5. executed'[r] = executed[r] + got[t][r]
  BY <1>2, <1>3, <1>4 DEF RowsFilled, ExecutedOf, Touched
<1> QED BY <1>1, <1>5, EndsTotal

LEMMA DroppedTotal ==
  ASSUME Grounded, Locked, NEW t \in Requests, Dropped(t)
  PROVE  \A r \in Requests : NoMore(r)
BY DroppedIs, EndsTotal DEF Grounded

LEMMA DeleteTotal ==
  ASSUME Grounded, Locked, NEW t \in Requests, DeleteCommit(t)
  PROVE  \A r \in Requests : r \notin OrdersOf(job[t].account) \/ ~HasRow(r) => AsMuch(r)
<1>1. DeleteOf(t) /\ Gone(job[t].account)
  BY DeleteIs DEF Grounded
<1> SUFFICES ASSUME NEW r \in Requests, r \notin OrdersOf(job[t].account) \/ ~HasRow(r)
             PROVE  AsMuch(r)
  OBVIOUS
<1>2. executed'[r] = executed[r]
  BY <1>1 DEF Gone, Grounded, Engaged
<1>3. Due(r)' = Due(r) /\ left' = left
  BY <1>1 DEF DeleteOf, Due
<1> QED BY <1>2, <1>3 DEF AsMuch, Total

LEMMA FeedSubmitTotal ==
  ASSUME Grounded, Locked, FeedSubmit
  PROVE  \A r \in Requests : /\ ~Peg(r) => NoMore(r)
                             /\ Rests(r) => AsMuch(r)
<1>1. feed.at = "idle" /\ lock = NoOne /\ FeedKeepsMost /\ left' \in Amounts
  BY FeedSubmitIs DEF Grounded
<1>2. PICK g \in Amounts, w \in Sums :
        /\ feed' = [NoFeed EXCEPT !.at = "filled", !.got = g, !.owed = w]
        /\ Calls(NoOne, g, left')
  BY FeedSubmitIs DEF Grounded
<1> SUFFICES ASSUME NEW r \in Requests
             PROVE  /\ ~Peg(r) => NoMore(r)
                    /\ Rests(r) => AsMuch(r)
  OBVIOUS
<1>3. feed.got[r] = 0
  BY <1>1, NothingIs DEF Grounded, Engaged
<1>4. feed'.got = g
  BY <1>2 DEF NoFeed
<1>5. Due(r)' = g[r] /\ g[r] \in Nat /\ left'[r] \in Nat /\ executed'[r] = executed[r]
  BY <1>1, <1>4 DEF Due, FeedKeepsMost, Amounts
<1>6. executed[r] \in Nat /\ left[r] \in Nat /\ Total(r) = executed[r] + left[r]
  BY <1>1, <1>3, TotalIs DEF Grounded
<1>7. (~Peg(r) => left'[r] + g[r] <= left[r]) /\ (Rests(r) => left'[r] + g[r] = left[r])
  BY <1>2, RequestsAssumption DEF Calls
<1> QED BY <1>5, <1>6, <1>7 DEF NoMore, AsMuch

LEMMA FeedReadTotal ==
  ASSUME Grounded, Locked, FeedRead
  PROVE  \A r \in Requests : AsMuch(r)
<1>1. /\ feed' = [feed EXCEPT !.at = "applying", !.seen = Values]
      /\ FeedKeepsMost /\ UNCHANGED <<left, feeds>>
  BY FeedReadIs
<1>2. feed'.got = feed.got
  BY <1>1 DEF Grounded, Typed, Feeds
<1>3. \A r \in Requests : Due(r)' = Due(r)
  BY <1>1, <1>2 DEF Due, FeedKeepsMost
<1> QED BY <1>1, <1>3 DEF AsMuch, Total, FeedKeepsMost

LEMMA FeedEndsTotal ==
  ASSUME Grounded, Locked, FeedEnds, NEW r \in Requests
  PROVE  /\ executed'[r] = executed[r] => NoMore(r)
         /\ executed'[r] = executed[r] + feed.got[r] => AsMuch(r)
         /\ feed.got[r] \in Nat /\ executed[r] \in Nat
<1>1. UNCHANGED <<lock, left, got>> /\ feed'.got[r] = 0
  BY NothingIs DEF FeedEnds, NoFeed
<1>2. /\ executed[r] \in Nat /\ left[r] \in Nat /\ feed.got[r] \in Nat
      /\ Total(r) = executed[r] + Due(r) + left[r]
  BY TotalIs DEF Grounded
<1>3. Due(r) = feed.got[r] + Due(r)' /\ Due(r)' \in Nat
  <2>1. CASE lock = NoOne
    BY <1>1, <1>2, <2>1 DEF Due
  <2>2. CASE lock # NoOne
    <3>1. got[lock][r] \in Nat
      BY <2>2, TotalIs DEF Grounded
    <3> QED BY <1>1, <1>2, <2>2, <3>1 DEF Due
  <2> QED BY <2>1, <2>2
<1> HIDE DEF Due
<1> QED BY <1>1, <1>2, <1>3 DEF NoMore, AsMuch

LEMMA FeedCommitTotal ==
  ASSUME Grounded, Locked, FeedCommit
  PROVE  \A r \in Requests : Active(r) => AsMuch(r)
<1>1. FeedEnds /\ RowsFilled(feed.got, feed.owed, feed.seen, Rows)
  BY FeedCommitIs DEF Grounded
<1> SUFFICES ASSUME NEW r \in Requests, Active(r)
             PROVE  AsMuch(r)
  OBVIOUS
<1>2. feed.got[r] \in Nat /\ executed[r] \in Nat
  BY <1>1, FeedEndsTotal
<1>3. ~HasRow(r) => feed.got[r] = 0
  BY DEF Active, Locked
<1>4. feed.got[r] > 0 => r \in Touched(feed.got, Rows)
  BY <1>3 DEF Touched, Rows, HasRow
<1>5. executed'[r] = executed[r] + feed.got[r]
  BY <1>1, <1>2, <1>4 DEF RowsFilled, ExecutedOf, Touched
<1> QED BY <1>1, <1>5, FeedEndsTotal

LEMMA FeedFailsTotal ==
  ASSUME Grounded, Locked, FeedFails
  PROVE  \A r \in Requests : NoMore(r)
BY FeedFailsIs, FeedEndsTotal

LEMMA RestartTotal ==
  ASSUME Grounded, Locked, Restart
  PROVE  \A r \in Requests : NoMore(r)
<1>1. RestartOf
  BY RestartIs DEF Grounded
<1> SUFFICES ASSUME NEW r \in Requests PROVE NoMore(r)
  OBVIOUS
<1>2. Due(r)' = 0 /\ left'[r] = 0 /\ executed'[r] = executed[r]
  BY <1>1, NothingIs DEF RestartOf, Due, NoFeed
<1>3. /\ Due(r) \in Nat /\ executed[r] \in Nat /\ left[r] \in Nat
      /\ Total(r) = executed[r] + Due(r) + left[r]
  BY TotalIs DEF Grounded
<1> QED BY <1>2, <1>3 DEF NoMore

-----------------------------------------------------------------------------
(* No order trades more than its quantity.                                   *)

\* Orders that have a row or are about to had one or were about to before.
LEMMA ActiveIs ==
  ASSUME Grounded
  PROVE  /\ \A t \in Requests : Aside(t) => \A r \in Requests : Active(r)' => Active(r)
         /\ \A t \in Requests : Trade(t) => \A r \in Requests \ {t} : Active(r)' => Active(r)
         /\ \A t \in Requests : Wrote(t) => Active(t) /\ \A r \in Requests : Active(r)' => HasRow(r) \/ r = t
         /\ \A t \in Requests : Dropped(t) => \A r \in Requests : Active(r)' => Active(r)
         /\ \A t \in Requests : DeleteCommit(t) => \A r \in Requests : Active(r)' =>
              Active(r) /\ (r \notin OrdersOf(job[t].account) \/ ~HasRow(r))
         /\ FeedCommit => \A r \in Requests : Active(r)' => Active(r)
<1> USE DEF Grounded
<1>1. ASSUME NEW t \in Requests, Aside(t), NEW r \in Requests, Active(r)' PROVE Active(r)
  BY <1>1, AsideJobs DEF Active, HasRow
<1>2. ASSUME NEW t \in Requests, Trade(t), NEW r \in Requests \ {t}, Active(r)' PROVE Active(r)
  <2>1. pc' = [pc EXCEPT ![t] = "committing"] /\ status' = status
    BY <1>2, TradeIs DEF TradeKeepsMost
  <2> QED BY <1>2, <2>1 DEF Active, HasRow, KeyInv, Shaped
<1>3. ASSUME NEW t \in Requests, Wrote(t)
      PROVE  Active(t) /\ \A r \in Requests : Active(r)' => HasRow(r) \/ r = t
  <2>1. Ends(t) /\ NewRow(t, Written(t))
    BY <1>3, WroteIs
  <2>2. RowsFilled(got[t], owed[t], seen[t], Written(t))
    BY <1>3, WroteFills
  <2>3. pc[t] = "committing" /\ \A r \in Requests : pc'[r] # "committing"
    BY <2>1, OnlyCommitting DEF Ends, KeyInv, Shaped
  <2>4. \A r \in Requests : status'[r] # "none" => HasRow(r) \/ r = t
    BY <2>1, <2>2 DEF RowsFilled, LabelOf, Touched, NewRow, HasRow, Rows
  <2> QED BY <2>3, <2>4 DEF Active, HasRow
<1>4. ASSUME NEW t \in Requests, Dropped(t), NEW r \in Requests, Active(r)' PROVE Active(r)
  <2>1. Ends(t) /\ status' = status
    BY <1>4, DroppedIs
  <2> QED BY <1>4, <2>1 DEF Active, HasRow, Ends, KeyInv, Shaped
<1>5. ASSUME NEW t \in Requests, DeleteCommit(t), NEW r \in Requests, Active(r)'
      PROVE  Active(r) /\ (r \notin OrdersOf(job[t].account) \/ ~HasRow(r))
  <2>1. DeleteOf(t) /\ Gone(job[t].account)
    BY <1>5, DeleteIs
  <2>2. pc'[r] = "committing" => pc[r] = "committing"
    BY <2>1 DEF DeleteOf, KeyInv, Shaped
  <2>3. pc[r] = "committing" => ~HasRow(r)
    BY DEF KeyInv, RowsOwned
  <2> QED BY <1>5, <2>1, <2>2, <2>3 DEF Gone, Active, HasRow
<1>6. ASSUME FeedCommit, NEW r \in Requests, Active(r)' PROVE Active(r)
  <2>1. FeedEnds /\ RowsFilled(feed.got, feed.owed, feed.seen, Rows)
    BY <1>6, FeedCommitIs
  <2> QED BY <1>6, <2>1 DEF FeedEnds, RowsFilled, LabelOf, Touched, Active, HasRow, Rows
<1> QED BY <1>1, <1>2, <1>3, <1>4, <1>5, <1>6

LEMMA TotalNext ==
  ASSUME Typed', Locked', NEW r \in Requests
  PROVE  executed'[r] \in Nat /\ left'[r] \in Nat /\ Due(r)' \in Nat
<1>1. executed'[r] \in Nat /\ left'[r] \in Nat /\ feed'.got[r] \in Nat
  BY DEF Typed, Amounts, Feeds
<1>2. lock' # NoOne => got'[lock'][r] \in Nat
  BY DEF Locked, Typed, Amounts
<1> QED BY <1>1, <1>2 DEF Due

\* What there is of an order after a step.
LEMMA BudgetFalls ==
  ASSUME Typed, Locked, Typed', Locked', Budget, NEW t,
         \A r \in Requests \ {t} : Active(r)' =>
           Active(r) /\ job'[r] = job[r] /\ (~Peg(r) => NoMore(r) \/ AsMuch(r)),
         t \in Requests => (~Peg(t)' => executed'[t] + Due(t)' + left'[t] <= job'[t].quantity)
  PROVE  Budget'
<1> SUFFICES ASSUME NEW r \in Requests, Active(r)', ~Peg(r)', r # t
             PROVE  executed'[r] + Due(r)' + left'[r] <= job'[r].quantity
  BY DEF Budget, Total
<1>1. Active(r) /\ job'[r] = job[r] /\ ~Peg(r) /\ (NoMore(r) \/ AsMuch(r))
  BY DEF Peg
<1>2. Total(r) <= job[r].quantity /\ Total(r) \in Nat
  BY <1>1, TotalIs DEF Budget
<1>3. job[r].quantity \in Nat
  BY DEF Typed, Job, NoJob
<1>4. executed'[r] + Due(r)' + left'[r] <= Total(r)
  <2>1. executed'[r] + Due(r)' + left'[r] \in Nat
    BY TotalNext
  <2> QED BY <1>1, <1>2, <2>1 DEF NoMore, AsMuch
<1>5. executed'[r] + Due(r)' + left'[r] \in Nat
  BY TotalNext
<1> DEFINE n == executed'[r] + Due(r)' + left'[r]
<1>6. n \in Nat /\ n <= Total(r)
  BY <1>4, <1>5
<1> HIDE DEF n
<1>7. n <= job[r].quantity
  BY <1>2, <1>3, <1>6
<1> QED BY <1>1, <1>7 DEF n

LEMMA StepBudget ==
  ASSUME Grounded, Locked, Grounded', Locked', Budget, [Next]_vars
  PROVE  Budget'
<1>0. Typed /\ Typed' /\ KeyInv /\ Targeted /\ Engaged
  BY DEF Grounded
<1>1. ASSUME NEW t \in Requests, Aside(t) PROVE Budget'
  <2>1. \A r \in Requests : Active(r)' => Active(r)
    BY <1>1, ActiveIs
  <2>2. \A r \in Requests : pc[r] # "new" => job'[r] = job[r]
    BY <1>0, <1>1, AsideJobs
  <2>3. \A r \in Requests : Active(r) => job'[r] = job[r]
    BY <1>0, <2>2 DEF Active, KeyInv, RowsOwned
  <2>4. \A r \in Requests : NoMore(r)
    BY <1>1, AsideTotal
  <2> QED BY <1>0, <2>1, <2>3, <2>4, BudgetFalls, RequestsAssumption
<1>2. ASSUME NEW t \in Requests, Trade(t) PROVE Budget'
  <2>1. \A r \in Requests \ {t} : Active(r)' => Active(r)
    BY <1>2, ActiveIs
  <2>2. job' = job
    BY <1>0, <1>2, TradeIs DEF TradeKeepsMost
  <2>3. \A r \in Requests \ {t} : ~Peg(r) => NoMore(r)
    BY <1>2, TradeTotal
  <2>4. ~Peg(t) => executed'[t] + Due(t)' + left'[t] <= job[t].quantity
    BY <1>2, TradeTotal
  <2>5. ~Peg(t)' => ~Peg(t)
    BY <2>2 DEF Peg
  <2> QED BY <1>0, <2>1, <2>2, <2>3, <2>4, <2>5, BudgetFalls
<1>3. ASSUME UNCHANGED job,
             \A r \in Requests : Active(r)' => Active(r) /\ (~Peg(r) => NoMore(r) \/ AsMuch(r))
      PROVE  Budget'
  BY <1>0, <1>3, BudgetFalls, RequestsAssumption
<1>4. ASSUME NEW t \in Requests, Wrote(t) PROVE Budget'
  <2>1. Ends(t)
    BY <1>0, <1>4, WroteIs
  <2>2. \A r \in Requests : Active(r)' => Active(r) /\ AsMuch(r)
    BY <1>4, ActiveIs, WroteTotal DEF Active
  <2> QED BY <1>3, <2>1, <2>2 DEF Ends
<1>5. ASSUME NEW t \in Requests, Dropped(t) PROVE Budget'
  <2>1. Ends(t)
    BY <1>0, <1>5, DroppedIs
  <2>2. \A r \in Requests : Active(r)' => Active(r) /\ NoMore(r)
    BY <1>5, ActiveIs, DroppedTotal
  <2> QED BY <1>3, <2>1, <2>2 DEF Ends
<1>6. ASSUME NEW t \in Requests, DeleteCommit(t) PROVE Budget'
  <2>1. DeleteOf(t)
    BY <1>0, <1>6, DeleteIs
  <2>2. \A r \in Requests : Active(r)' => Active(r) /\ AsMuch(r)
    BY <1>6, ActiveIs, DeleteTotal
  <2> QED BY <1>3, <2>1, <2>2 DEF DeleteOf
<1>7. CASE FeedSubmit
  <2>1. FeedKeepsMost /\ \A r \in Requests : ~Peg(r) => NoMore(r)
    BY <1>0, <1>7, FeedSubmitIs, FeedSubmitTotal
  <2> QED BY <1>3, <2>1 DEF FeedKeepsMost, Active, HasRow
<1>8. CASE FeedRead
  <2>1. FeedKeepsMost /\ \A r \in Requests : AsMuch(r)
    BY <1>8, FeedReadIs, FeedReadTotal
  <2> QED BY <1>3, <2>1 DEF FeedKeepsMost, Active, HasRow
<1>9. CASE FeedCommit
  <2>1. FeedEnds
    BY <1>0, <1>9, FeedCommitIs
  <2>2. \A r \in Requests : Active(r)' => Active(r) /\ AsMuch(r)
    BY <1>9, ActiveIs, FeedCommitTotal
  <2> QED BY <1>3, <2>1, <2>2 DEF FeedEnds
<1>10. CASE FeedFails
  <2>1. FeedEnds /\ UNCHANGED status /\ \A r \in Requests : NoMore(r)
    BY <1>10, FeedFailsIs, FeedFailsTotal
  <2> QED BY <1>3, <2>1 DEF FeedEnds, Active, HasRow
<1>11. CASE Restart
  <2>1. RestartOf /\ \A r \in Requests : NoMore(r)
    BY <1>0, <1>11, RestartIs, RestartTotal
  <2>2. \A r \in Requests : Active(r)' => Active(r)
    BY <2>1 DEF RestartOf, Active, HasRow
  <2> QED BY <1>3, <2>1, <2>2 DEF RestartOf
<1>12. CASE UNCHANGED vars
  BY <1>12 DEF Budget, Active, HasRow, Total, Due, Peg, vars, core, database, ledger, sessions
<1> QED BY <1>1, <1>2, <1>4, <1>5, <1>6, <1>7, <1>8, <1>9, <1>10, <1>11, <1>12, StepIs

LEMMA InitBudget == Init => Budget
<1> SUFFICES ASSUME Init PROVE Budget
  OBVIOUS
<1>1. \A r \in Requests : pc[r] = "new" /\ status[r] = "none"
  BY DEF Init
<1> QED BY <1>1 DEF Budget, Active, HasRow

-----------------------------------------------------------------------------
(* No row is ahead of its executions.                                        *)

LEMMA BehindFrom ==
  ASSUME Typed, Typed', Behind,
         \A r \in Requests : Known(r)' =>
           /\ Known(r) /\ executed[r] <= executed'[r]
           /\ filled'[r] <= executed'[r] /\ filled'[r] <= job'[r].quantity
           /\ job'[r] = job[r] \/ executed[r] = 0,
         feed'.at = "applying" => \/ feed.at = "applying" /\ feed'.seen = feed.seen
                                  \/ feed'.seen.filled = filled',
         \A t \in Requests : pc'[t] = "committing" => pc[t] = "committing" /\ seen'[t] = seen[t]
  PROVE  Behind'
<1> SUFFICES ASSUME NEW r \in Requests, Known(r)'
             PROVE  BehindOf(r)'
  BY DEF Behind
<1>1. /\ BehindOf(r) /\ executed[r] <= executed'[r]
      /\ filled'[r] <= executed'[r] /\ filled'[r] <= job'[r].quantity
      /\ job'[r] = job[r] \/ executed[r] = 0
  BY DEF Behind
<1>2. /\ executed[r] \in Nat /\ executed'[r] \in Nat
      /\ job[r].quantity \in Nat /\ job'[r].quantity \in Nat
  BY DEF Typed, Amounts, Job, NoJob
<1>3. ASSUME NEW n \in Nat, Fits(n, r) PROVE n <= executed'[r] /\ n <= job'[r].quantity
  BY <1>1, <1>2, <1>3 DEF Fits
<1>4. feed.at = "applying" => feed.seen.filled[r] \in Nat
  BY DEF Typed, Snapshots, Amounts
<1>5. feed'.at = "applying" => feed'.seen.filled[r] <= executed'[r] /\ feed'.seen.filled[r] <= job'[r].quantity
  BY <1>1, <1>3, <1>4 DEF BehindOf
<1>6. ASSUME NEW t \in Requests \ {r}, pc'[t] = "committing"
      PROVE  seen'[t].filled[r] <= executed'[r] /\ seen'[t].filled[r] <= job'[r].quantity
  <2>1. pc[t] = "committing" /\ seen'[t] = seen[t]
    BY <1>6
  <2>2. seen[t].filled[r] \in Nat
    BY <2>1 DEF Typed, Snapshots, Amounts
  <2> QED BY <1>1, <1>3, <2>1, <2>2 DEF BehindOf
<1> QED BY <1>1, <1>5, <1>6 DEF BehindOf, Fits

LEMMA AsideBehind ==
  ASSUME Grounded, Grounded', Behind, NEW t \in Requests, Aside(t)
  PROVE  Behind'
<1>0. Typed /\ Typed' /\ KeyInv /\ Targeted /\ Engaged
  BY DEF Grounded
<1>1. AsideKeeps
  BY <1>0, AsideIs
<1>2. /\ \A r \in Requests : Active(r)' => Active(r)
      /\ \A r \in Requests : pc[r] # "new" => job'[r] = job[r]
      /\ \A r \in Requests : pc'[r] = "committing" => pc[r] = "committing"
  BY <1>0, AsideJobs, ActiveIs
<1>3. \E label \in Labels : Moves(t, label)
  BY <1>0, AsideIs
<1>4. \A r \in Requests : pc'[r] = "committing" => seen'[r] = seen[r]
  BY <1>2, <1>3 DEF Moves
<1>5. ASSUME NEW r \in Requests, Known(r)'
      PROVE  /\ Known(r) /\ executed[r] <= executed'[r]
             /\ filled'[r] <= executed'[r] /\ filled'[r] <= job'[r].quantity
             /\ job'[r] = job[r] \/ executed[r] = 0
  <2>1. Known(r) /\ executed'[r] = executed[r] /\ filled'[r] = filled[r]
    BY <1>1, <1>2, <1>5 DEF Known, AsideKeeps
  <2>2. filled[r] <= executed[r] /\ filled[r] <= job[r].quantity
    BY <2>1 DEF Behind, BehindOf, Fits
  <2>3. executed[r] \in Nat /\ filled[r] \in Nat /\ job'[r].quantity \in Nat
    BY <1>0 DEF Typed, Amounts, Job, NoJob
  <2>4. CASE pc[r] # "new"
    BY <1>2, <2>1, <2>2, <2>3, <2>4
  <2>5. CASE pc[r] = "new"
    <3>1. executed[r] = 0
      BY <1>0, <2>5 DEF KeyInv, RowsOwned, Engaged
    <3> QED BY <2>1, <2>2, <2>3, <3>1
  <2> QED BY <2>4, <2>5
<1>6. feed' = feed
  BY <1>1 DEF AsideKeeps
<1> QED BY <1>0, <1>2, <1>4, <1>5, <1>6, BehindFrom

LEMMA TradeBehind ==
  ASSUME Grounded, Grounded', Behind, NEW t \in Requests, Trade(t)
  PROVE  Behind'
<1>0. Typed /\ KeyInv /\ Engaged
  BY DEF Grounded
<1>1. /\ pc[t] = "locking" /\ lock = NoOne /\ pc' = [pc EXCEPT ![t] = "committing"]
      /\ t \notin submitted /\ submitted' = submitted \cup {t} /\ TradeKeepsMost
  BY <1>0, TradeIs
<1>2. PICK took \in Nat, g \in Amounts, w \in Sums : TradeOf(t, took, g, w)
  BY <1>0, TradeIs
<1>3. seen' = [seen EXCEPT ![t] = SeenAfter(t, took)]
  BY <1>2 DEF TradeOf
<1>4. \A r \in Requests : pc'[r] = "committing" => r = t
  BY <1>0, <1>1, NotCommitting DEF KeyInv, Shaped
<1>5. \A r \in Requests \ {t} : seen'[t].filled[r] = filled[r]
  <2>1. seen'[t] = SeenAfter(t, took)
    BY <1>0, <1>3 DEF Typed
  <2>2. \A r \in Requests \ {t} : SeenAfter(t, took).filled[r] = filled[r]
    BY DEF SeenAfter, Values
  <2> QED BY <2>1, <2>2
<1> SUFFICES ASSUME NEW r \in Requests, Known(r)'
             PROVE  BehindOf(r)'
  BY DEF Behind
<1>6. UNCHANGED <<filled, executed, job, feed, status>>
  BY <1>1 DEF TradeKeepsMost
<1>7. Known(r)
  BY <1>1, <1>4, <1>6 DEF Known, Active, HasRow
<1>8. BehindOf(r)
  BY <1>7 DEF Behind
<1> QED BY <1>4, <1>5, <1>6, <1>8 DEF BehindOf, Fits

\* What a commit adds to a row keeps it behind.
LEMMA FilledBehind ==
  ASSUME Typed, NEW g \in Amounts, NEW w, NEW values \in Snapshots, NEW rows \in SUBSET Requests,
         RowsFilled(g, w, values, rows), NEW r \in Requests, HasRow(r),
         Fits(filled[r], r), Fits(values.filled[r], r)
  PROVE  executed[r] <= executed'[r] /\ filled'[r] <= executed'[r] /\ filled'[r] <= job[r].quantity
<1>1. /\ executed[r] \in Nat /\ filled[r] \in Nat /\ g[r] \in Nat
      /\ values.filled[r] \in Nat /\ job[r].quantity \in Nat
  BY DEF Typed, Amounts, Snapshots, Job, NoJob
<1>2. r \in Rows /\ r \notin rows \ Rows
  BY DEF HasRow, Rows
<1>3. Raised(r, g[r], values) = IF values.filled[r] + g[r] < job[r].quantity
                               THEN values.filled[r] + g[r] ELSE job[r].quantity
  BY <1>1, <1>2, RaisedIs DEF Fits
<1>4. ExecutedOf(r, g, w, rows) /\ FilledOf(r, g, values, rows)
  BY DEF RowsFilled
<1>5. CASE r \in Touched(g, rows)
  <2>1. executed'[r] = executed[r] + g[r]
    BY <1>4, <1>5 DEF ExecutedOf
  <2>2. filled'[r] = Raised(r, g[r], values) \/ filled'[r] = filled[r]
    BY <1>2, <1>4, <1>5 DEF FilledOf
  <2> QED BY <1>1, <1>3, <2>1, <2>2 DEF Fits
<1>6. CASE r \notin Touched(g, rows)
  BY <1>1, <1>2, <1>4, <1>6 DEF ExecutedOf, FilledOf, Fits
<1> QED BY <1>5, <1>6

\* Rows that are not written stay as they are.
LEMMA UnwrittenIs ==
  ASSUME NEW g, NEW w, NEW values, NEW rows, RowsFilled(g, w, values, rows), NEW r \in Requests, r \notin rows
  PROVE  executed'[r] = executed[r] /\ filled'[r] = filled[r] /\ missed'[r] = missed[r]
         /\ spent'[r] = spent[r]
BY DEF RowsFilled, ExecutedOf, FilledOf, Touched

LEMMA WroteBehind ==
  ASSUME Grounded, Grounded', Locked, Budget, Behind, NEW t \in Requests, Wrote(t)
  PROVE  Behind'
<1>0. Typed /\ Typed' /\ KeyInv /\ Engaged
  BY DEF Grounded
<1>1. Ends(t) /\ NewRow(t, Written(t)) /\ ~HasRow(t)
  BY <1>0, WroteIs
<1>2. /\ RowsFilled(got[t], owed[t], seen[t], Written(t))
      /\ got[t] \in Amounts /\ owed[t] \in Sums /\ seen[t] \in Snapshots
  BY <1>0, WroteFills
<1>3. /\ pc[t] = "committing" /\ UNCHANGED <<job, feed, submitted>>
      /\ \A r \in Requests : pc'[r] # "committing"
  BY <1>0, <1>1, OnlyCommitting DEF Ends, KeyInv, Shaped
<1>4. ASSUME NEW r \in Requests, Known(r)'
      PROVE  Known(r) /\ executed[r] <= executed'[r]
             /\ filled'[r] <= executed'[r] /\ filled'[r] <= job[r].quantity
  <2>1. Known(r)
    BY <1>3, <1>4, ActiveIs DEF Known, Active
  <2>2. BehindOf(r)
    BY <2>1 DEF Behind
  <2>3. executed[r] \in Nat /\ filled[r] \in Nat
    BY <1>0 DEF Typed, Amounts
  <2>4. CASE HasRow(r)
    <3>1. Fits(filled[r], r) /\ Fits(seen[t].filled[r], r)
      BY <1>1, <1>3, <2>2, <2>4 DEF BehindOf
    <3>2. Written(t) \in SUBSET Requests
      BY <1>1 DEF NewRow
    <3> QED BY <1>0, <1>2, <2>1, <2>4, <3>1, <3>2, FilledBehind
  <2>5. CASE r = t
    <3>1. executed[t] = 0
      BY <1>0, <1>1 DEF Engaged
    <3>2. FilledOf(t, got[t], seen[t], Written(t)) /\ ExecutedOf(t, got[t], owed[t], Written(t))
      BY <1>2 DEF RowsFilled
    <3>3. t \in Written(t) \ Rows
      BY <1>1 DEF NewRow
    <3>4. filled'[t] = seen[t].filled[t]
      BY <3>2, <3>3 DEF FilledOf
    <3>5. seen[t].filled[t] <= got[t][t] /\ seen[t].filled[t] \in Nat /\ got[t][t] \in Nat
      BY <1>0, <1>2, <1>3 DEF Typed, Snapshots, Amounts
    <3>6. executed'[t] = got[t][t]
      BY <3>1, <3>2, <3>3, <3>5 DEF ExecutedOf, Touched
    <3>7. got[t][t] <= job[t].quantity
      <4>1. job[t].quantity \in Nat
        BY <1>0 DEF Typed, Job, NoJob
      <4>2. CASE Peg(t)
        BY <1>0, <1>3, <4>1, <4>2 DEF Engaged
      <4>3. CASE ~Peg(t)
        <5>1. Total(t) <= job[t].quantity
          BY <1>3, <4>3 DEF Budget, Active
        <5>2. Total(t) = executed[t] + (feed.got[t] + got[t][t]) + left[t]
          BY <1>0, <1>3, TotalIs, OnlyCommitting
        <5>3. executed[t] \in Nat /\ feed.got[t] \in Nat /\ left[t] \in Nat
          BY <1>0, TotalIs
        <5> QED BY <3>5, <4>1, <5>1, <5>2, <5>3
      <4> QED BY <4>2, <4>3
    <3>8. job[t].quantity \in Nat
      BY <1>0 DEF Typed, Job, NoJob
    <3> QED BY <2>1, <2>5, <3>1, <3>4, <3>5, <3>6, <3>7, <3>8
  <2>6. CASE ~HasRow(r) /\ r # t
    <3>1. r \notin Written(t)
      BY <1>1, <2>6 DEF NewRow, HasRow, Rows
    <3>2. executed'[r] = executed[r] /\ filled'[r] = filled[r]
      BY <1>2, <3>1, UnwrittenIs
    <3> QED BY <2>1, <2>2, <2>3, <3>2 DEF BehindOf, Fits
  <2> QED BY <2>4, <2>5, <2>6
<1> QED BY <1>0, <1>3, <1>4, BehindFrom

\* Steps that leave executions and rows as they are.
LEMMA BehindStays ==
  ASSUME Typed, Typed', Behind, UNCHANGED <<executed, filled, job>>,
         \A r \in Requests : Known(r)' => Known(r),
         feed'.at = "applying" => \/ feed.at = "applying" /\ feed'.seen = feed.seen
                                  \/ feed'.seen.filled = filled,
         \A t \in Requests : pc'[t] = "committing" => pc[t] = "committing" /\ seen'[t] = seen[t]
  PROVE  Behind'
<1>1. \A r \in Requests : executed[r] <= executed'[r]
  BY DEF Typed, Amounts
<1>2. \A r \in Requests : Known(r) => filled'[r] <= executed'[r] /\ filled'[r] <= job'[r].quantity
  BY DEF Behind, BehindOf, Fits
<1> QED BY <1>1, <1>2, BehindFrom

LEMMA DeleteBehind ==
  ASSUME Grounded, Grounded', Behind, NEW t \in Requests, DeleteCommit(t)
  PROVE  Behind'
<1>0. Typed /\ Typed' /\ KeyInv /\ Engaged
  BY DEF Grounded
<1>1. DeleteOf(t) /\ Gone(job[t].account)
  BY <1>0, DeleteIs
<1>2. /\ UNCHANGED <<job, feed, seen, submitted>>
      /\ \A r \in Requests : pc'[r] = "committing" => pc[r] = "committing"
  BY <1>0, <1>1 DEF DeleteOf, KeyInv, Shaped
<1>3. ASSUME NEW r \in Requests, Known(r)'
      PROVE  /\ Known(r) /\ executed[r] <= executed'[r]
             /\ filled'[r] <= executed'[r] /\ filled'[r] <= job'[r].quantity
  <2>1. Known(r)
    BY <1>2, <1>3, ActiveIs DEF Known
  <2>2. r \notin OrdersOf(job[t].account) \/ ~HasRow(r)
    BY <1>0, <1>2, <1>3, ActiveIs DEF Known, KeyInv, RowsOwned
  <2>3. executed'[r] = executed[r] /\ filled'[r] = filled[r]
    BY <1>0, <1>1, <2>2 DEF Gone, Engaged
  <2>4. executed[r] \in Nat
    BY <1>0 DEF Typed, Amounts
  <2> QED BY <1>2, <2>1, <2>3, <2>4 DEF Behind, BehindOf, Fits
<1> QED BY <1>0, <1>2, <1>3, BehindFrom

LEMMA FeedCommitBehind ==
  ASSUME Grounded, Grounded', Behind, FeedCommit
  PROVE  Behind'
<1>0. Typed /\ Typed' /\ KeyInv
  BY DEF Grounded
<1>1. /\ FeedEnds /\ RowsFilled(feed.got, feed.owed, feed.seen, Rows)
      /\ feed.got \in Amounts /\ feed.owed \in Sums /\ feed.seen \in Snapshots
  BY <1>0, FeedCommitIs
<1>2. feed.at = "applying" /\ feed'.at = "idle" /\ UNCHANGED <<job, seen, pc, submitted>>
  BY <1>1 DEF FeedEnds, NoFeed
<1>3. ASSUME NEW r \in Requests, Known(r)'
      PROVE  /\ Known(r) /\ executed[r] <= executed'[r]
             /\ filled'[r] <= executed'[r] /\ filled'[r] <= job'[r].quantity
  <2>1. Known(r)
    BY <1>2, <1>3, ActiveIs DEF Known
  <2>2. BehindOf(r)
    BY <2>1 DEF Behind
  <2>3. executed[r] \in Nat
    BY <1>0 DEF Typed, Amounts
  <2>4. CASE HasRow(r)
    <3>1. Fits(filled[r], r) /\ Fits(feed.seen.filled[r], r)
      BY <1>2, <2>2 DEF BehindOf
    <3>2. Rows \in SUBSET Requests
      BY DEF Rows
    <3> QED BY <1>0, <1>1, <1>2, <2>1, <2>4, <3>1, <3>2, FilledBehind
  <2>5. CASE ~HasRow(r)
    <3>1. r \notin Rows
      BY <2>5 DEF HasRow, Rows
    <3>2. executed'[r] = executed[r] /\ filled'[r] = filled[r]
      BY <1>1, <3>1, UnwrittenIs
    <3> QED BY <1>2, <2>1, <2>2, <2>3, <3>2 DEF BehindOf, Fits
  <2> QED BY <2>4, <2>5
<1> QED BY <1>0, <1>2, <1>3, BehindFrom

LEMMA StepBehind ==
  ASSUME Grounded, Grounded', Locked, Budget, Behind, [Next]_vars
  PROVE  Behind'
<1>0. Typed /\ Typed' /\ KeyInv /\ Engaged
  BY DEF Grounded
<1>1. ASSUME NEW t \in Requests, Aside(t) PROVE Behind'
  BY <1>1, AsideBehind
<1>2. ASSUME NEW t \in Requests, Trade(t) PROVE Behind'
  BY <1>2, TradeBehind
<1>3. ASSUME NEW t \in Requests, Wrote(t) PROVE Behind'
  BY <1>3, WroteBehind
<1>4. ASSUME NEW t \in Requests, Dropped(t) PROVE Behind'
  <2>1. Ends(t) /\ UNCHANGED <<filled, status, executed>>
    BY <1>0, <1>4, DroppedIs
  <2>2. /\ UNCHANGED <<job, feed, submitted>>
        /\ \A r \in Requests : pc'[r] # "committing"
    BY <1>0, <2>1, OnlyCommitting DEF Ends, KeyInv, Shaped
  <2>3. \A r \in Requests : Known(r)' => Known(r)
    BY <2>1, <2>2 DEF Known, Active, HasRow
  <2> QED BY <1>0, <2>1, <2>2, <2>3, BehindStays
<1>5. ASSUME NEW t \in Requests, DeleteCommit(t) PROVE Behind'
  BY <1>5, DeleteBehind
<1>6. CASE FeedSubmit
  <2>1. FeedKeepsMost
    BY <1>0, <1>6, FeedSubmitIs
  <2>2. feed'.at = "filled"
    BY <1>0, <1>6, FeedSubmitIs DEF NoFeed
  <2>3. \A r \in Requests : Known(r)' => Known(r)
    BY <2>1 DEF Known, Active, HasRow, FeedKeepsMost
  <2> QED BY <1>0, <2>1, <2>2, <2>3, BehindStays DEF FeedKeepsMost
<1>7. CASE FeedRead
  <2>1. FeedKeepsMost /\ feed' = [feed EXCEPT !.at = "applying", !.seen = Values]
    BY <1>7, FeedReadIs
  <2>2. feed'.seen.filled = filled
    BY <1>0, <2>1 DEF Typed, Feeds, Values
  <2>3. \A r \in Requests : Known(r)' => Known(r)
    BY <2>1 DEF Known, Active, HasRow, FeedKeepsMost
  <2> QED BY <1>0, <2>1, <2>2, <2>3, BehindStays DEF FeedKeepsMost
<1>8. CASE FeedCommit
  BY <1>8, FeedCommitBehind
<1>9. CASE FeedFails
  <2>1. FeedEnds /\ UNCHANGED <<filled, status, executed>>
    BY <1>9, FeedFailsIs
  <2>2. feed'.at = "idle" /\ UNCHANGED <<job, seen, pc, submitted>>
    BY <2>1 DEF FeedEnds, NoFeed
  <2>3. \A r \in Requests : Known(r)' => Known(r)
    BY <2>1, <2>2 DEF Known, Active, HasRow
  <2> QED BY <1>0, <2>1, <2>2, <2>3, BehindStays
<1>10. CASE Restart
  <2>1. RestartOf
    BY <1>0, <1>10, RestartIs
  <2>2. feed'.at = "idle" /\ \A r \in Requests : pc'[r] # "committing"
    BY <2>1 DEF RestartOf, NoFeed
  <2>3. \A r \in Requests : Known(r)' => Known(r)
    BY <2>1, <2>2 DEF Known, Active, HasRow, RestartOf
  <2> QED BY <1>0, <2>1, <2>2, <2>3, BehindStays DEF RestartOf
<1>11. CASE UNCHANGED vars
  BY <1>11 DEF Behind, BehindOf, Fits, Known, Active, HasRow, vars, core, database, ledger, sessions, history
<1> QED BY <1>1, <1>2, <1>3, <1>4, <1>5, <1>6, <1>7, <1>8, <1>9, <1>10, <1>11, StepIs

LEMMA InitBehind == Init => Behind
<1> SUFFICES ASSUME Init PROVE Behind
  OBVIOUS
<1>1. /\ filled = Nothing /\ executed = Nothing /\ feed = NoFeed
      /\ \A r \in Requests : pc[r] = "new" /\ job[r] = NoJob
  BY DEF Init
<1> HIDE DEF Init
<1>2. feed.at # "applying"
  BY <1>1 DEF NoFeed
<1> QED BY <1>1, <1>2, NothingIs DEF Behind, BehindOf, Fits, NoJob

-----------------------------------------------------------------------------
(* Who is about to commit has seen what is there.                            *)

\* What a session has seen stays true while nothing it has read changes.
LEMMA SeenStays ==
  ASSUME NEW values, Seen(values), UNCHANGED <<position, cash>>,
         exists' \subseteq exists, stale \subseteq stale',
         \A r \in Requests : HasRow(r)' => HasRow(r) /\ filled'[r] = filled[r]
  PROVE  /\ \A a \in exists' : /\ values.position[a] = position'[a]
                               /\ a \in stale' \/ values.cash[a] = cash'[a]
         /\ \A r \in Requests : HasRow(r)' => values.filled[r] = filled'[r]
BY DEF Seen

LEMMA CurrentStays ==
  ASSUME Current, UNCHANGED <<position, cash>>, raced => raced',
         exists' \subseteq exists, stale \subseteq stale',
         \A r \in Requests : HasRow(r)' => HasRow(r) /\ filled'[r] = filled[r],
         feed'.at = "applying" => feed.at = "applying" /\ feed'.seen = feed.seen,
         \A t \in Requests : pc'[t] = "committing" => pc[t] = "committing" /\ seen'[t] = seen[t]
  PROVE  Current'
<1> SUFFICES ASSUME ~raced'
             PROVE  /\ \A t \in Requests : pc'[t] = "committing" => Seen(seen[t])'
                    /\ feed'.at = "applying" => Seen(feed.seen)'
  BY DEF Current
<1>1. /\ \A t \in Requests : pc[t] = "committing" => Seen(seen[t])
      /\ feed.at = "applying" => Seen(feed.seen)
  BY DEF Current
<1>2. ASSUME NEW t \in Requests, pc'[t] = "committing" PROVE Seen(seen[t])'
  <2> DEFINE v == seen[t]
  <2>1. Seen(v) /\ seen'[t] = seen[t]
    BY <1>1, <1>2
  <2>2. /\ \A a \in exists' : /\ v.position[a] = position'[a]
                              /\ a \in stale' \/ v.cash[a] = cash'[a]
        /\ \A r \in Requests : HasRow(r)' => v.filled[r] = filled'[r]
    <3> HIDE DEF v
    <3> QED BY <2>1, SeenStays
  <2> QED BY <2>1, <2>2 DEF Seen
<1>3. ASSUME feed'.at = "applying" PROVE Seen(feed.seen)'
  <2> DEFINE v == feed.seen
  <2>1. Seen(v) /\ feed'.seen = feed.seen
    BY <1>1, <1>3
  <2>2. /\ \A a \in exists' : /\ v.position[a] = position'[a]
                              /\ a \in stale' \/ v.cash[a] = cash'[a]
        /\ \A r \in Requests : HasRow(r)' => v.filled[r] = filled'[r]
    <3> HIDE DEF v
    <3> QED BY <2>1, SeenStays
  <2> QED BY <2>1, <2>2 DEF Seen
<1> QED BY <1>2, <1>3

LEMMA TradeCurrent ==
  ASSUME Grounded, Current, NEW t \in Requests, Trade(t)
  PROVE  Current'
<1>0. Typed /\ KeyInv /\ Engaged
  BY DEF Grounded
<1>1. /\ pc[t] = "locking" /\ lock = NoOne /\ pc' = [pc EXCEPT ![t] = "committing"] /\ TradeKeepsMost
      /\ stale' = IF seen[t].cash[job[t].account] = cash[job[t].account] THEN stale
                  ELSE stale \cup {job[t].account}
      /\ t \notin submitted
  BY <1>0, TradeIs
<1>2. PICK took \in Nat, g \in Amounts, w \in Sums : TradeOf(t, took, g, w)
  BY <1>0, TradeIs
<1>3. seen'[t] = SeenAfter(t, took)
  BY <1>0, <1>2 DEF TradeOf, Typed
<1>4. \A r \in Requests : pc'[r] = "committing" => r = t
  BY <1>0, <1>1, NotCommitting DEF KeyInv, Shaped
<1>5. UNCHANGED <<raced, feed, position, cash, exists, status, filled>>
  BY <1>1 DEF TradeKeepsMost
<1>6. ~HasRow(t)
  BY <1>0, <1>1 DEF KeyInv, RowsOwned
<1> SUFFICES ASSUME ~raced
             PROVE  /\ \A r \in Requests : pc'[r] = "committing" => Seen(seen[r])'
                    /\ feed'.at = "applying" => Seen(feed.seen)'
  BY <1>5 DEF Current
<1>7. Seen(seen[t])'
  <2> DEFINE a == job[t].account
  <2>1. /\ SeenAfter(t, took).position = position
        /\ \A r \in Requests \ {t} : SeenAfter(t, took).filled[r] = filled[r]
        /\ \A b \in Accounts : SeenAfter(t, took).cash[b] = IF b = a THEN seen[t].cash[a] ELSE cash[b]
    <3>1. a \in Accounts /\ cash \in [Accounts -> Int]
      BY <1>0, <1>1 DEF Typed, Job
    <3> QED BY <3>1 DEF SeenAfter, Values
  <2>2. exists \subseteq Accounts
    BY <1>0 DEF Typed
  <2>3. seen[t].cash[a] = cash[a] \/ a \in stale'
    BY <1>1
  <2>4. stale \subseteq stale'
    BY <1>1
  <2> HIDE DEF a
  <2>5. \A b \in exists : b \in stale' \/ SeenAfter(t, took).cash[b] = cash[b]
    BY <2>1, <2>2, <2>3
  <2> QED BY <1>3, <1>5, <1>6, <2>1, <2>5 DEF Seen, HasRow
<1>8. feed'.at = "applying" => Seen(feed.seen)'
  <2> SUFFICES ASSUME feed.at = "applying" PROVE Seen(feed.seen)'
    BY <1>5
  <2>1. Seen(feed.seen) /\ stale \subseteq stale'
    BY <1>1 DEF Current
  <2> QED BY <1>5, <2>1 DEF Seen, HasRow
<1> QED BY <1>4, <1>7, <1>8

LEMMA StepCurrent ==
  ASSUME Grounded, Current, [Next]_vars
  PROVE  Current'
<1>0. Typed /\ KeyInv /\ Engaged /\ Targeted
  BY DEF Grounded
<1>1. ASSUME NEW t \in Requests, Aside(t) PROVE Current'
  <2>1. AsideKeeps /\ \E label \in Labels : Moves(t, label)
    BY <1>0, <1>1, AsideIs
  <2>2. /\ \A r \in Requests : pc'[r] = "committing" => pc[r] = "committing"
        /\ \A r \in Requests : HasRow(r)' => HasRow(r)
    BY <1>0, <1>1, AsideJobs DEF HasRow
  <2>3. \A r \in Requests : pc'[r] = "committing" => seen'[r] = seen[r]
    BY <2>1, <2>2 DEF Moves
  <2> QED BY <2>1, <2>2, <2>3, CurrentStays DEF AsideKeeps
<1>2. ASSUME NEW t \in Requests, Trade(t) PROVE Current'
  BY <1>2, TradeCurrent
<1>3. ASSUME NEW t \in Requests, Wrote(t) PROVE Current'
  <2>1. Ends(t) /\ raced' = (raced \/ feed.at = "applying")
    BY <1>0, <1>3, WroteIs
  <2>2. feed' = feed /\ \A r \in Requests : pc'[r] # "committing"
    BY <1>0, <2>1, OnlyCommitting DEF Ends, KeyInv, Shaped
  <2> QED BY <2>1, <2>2 DEF Current
<1>4. ASSUME NEW t \in Requests, Dropped(t) PROVE Current'
  <2>1. Ends(t) /\ UNCHANGED <<filled, status, position, cash, raced>>
    BY <1>0, <1>4, DroppedIs
  <2>2. UNCHANGED <<feed, exists, stale>> /\ \A r \in Requests : pc'[r] # "committing"
    BY <1>0, <2>1, OnlyCommitting DEF Ends, KeyInv, Shaped
  <2> QED BY <2>1, <2>2, CurrentStays DEF HasRow
<1>5. ASSUME NEW t \in Requests, DeleteCommit(t) PROVE Current'
  <2>1. DeleteOf(t) /\ Gone(job[t].account)
    BY <1>0, <1>5, DeleteIs
  <2>2. /\ \A r \in Requests : pc'[r] = "committing" => pc[r] = "committing"
        /\ exists' \subseteq exists
        /\ UNCHANGED <<feed, seen, position, cash, raced, stale>>
    BY <1>0, <2>1 DEF DeleteOf, KeyInv, Shaped
  <2>3. \A r \in Requests : HasRow(r)' => HasRow(r) /\ filled'[r] = filled[r]
    BY <2>1 DEF Gone, HasRow
  <2> QED BY <2>2, <2>3, CurrentStays
<1>6. CASE FeedSubmit
  <2>1. FeedKeepsMost /\ feed'.at = "filled"
    BY <1>0, <1>6, FeedSubmitIs DEF NoFeed
  <2> QED BY <2>1, CurrentStays DEF FeedKeepsMost, HasRow
<1>7. CASE FeedRead
  <2>1. FeedKeepsMost /\ feed' = [feed EXCEPT !.at = "applying", !.seen = Values]
    BY <1>7, FeedReadIs
  <2>2. feed'.seen = Values
    BY <1>0, <2>1 DEF Typed, Feeds
  <2>3. Seen(feed.seen)'
    BY <2>1, <2>2 DEF Seen, Values, FeedKeepsMost
  <2>4. ~raced => \A t \in Requests : pc'[t] = "committing" => Seen(seen[t])'
    BY <2>1 DEF Current, Seen, FeedKeepsMost, HasRow
  <2> QED BY <2>1, <2>3, <2>4 DEF Current, FeedKeepsMost
<1>8. CASE FeedCommit
  <2>1. FeedEnds /\ raced' = (raced \/ lock # NoOne)
    BY <1>0, <1>8, FeedCommitIs
  <2>2. feed'.at = "idle" /\ UNCHANGED <<pc, lock>>
    BY <2>1 DEF FeedEnds, NoFeed
  <2>3. ~raced' => \A t \in Requests : pc'[t] # "committing"
    BY <1>0, <2>1, <2>2, NotCommitting
  <2> QED BY <2>2, <2>3 DEF Current
<1>9. CASE FeedFails
  <2>1. FeedEnds /\ UNCHANGED <<filled, status, position, cash, raced>>
    BY <1>9, FeedFailsIs
  <2>2. feed'.at = "idle" /\ UNCHANGED <<pc, seen, exists, stale>>
    BY <2>1 DEF FeedEnds, NoFeed
  <2> QED BY <2>1, <2>2, CurrentStays DEF HasRow
<1>10. CASE Restart
  <2>1. RestartOf
    BY <1>0, <1>10, RestartIs
  <2>2. feed'.at = "idle" /\ \A r \in Requests : pc'[r] # "committing"
    BY <2>1 DEF RestartOf, NoFeed
  <2> QED BY <2>2 DEF Current
<1>11. CASE UNCHANGED vars
  BY <1>11 DEF Current, Seen, HasRow, vars, core, database, ledger, sessions, history
<1> QED BY <1>1, <1>2, <1>3, <1>4, <1>5, <1>6, <1>7, <1>8, <1>9, <1>10, <1>11, StepIs

LEMMA InitCurrent == Init => Current
<1> SUFFICES ASSUME Init PROVE Current
  OBVIOUS
<1>1. feed.at = "idle" /\ \A r \in Requests : pc[r] = "new"
  BY DEF Init, NoFeed
<1> QED BY <1>1 DEF Current

-----------------------------------------------------------------------------
(* What a row says, and what is there.                                       *)

\* A row says what it said, or is open, or has executed its quantity.
Says(r) ==
  \/ status'[r] = status[r] /\ executed[r] <= executed'[r]
  \/ status'[r] \notin {"filled"} \cup Called
  \/ status'[r] = "filled" /\ job[r].quantity <= executed'[r]

LEMMA StatusStays ==
  ASSUME Typed, Typed', StatusFits, UNCHANGED job,
         \A r \in Requests : ~Peg(r) =>
           /\ Says(r)
           /\ Closing(r)' => Closing(r)
           /\ status'[r] \in Called \/ Closing(r) => (left[r] = 0 => left'[r] = 0)
  PROVE  StatusFits'
<1> SUFFICES ASSUME NEW r \in Requests, ~Peg(r)
             PROVE  /\ status'[r] = "filled" => executed'[r] >= job[r].quantity
                    /\ status'[r] \in Called \/ Closing(r)' => left'[r] = 0
  BY DEF StatusFits, StatusOf, Peg
<1>1. StatusOf(r)
  BY DEF StatusFits
<1>2. executed[r] \in Nat /\ executed'[r] \in Nat /\ job[r].quantity \in Nat
  BY DEF Typed, Amounts, Job, NoJob
<1>3. "filled" \notin Called
  BY DEF Called
<1>4. status'[r] = "filled" => executed'[r] >= job[r].quantity
  BY <1>1, <1>2 DEF Says, StatusOf
<1>5. status'[r] \in Called => status[r] \in Called
  BY <1>3 DEF Says
<1> QED BY <1>1, <1>4, <1>5 DEF StatusOf

LEMMA AsideStatus ==
  ASSUME Grounded, Grounded', StatusFits, NEW t \in Requests, Aside(t)
  PROVE  StatusFits'
<1>0. Typed /\ KeyInv /\ Engaged /\ Targeted
  BY DEF Grounded
<1>1. AsideKeeps /\ Closes(t)
  BY <1>0, AsideIs
<1>2. PICK label \in Labels : Moves(t, label) /\ Takes(t, label)
  BY <1>0, AsideIs
<1>3. /\ \A r \in Requests : pc[r] # "new" => job'[r] = job[r]
      /\ \A r \in Requests : left'[r] = left[r] \/ left'[r] = 0
      /\ \A r \in Requests : status'[r] # "none" <=> HasRow(r)
  BY <1>0, AsideJobs
<1>4. ASSUME NEW u \in Requests, pc'[u] = "closing", NEW r \in targets'[u]
      PROVE  left'[r] = 0 \/ Closing(r)
  <2>1. CASE u # t
    BY <1>2, <1>4, <2>1 DEF Moves, Closing
  <2>2. CASE u = t
    <3>1. label = "closing"
      BY <1>0, <1>2, <1>4, <2>2 DEF Moves, KeyInv, Shaped
    <3> QED BY <1>2, <1>4, <2>2, <3>1 DEF Takes
  <2> QED BY <2>1, <2>2
<1> SUFFICES ASSUME NEW r \in Requests, ~Peg(r)'
             PROVE  /\ status'[r] = "filled" => executed'[r] >= job'[r].quantity
                    /\ status'[r] \in Called \/ Closing(r)' => left'[r] = 0
  BY DEF StatusFits, StatusOf
<1>5. StatusOf(r) /\ executed'[r] = executed[r]
  BY <1>1 DEF StatusFits, AsideKeeps
<1>6. HasRow(r) => pc[r] = "done"
  BY <1>0 DEF KeyInv, RowsOwned
<1>7. Closing(r)' => pc[r] = "done"
  <2>1. Closing(r)' => pc'[r] = "done" /\ r \in submitted'
    BY DEF Closing, Grounded, Targeted
  <2>2. r \in submitted => pc[r] # "new"
    BY <1>0, SubmittedIs
  <2>3. pc[r] = "committing" => pc'[r] # "done"
    BY <1>0, AsideJobs
  <2> QED BY <1>0, <1>1, <2>1, <2>3, SubmittedIs DEF AsideKeeps
<1>8. status'[r] = "filled" => executed'[r] >= job'[r].quantity
  <2>1. status'[r] = "filled" => status[r] = "filled" /\ HasRow(r)
    BY <1>1 DEF Closes, Called, HasRow
  <2> QED BY <1>3, <1>5, <1>6, <2>1 DEF StatusOf, Peg
<1>9. ASSUME status'[r] \in Called \/ Closing(r)'
      PROVE  left'[r] = 0
  <2>1. pc[r] = "done" /\ ~Peg(r)
    BY <1>3, <1>6, <1>7, <1>9 DEF Called, Peg
  <2>2. CASE status'[r] \in Called
    <3>1. status[r] \in Called \/ Closing(r)
      BY <1>1, <2>2 DEF Closes, Closing
    <3> QED BY <1>3, <1>5, <2>1, <3>1 DEF StatusOf
  <2>3. CASE Closing(r)'
    <3>1. left'[r] = 0 \/ Closing(r)
      BY <1>4, <2>3 DEF Closing
    <3> QED BY <1>3, <1>5, <2>1, <3>1 DEF StatusOf
  <2> QED BY <1>9, <2>2, <2>3
<1> QED BY <1>8, <1>9

\* What a commit writes in a row.
LEMMA FillsSay ==
  ASSUME Typed, NEW g \in Amounts, NEW w, NEW values \in Snapshots, NEW rows \in SUBSET Requests,
         RowsFilled(g, w, values, rows), NEW r \in Requests,
         HasRow(r) => Fits(values.filled[r], r),
         r \in rows \ Rows => values.filled[r] <= g[r]
  PROVE  Says(r) /\ (status'[r] \in Called => status[r] \in Called)
<1>1. /\ executed[r] \in Nat /\ g[r] \in Nat
      /\ values.filled[r] \in Nat /\ job[r].quantity \in Nat
  BY DEF Typed, Amounts, Snapshots, Job, NoJob
<1>2. ExecutedOf(r, g, w, rows) /\ LabelOf(r, g, values, rows)
  BY DEF RowsFilled
<1>3. executed[r] <= executed'[r]
  BY <1>1, <1>2 DEF ExecutedOf
<1>4. CASE status'[r] = status[r]
  BY <1>3, <1>4 DEF Says
<1>5. CASE status'[r] # status[r]
  <2> DEFINE n == Raised(r, g[r], values)
  <2>1. /\ r \in Touched(g, rows) \cup (rows \ Rows)
        /\ status'[r] = FilledStatus(r, n)
    BY <1>2, <1>5 DEF LabelOf
  <2>2. n \in Nat
    BY <1>1, RaisedIs
  <2>3. n <= executed'[r]
    <3>1. CASE r \in Rows
      <4>1. n = IF values.filled[r] + g[r] < job[r].quantity THEN values.filled[r] + g[r]
                ELSE job[r].quantity
        BY <1>1, <3>1, RaisedIs DEF Fits, HasRow, Rows
      <4>2. executed'[r] = executed[r] + g[r] /\ values.filled[r] <= executed[r]
        BY <1>2, <2>1, <3>1 DEF ExecutedOf, Fits, HasRow, Rows
      <4> HIDE DEF n
      <4> QED BY <1>1, <4>1, <4>2
    <3>2. CASE r \notin Rows
      <4>1. n = values.filled[r]
        BY <1>1, <3>2, RaisedIs
      <4>2. r \in rows \ Rows
        BY <2>1, <3>2 DEF Touched
      <4>3. executed'[r] >= g[r]
        BY <1>1, <1>2, <4>2 DEF ExecutedOf, Touched
      <4> HIDE DEF n
      <4>4. executed'[r] \in Nat
        BY <1>1, <1>2 DEF ExecutedOf
      <4> QED BY <1>1, <4>1, <4>2, <4>3, <4>4
    <3> QED BY <3>1, <3>2
  <2> HIDE DEF n
  <2>4. executed'[r] \in Nat
    BY <1>1, <1>2 DEF ExecutedOf
  <2>5. status'[r] \in {"filled", "open", "partially_filled"} /\ (status'[r] = "filled" => n >= job[r].quantity)
    BY <2>1 DEF FilledStatus
  <2> QED BY <1>1, <2>2, <2>3, <2>4, <2>5 DEF Says, Called
<1> QED BY <1>4, <1>5

LEMMA StepStatus ==
  ASSUME Grounded, Grounded', Behind, StatusFits, [Next]_vars
  PROVE  StatusFits'
<1>0. Typed /\ Typed' /\ KeyInv /\ Engaged /\ Targeted
  BY DEF Grounded
<1>1. ASSUME NEW t \in Requests, Aside(t) PROVE StatusFits'
  BY <1>1, AsideStatus
<1>2. ASSUME UNCHANGED <<status, executed>> PROVE \A r \in Requests : Says(r)
  BY <1>0, <1>2 DEF Says, Typed, Amounts
<1>3. ASSUME NEW t \in Requests, Trade(t) PROVE StatusFits'
  <2>1. /\ pc[t] = "locking" /\ pc' = [pc EXCEPT ![t] = "committing"] /\ TradeKeepsMost
        /\ t \notin submitted
    BY <1>0, <1>3, TradeIs
  <2>2. PICK took \in Nat, g \in Amounts, w \in Sums : TradeOf(t, took, g, w)
    BY <1>0, <1>3, TradeIs
  <2>3. Calls(t, g, left') /\ left' \in Amounts
    BY <2>2 DEF TradeOf
  <2>4. ~HasRow(t) /\ ~Closing(t)
    BY <1>0, <2>1 DEF KeyInv, RowsOwned, Closing, Targeted
  <2>5. \A r \in Requests : Closing(r)' => Closing(r)
    BY <1>0, <2>1 DEF Closing, TradeKeepsMost, KeyInv, Shaped
  <2>6. \A r \in Requests \ {t} : ~Peg(r) => (left[r] = 0 => left'[r] = 0)
    <3> SUFFICES ASSUME NEW r \in Requests \ {t}, ~Peg(r), left[r] = 0 PROVE left'[r] = 0
      OBVIOUS
    <3>1. left'[r] + g[r] <= left[r] /\ left'[r] \in Nat /\ g[r] \in Nat
      BY <2>3 DEF Calls, Amounts
    <3> QED BY <3>1
  <2>7. status' = status /\ status'[t] \notin Called
    BY <2>1, <2>4 DEF TradeKeepsMost, HasRow, Called
  <2> QED BY <1>0, <1>2, <2>1, <2>4, <2>5, <2>6, <2>7, StatusStays DEF TradeKeepsMost
<1>4. ASSUME NEW t \in Requests, Ends(t)
      PROVE  UNCHANGED <<left, job, submitted>> /\ \A r \in Requests : Closing(r)' => Closing(r)
  BY <1>0, <1>4 DEF Ends, Closing, KeyInv, Shaped
<1>5. ASSUME NEW t \in Requests, Wrote(t) PROVE StatusFits'
  <2>1. Ends(t) /\ NewRow(t, Written(t))
    BY <1>0, <1>5, WroteIs
  <2>2. /\ RowsFilled(got[t], owed[t], seen[t], Written(t))
        /\ got[t] \in Amounts /\ owed[t] \in Sums /\ seen[t] \in Snapshots
    BY <1>0, <1>5, WroteFills
  <2>3. pc[t] = "committing" /\ Written(t) \in SUBSET Requests
    BY <2>1 DEF Ends, NewRow
  <2>4. ASSUME NEW r \in Requests PROVE Says(r)
    <3>1. HasRow(r) => Fits(seen[t].filled[r], r)
      <4>1. HasRow(r) => r # t
        BY <1>0, <2>3 DEF KeyInv, RowsOwned
      <4> QED BY <2>3, <4>1 DEF Behind, Known, Active, BehindOf
    <3>2. r \in Written(t) \ Rows => seen[t].filled[r] <= got[t][r]
      BY <1>0, <2>1, <2>3 DEF NewRow, Typed
    <3> QED BY <1>0, <2>2, <2>3, <3>1, <3>2, FillsSay
  <2> QED BY <1>0, <1>4, <2>1, <2>4, StatusStays
<1>6. ASSUME NEW t \in Requests, Dropped(t) PROVE StatusFits'
  <2>1. Ends(t) /\ UNCHANGED <<status, executed>>
    BY <1>0, <1>6, DroppedIs
  <2> QED BY <1>0, <1>2, <1>4, <2>1, StatusStays
<1>7. ASSUME NEW t \in Requests, DeleteCommit(t) PROVE StatusFits'
  <2>1. DeleteOf(t) /\ Gone(job[t].account)
    BY <1>0, <1>7, DeleteIs
  <2>2. UNCHANGED <<left, job, targets>> /\ \A r \in Requests : Closing(r)' => Closing(r)
    BY <1>0, <2>1 DEF DeleteOf, Closing, KeyInv, Shaped
  <2>3. \A r \in Requests : Says(r)
    BY <1>0, <2>1 DEF Gone, Says, Called, Typed, Amounts
  <2> QED BY <1>0, <2>2, <2>3, StatusStays
<1>8. CASE FeedSubmit
  <2>1. FeedKeepsMost /\ left' \in Amounts
    BY <1>0, <1>8, FeedSubmitIs
  <2>2. PICK g \in Amounts, w \in Sums : Calls(NoOne, g, left')
    BY <1>0, <1>8, FeedSubmitIs
  <2>3. \A r \in Requests : ~Peg(r) => (left[r] = 0 => left'[r] = 0)
    <3> SUFFICES ASSUME NEW r \in Requests, ~Peg(r), left[r] = 0 PROVE left'[r] = 0
      OBVIOUS
    <3>1. left'[r] + g[r] <= left[r] /\ left'[r] \in Nat /\ g[r] \in Nat
      BY <2>1, <2>2, RequestsAssumption DEF Calls, Amounts
    <3> QED BY <3>1
  <2>4. \A r \in Requests : Closing(r)' => Closing(r)
    BY <2>1 DEF FeedKeepsMost, Closing
  <2> QED BY <1>0, <1>2, <2>1, <2>3, <2>4, StatusStays DEF FeedKeepsMost
<1>9. CASE FeedRead
  <2>1. FeedKeepsMost /\ left' = left
    BY <1>9, FeedReadIs
  <2> QED BY <2>1 DEF FeedKeepsMost, StatusFits, StatusOf, Closing, Peg
<1>10. CASE FeedCommit
  <2>1. /\ FeedEnds /\ RowsFilled(feed.got, feed.owed, feed.seen, Rows)
        /\ feed.got \in Amounts /\ feed.owed \in Sums /\ feed.seen \in Snapshots
    BY <1>0, <1>10, FeedCommitIs
  <2>2. \A r \in Requests : Closing(r)' => Closing(r)
    BY <2>1 DEF FeedEnds, Closing
  <2>3. ASSUME NEW r \in Requests PROVE Says(r)
    <3>1. HasRow(r) => Fits(feed.seen.filled[r], r)
      BY <2>1 DEF FeedEnds, Behind, Known, Active, BehindOf
    <3>2. Rows \in SUBSET Requests /\ r \notin Rows \ Rows
      BY DEF Rows
    <3> QED BY <1>0, <2>1, <3>1, <3>2, FillsSay
  <2> QED BY <1>0, <2>1, <2>2, <2>3, StatusStays DEF FeedEnds
<1>11. CASE FeedFails
  <2>1. FeedEnds /\ UNCHANGED <<status, executed>>
    BY <1>11, FeedFailsIs
  <2> QED BY <2>1 DEF FeedEnds, StatusFits, StatusOf, Closing, Peg
<1>12. CASE Restart
  <2>1. RestartOf
    BY <1>0, <1>12, RestartIs
  <2>2. \A r \in Requests : left'[r] = 0
    BY <2>1, NothingIs DEF RestartOf
  <2>3. UNCHANGED <<status, executed, job>>
    BY <2>1 DEF RestartOf
  <2> QED BY <2>2, <2>3 DEF StatusFits, StatusOf, Peg
<1>13. CASE UNCHANGED vars
  BY <1>13 DEF StatusFits, StatusOf, Closing, Peg, vars, core, database, ledger, sessions
<1> QED BY <1>1, <1>3, <1>5, <1>6, <1>7, <1>8, <1>9, <1>10, <1>11, <1>12, <1>13, StepIs

LEMMA InitStatus == Init => StatusFits
<1> SUFFICES ASSUME Init PROVE StatusFits
  OBVIOUS
<1>1. \A r \in Requests : left[r] = 0 /\ status[r] = "none"
  BY NothingIs DEF Init
<1> QED BY <1>1 DEF StatusFits, StatusOf

-----------------------------------------------------------------------------
(* Nothing of a standing order that rests is lost.                           *)

Intact(r) == (pc[r] = "committing" \/ Kept(r)) /\ Rests(r)

LEMMA WholesFrom ==
  ASSUME Wholes, undone => undone',
         ~undone' => \A r \in Requests : Intact(r)' =>
           \/ job'[r] = job[r] /\ Intact(r) /\ AsMuch(r)
           \/ executed'[r] + Due(r)' + left'[r] = job'[r].quantity
  PROVE  Wholes'
<1> SUFFICES ASSUME ~undone', NEW r \in Requests, Intact(r)'
             PROVE  Whole(r)'
  BY DEF Wholes, Intact
<1>1. CASE executed'[r] + Due(r)' + left'[r] = job'[r].quantity
  BY <1>1 DEF Whole, Total
<1>2. CASE job'[r] = job[r] /\ Intact(r) /\ AsMuch(r)
  <2>1. Whole(r)
    BY <1>2 DEF Wholes, Intact
  <2> QED BY <1>2, <2>1 DEF Whole, AsMuch, Total
<1> QED BY <1>1, <1>2

LEMMA AsideWholes ==
  ASSUME Grounded, Locked, Wholes, NEW t \in Requests, Aside(t)
  PROVE  Wholes'
<1>0. Typed /\ KeyInv /\ Engaged /\ Targeted
  BY DEF Grounded
<1>1. AsideKeeps /\ Closes(t)
  BY <1>0, AsideIs
<1>2. PICK label \in Labels : Moves(t, label) /\ Takes(t, label)
  BY <1>0, AsideIs
<1>3. /\ \A r \in Requests : pc[r] # "new" => job'[r] = job[r]
      /\ \A r \in Requests : pc'[r] = "committing" <=> pc[r] = "committing"
      /\ \A r \in Requests : status'[r] # "none" <=> HasRow(r)
  BY <1>0, AsideJobs
<1>4. pc'[t] = label /\ \A u \in Requests \ {t} : pc'[u] = pc[u] /\ job'[u] = job[u] /\ targets'[u] = targets[u]
  BY <1>0, <1>2 DEF Moves, KeyInv, Shaped
<1>5. /\ label = "closing" => pc[t] = "cancelling" /\ targets'[t] = targets[t]
      /\ pc[t] = "deleting" => label = "deleting"
      /\ pc[t] # "new" => job'[t] = job[t]
  BY <1>2 DEF Moves, Takes
<1>6. \A r \in Requests :
        \/ left'[r] = left[r]
        \/ /\ r \in targets[t]
           /\ \/ pc[t] = "cancelling" /\ label = "closing"
              \/ pc[t] = "deleting" /\ label = "deleting"
  BY <1>2 DEF Takes
<1>7. \A r \in targets[t] : pc[r] = "done" /\ (pc[t] = "deleting" => job[r].account = job[t].account)
  BY <1>0 DEF Targeted
<1>8. ASSUME ~undone', NEW r \in Requests, Intact(r)'
      PROVE  job'[r] = job[r] /\ Intact(r) /\ AsMuch(r)
  <2>1. CASE pc'[r] = "committing"
    <3>1. pc[r] = "committing" /\ job'[r] = job[r]
      BY <1>3, <2>1
    <3>2. left'[r] = left[r]
      BY <1>6, <1>7, <3>1
    <3>3. AsMuch(r)
      BY <3>2, AsideTotal
    <3> QED BY <1>8, <3>1, <3>3 DEF Intact, Rests
  <2>2. CASE Kept(r)'
    <3>1. HasRow(r) /\ status'[r] \notin Called /\ r \notin reopened /\ Standing(r)'
      BY <1>1, <1>3, <2>2 DEF Kept, HasRow, AsideKeeps
    <3>2. pc[r] = "done" /\ job'[r] = job[r]
      BY <1>0, <1>3, <3>1 DEF KeyInv, RowsOwned
    <3>3. status[r] \notin Called
      BY <1>1, <3>1 DEF Closes
    <3>4. pc[t] = "closing" => r \notin targets[t]
      BY <1>1, <1>8, <3>1 DEF Closes, HasRow
    <3>5. pc[t] = "deleting" => job[t].account # job[r].account
      BY <1>4, <1>5, <3>1, <3>2 DEF Standing
    <3>6. Standing(r)
      BY <1>4, <3>1, <3>2, <3>4, <3>5 DEF Standing
    <3>7. left'[r] = left[r]
      BY <1>4, <1>5, <1>6, <1>7, <3>1, <3>5 DEF Standing
    <3>8. AsMuch(r)
      BY <3>7, AsideTotal
    <3> QED BY <1>8, <3>1, <3>2, <3>3, <3>6, <3>8 DEF Intact, Kept, Rests
  <2> QED BY <1>8, <2>1, <2>2 DEF Intact
<1>9. undone => undone'
  BY <1>1 DEF Closes
<1> QED BY <1>8, <1>9, WholesFrom

\* Who is standing after a step that lets nobody go on closing was before.
LEMMA StandingWas ==
  ASSUME UNCHANGED <<job, targets>>, NEW r \in Requests,
         \A u \in Requests : pc[u] \in {"closing", "deleting"} =>
           pc'[u] = pc[u] \/ (pc[u] = "deleting" /\ job[u].account # job[r].account),
         Standing(r)'
  PROVE  Standing(r)
BY DEF Standing

\* A row that fills are written to is kept only if it was.
LEMMA KeptWas ==
  ASSUME NEW g, NEW w, NEW values, NEW rows, RowsFilled(g, w, values, rows),
         reopened' = reopened \cup {r \in Touched(g, rows) : status[r] \in Closed},
         NEW r \in Requests, HasRow(r), Kept(r)', Standing(r)
  PROVE  Kept(r)
<1>1. status'[r] \notin Called /\ r \notin reopened'
  BY DEF Kept
<1>2. status[r] \in Called => r \notin Touched(g, rows)
  BY <1>1 DEF Called, Closed
<1>3. LabelOf(r, g, values, rows)
  BY DEF RowsFilled
<1>4. r \notin rows \ Rows
  BY DEF HasRow, Rows
<1>5. status[r] \notin Called
  BY <1>1, <1>2, <1>3, <1>4 DEF LabelOf
<1> QED BY <1>1, <1>5 DEF Kept

LEMMA StepWholes ==
  ASSUME Grounded, Locked, Wholes, [Next]_vars
  PROVE  Wholes'
<1>0. Typed /\ KeyInv /\ Engaged /\ Targeted
  BY DEF Grounded
<1>1. ASSUME NEW t \in Requests, Aside(t) PROVE Wholes'
  BY <1>1, AsideWholes
<1>2. ASSUME NEW t \in Requests, Trade(t) PROVE Wholes'
  <2>1. /\ pc[t] = "locking" /\ pc' = [pc EXCEPT ![t] = "committing"] /\ TradeKeepsMost
    BY <1>0, <1>2, TradeIs
  <2>2. UNCHANGED <<job, targets, status, reopened, undone>>
    BY <2>1 DEF TradeKeepsMost
  <2>3. pc'[t] = "committing" /\ \A u \in Requests \ {t} : pc'[u] = pc[u]
    BY <1>0, <2>1 DEF KeyInv, Shaped
  <2>4. ASSUME NEW r \in Requests \ {t}, Intact(r)' PROVE Intact(r) /\ AsMuch(r)
    <3>1. Standing(r)' => Standing(r)
      BY <2>1, <2>2, <2>3, StandingWas
    <3>2. Intact(r)
      BY <2>2, <2>3, <2>4, <3>1 DEF Intact, Kept, HasRow, Rests
    <3> QED BY <1>2, <3>2, TradeTotal DEF Intact
  <2>5. Intact(t)' => executed'[t] + Due(t)' + left'[t] = job'[t].quantity
    BY <1>2, <2>2, TradeTotal DEF Intact, Rests
  <2> QED BY <2>2, <2>4, <2>5, WholesFrom
<1>3. ASSUME NEW t \in Requests, Wrote(t) PROVE Wholes'
  <2>1. Ends(t) /\ UNCHANGED undone
    BY <1>0, <1>3, WroteIs
  <2>2. /\ RowsFilled(got[t], owed[t], seen[t], Written(t))
        /\ reopened' = reopened \cup {r \in Touched(got[t], Written(t)) : status[r] \in Closed}
    BY <1>0, <1>3, WroteFills
  <2>3. pc[t] = "committing" /\ pc'[t] = "done" /\ UNCHANGED <<job, targets>>
    BY <1>0, <2>1 DEF Ends, KeyInv, Shaped
  <2>4. \A u \in Requests \ {t} : pc'[u] = pc[u] /\ pc[u] # "committing"
    BY <1>0, <2>1, <2>3, OnlyCommitting DEF Ends, KeyInv, Shaped
  <2>5. ASSUME NEW r \in Requests, Intact(r)' PROVE Intact(r) /\ AsMuch(r)
    <3>1. Kept(r)' /\ Rests(r)
      BY <2>3, <2>4, <2>5 DEF Intact, Rests
    <3>2. HasRow(r) \/ r = t
      BY <1>3, <3>1, ActiveIs DEF Active, Kept, HasRow
    <3>3. AsMuch(r)
      BY <1>3, <3>2, WroteTotal
    <3>4. Standing(r)
      <4>1. Standing(r)'
        BY <3>1 DEF Kept
      <4> QED BY <2>3, <2>4, <4>1, StandingWas
    <3>5. HasRow(r) => Kept(r)
      BY <2>2, <3>1, <3>4, KeptWas
    <3> QED BY <2>3, <3>1, <3>2, <3>3, <3>5 DEF Intact
  <2> QED BY <2>1, <2>3, <2>5, WholesFrom
<1>4. ASSUME undone' = TRUE PROVE Wholes'
  BY <1>4 DEF Wholes
<1>5. ASSUME NEW t \in Requests, DeleteCommit(t) PROVE Wholes'
  <2>1. DeleteOf(t) /\ Gone(job[t].account)
    BY <1>0, <1>5, DeleteIs
  <2>2. /\ UNCHANGED <<job, targets, reopened, undone>>
        /\ pc[t] = "deleting" /\ pc'[t] = "done" /\ \A u \in Requests \ {t} : pc'[u] = pc[u]
    BY <1>0, <2>1 DEF DeleteOf, KeyInv, Shaped
  <2>3. ASSUME NEW r \in Requests, Intact(r)' PROVE Intact(r) /\ AsMuch(r)
    <3>1. CASE pc'[r] = "committing"
      <4>1. pc[r] = "committing"
        BY <2>2, <3>1
      <4>2. ~HasRow(r)
        BY <1>0, <4>1 DEF KeyInv, RowsOwned
      <4>3. AsMuch(r)
        BY <1>5, <4>2, DeleteTotal
      <4> QED BY <2>2, <2>3, <4>1, <4>3 DEF Intact, Rests
    <3>2. CASE Kept(r)'
      <4>1. status'[r] # "none" /\ Standing(r)'
        BY <3>2 DEF Kept, HasRow
      <4>2. r \notin OrdersOf(job[t].account) /\ status'[r] = status[r]
        BY <2>1, <4>1 DEF Gone
      <4>3. pc[r] = "done"
        BY <1>0, <4>1, <4>2 DEF KeyInv, RowsOwned, HasRow
      <4>4. job[t].account # job[r].account
        BY <4>2, <4>3 DEF OrdersOf
      <4>5. Standing(r)
        BY <2>2, <4>1, <4>4, StandingWas
      <4>6. Kept(r)
        BY <2>2, <3>2, <4>2, <4>5 DEF Kept, HasRow
      <4>7. AsMuch(r)
        BY <1>5, <4>2, DeleteTotal
      <4> QED BY <2>2, <2>3, <4>6, <4>7 DEF Intact, Rests
    <3> QED BY <2>3, <3>1, <3>2 DEF Intact
  <2> QED BY <2>2, <2>3, WholesFrom
<1>6. ASSUME FeedKeepsMost, \A r \in Requests : Rests(r) => AsMuch(r)
      PROVE  Wholes'
  <2>1. UNCHANGED <<job, targets, pc, status, reopened, undone>>
    BY <1>6 DEF FeedKeepsMost
  <2>2. ASSUME NEW r \in Requests, Intact(r)' PROVE Intact(r)
    BY <2>1, <2>2 DEF Intact, Kept, HasRow, Standing, Rests
  <2>3. ASSUME NEW r \in Requests, Intact(r)' PROVE AsMuch(r)
    BY <1>6, <2>2, <2>3 DEF Intact
  <2> QED BY <2>1, <2>2, <2>3, WholesFrom
<1>7. CASE FeedCommit
  <2>1. /\ FeedEnds /\ RowsFilled(feed.got, feed.owed, feed.seen, Rows) /\ UNCHANGED undone
        /\ reopened' = reopened \cup {r \in Touched(feed.got, Rows) : status[r] \in Closed}
    BY <1>0, <1>7, FeedCommitIs
  <2>2. UNCHANGED <<job, targets, pc>>
    BY <2>1 DEF FeedEnds
  <2>3. ASSUME NEW r \in Requests, Intact(r)' PROVE Intact(r) /\ AsMuch(r)
    <3>1. CASE pc'[r] = "committing"
      <4>1. Active(r) /\ Intact(r)
        BY <2>2, <2>3, <3>1 DEF Active, Intact, Rests
      <4> QED BY <1>7, <4>1, FeedCommitTotal
    <3>2. CASE pc'[r] # "committing"
      <4>1. Kept(r)' /\ Rests(r)
        BY <2>2, <2>3, <3>2 DEF Intact, Rests
      <4>2. Active(r)
        BY <1>7, <4>1, ActiveIs DEF Active, Kept
      <4>3. HasRow(r)
        BY <2>2, <3>2, <4>2 DEF Active
      <4>4. Standing(r)
        BY <2>2, <4>1 DEF Kept, Standing
      <4>5. Kept(r)
        BY <2>1, <4>1, <4>3, <4>4, KeptWas
      <4>6. AsMuch(r)
        BY <1>7, <4>2, FeedCommitTotal
      <4> QED BY <4>1, <4>5, <4>6 DEF Intact
    <3> QED BY <3>1, <3>2
  <2> QED BY <2>1, <2>2, <2>3, WholesFrom
<1>8. CASE UNCHANGED vars
  <2>1. UNCHANGED <<left, lock, executed, status, pc, job, targets, got, feed, undone, reopened>>
    BY <1>8 DEF vars, core, database, ledger, sessions, history, trail
  <2> QED BY <2>1 DEF Wholes, Whole, Total, Due, Kept, HasRow, Standing, Rests
<1>9. CASE FeedSubmit
  BY <1>0, <1>6, <1>9, FeedSubmitIs, FeedSubmitTotal
<1>10. CASE FeedRead
  BY <1>6, <1>10, FeedReadIs, FeedReadTotal
<1>11. ASSUME NEW t \in Requests, Dropped(t) PROVE Wholes'
  BY <1>0, <1>4, <1>11, DroppedIs
<1>12. CASE FeedFails
  BY <1>4, <1>12, FeedFailsIs
<1>13. CASE Restart
  BY <1>0, <1>4, <1>13, RestartIs DEF RestartOf
<1> QED BY <1>1, <1>2, <1>3, <1>5, <1>7, <1>8, <1>9, <1>10, <1>11, <1>12, <1>13, StepIs

LEMMA InitWholes == Init => Wholes
<1> SUFFICES ASSUME Init PROVE Wholes
  OBVIOUS
<1>1. \A r \in Requests : pc[r] = "new" /\ status[r] = "none"
  BY DEF Init
<1> QED BY <1>1 DEF Wholes, Kept, HasRow

-----------------------------------------------------------------------------
(* The books balance.                                                        *)

\* Nothing bought or sold is nothing.
LEMMA SignedNothing == \A s : Signed(s, 0) = 0
<1> DEFINE x == 0
<1>1. x \in Int /\ x =< 0 /\ x >= 0 /\ x = 0
  OBVIOUS
<1> HIDE DEF x
<1>2. -x = 0
  BY <1>1, MinusNothing
<1>3. \A s : Signed(s, x) = 0
  BY <1>1, <1>2 DEF Signed
<1> QED BY <1>1, <1>3

\* What amounts x bring account a after a step, by order and together.
NextGain(a, x) ==
  [r \in Requests |-> IF pc'[r] # "new" /\ job'[r].account = a
                      THEN Signed(job'[r].side, x[r]) ELSE 0]
NextShares(a, x) ==
  SumFunctionOnSet([r \in Requests |-> Signed(job'[r].side, x[r])],
                   Requests \cap {r \in Requests : pc'[r] # "new" /\ job'[r].account = a})

LEMMA NextSharesIs ==
  ASSUME NEW a, NEW x, Ints(x)
  PROVE  /\ \A r \in Requests : NextGain(a, x)[r] \in Int
         /\ NextShares(a, x) = SumFunctionOnSet(NextGain(a, x), Requests)
<1> DEFINE w == [r \in Requests |-> Signed(job'[r].side, x[r])]
           T == {r \in Requests : pc'[r] # "new" /\ job'[r].account = a}
           u == NextGain(a, x)
<1>1. \A r \in Requests : w[r] \in Int
  BY DEF Signed, Ints
<1>2. IsFiniteSet(Requests) /\ T \in SUBSET Requests
  BY RequestsAssumption
<1>3. MaskOf(u, w, T, Requests) /\ \A r \in Requests : u[r] \in Int
  BY <1>1 DEF MaskOf, NextGain
<1>4. NextShares(a, x) = SumFunctionOnSet(w, Requests \cap T)
  BY DEF NextShares
<1>5. Requests \cap T = T
  BY <1>2
<1> HIDE DEF w, T, u
<1>6. \A r \in T : w[r] \in Int
  BY <1>1, <1>2
<1>7. SumFunctionOnSet(w, T) = SumFunctionOnSet(u, Requests)
  BY <1>2, <1>3, <1>6, SumMasked
<1> QED BY <1>3, <1>4, <1>5, <1>7 DEF u

LEMMA NextSharesAre ==
  ASSUME NEW a
  PROVE  /\ Shares(a, executed, Requests)' = NextShares(a, executed')
         /\ Shares(a, spent, Requests)' = NextShares(a, spent')
BY DEF Shares, OrdersOf, NextShares

\* What they brought, with what is added in rows.
LEMMA SharesMove ==
  ASSUME NEW a, NEW v, Ints(v), NEW x, Ints(x), NEW g, Ints(g), NEW rows,
         Adds(NextGain(a, x), Gain(a, v, Requests), Gain(a, g, rows), Requests)
  PROVE  NextShares(a, x) = Shares(a, v, Requests) + Shares(a, g, rows)
<1>1. /\ \A r \in Requests : Gain(a, v, Requests)[r] \in Int
      /\ Shares(a, v, Requests) = SumFunctionOnSet(Gain(a, v, Requests), Requests)
  BY SharesIs
<1>2. /\ \A r \in Requests : Gain(a, g, rows)[r] \in Int
      /\ Shares(a, g, rows) = SumFunctionOnSet(Gain(a, g, rows), Requests)
  BY SharesIs
<1>3. SumFunctionOnSet(NextGain(a, x), Requests) =
        SumFunctionOnSet(Gain(a, v, Requests), Requests) + SumFunctionOnSet(Gain(a, g, rows), Requests)
  BY <1>1, <1>2, SumAdds, RequestsAssumption
<1> QED BY <1>1, <1>2, <1>3, NextSharesIs

LEMMA SharesSame ==
  ASSUME NEW a, NEW v, Ints(v), NEW x, Ints(x), SameOn(NextGain(a, x), Gain(a, v, Requests), Requests)
  PROVE  NextShares(a, x) = Shares(a, v, Requests)
<1>1. /\ \A r \in Requests : Gain(a, v, Requests)[r] \in Int
      /\ Shares(a, v, Requests) = SumFunctionOnSet(Gain(a, v, Requests), Requests)
  BY SharesIs
<1>2. SumFunctionOnSet(NextGain(a, x), Requests) = SumFunctionOnSet(Gain(a, v, Requests), Requests)
  BY <1>1, SumSame, RequestsAssumption
<1> QED BY <1>1, <1>2, NextSharesIs

LEMMA AmountsNow ==
  ASSUME Typed
  PROVE  Ints(executed) /\ Ints(spent)
BY DEF Ints, Typed, Amounts, Sums

LEMMA AmountsNext ==
  ASSUME Typed'
  PROVE  Ints(executed') /\ Ints(spent')
BY DEF Ints, Typed, Amounts, Sums

\* What a session that has seen what is there writes to the accounts.
LEMMA FillsMove ==
  ASSUME Typed, NEW g \in Amounts, NEW w \in Sums, NEW values \in Snapshots, NEW rows \in SUBSET Requests,
         AccountsFilled(g, w, values, rows), Seen(values), NEW a \in exists
  PROVE  /\ Shares(a, g, Touched(g, rows)) \in Int /\ Shares(a, w, Touched(g, rows)) \in Int
         /\ position'[a] = position[a] + Shares(a, g, Touched(g, rows))
         /\ a \in stale \/ cash'[a] = cash[a] - Shares(a, w, Touched(g, rows))
<1> DEFINE touched == Touched(g, rows)
<1>1. Ints(g) /\ Ints(w)
  BY AmountsAreInts
<1>2. Shares(a, g, touched) \in Int /\ Shares(a, w, touched) \in Int
  BY <1>1, SharesIs
<1>3. a \in Accounts /\ position[a] \in Int /\ cash[a] \in Int
  BY DEF Typed
<1>4. CASE a \in Owners(g, rows)
  <2>1. values.position[a] = position[a] /\ (a \in stale \/ values.cash[a] = cash[a])
    BY DEF Seen
  <2>2. /\ position'[a] = values.position[a] + Shares(a, g, touched)
        /\ cash'[a] = values.cash[a] - Shares(a, w, touched)
    BY <1>3, <1>4 DEF AccountsFilled
  <2> QED BY <1>2, <2>1, <2>2
<1>5. CASE a \notin Owners(g, rows)
  <2>1. touched \cap OrdersOf(a) = {}
    BY <1>5 DEF OrdersOf, Owners
  <2>2. Shares(a, g, touched) = 0 /\ Shares(a, w, touched) = 0
    BY <2>1, SumOfNone DEF Shares
  <2>3. position'[a] = position[a] /\ cash'[a] = cash[a]
    BY <1>3, <1>5 DEF AccountsFilled
  <2> QED BY <1>3, <2>2, <2>3
<1> QED BY <1>4, <1>5

\* What a commit adds to the rows stays accounted for.
LEMMA FillsAccounted ==
  ASSUME Typed, NEW g \in Amounts, NEW w, NEW values \in Snapshots, NEW rows \in SUBSET Requests,
         RowsFilled(g, w, values, rows), NEW r \in Requests, Accounted(r),
         HasRow(r) => values.filled[r] = filled[r] /\ Fits(filled[r], r),
         r \in rows \ Rows => executed[r] = 0 /\ values.filled[r] <= g[r],
         r \in rows => IF Peg(r) THEN missed[r] = 0 /\ (~HasRow(r) => g[r] = 0)
                       ELSE executed[r] + g[r] <= job[r].quantity
  PROVE  filled'[r] + missed'[r] =
           IF executed'[r] < job[r].quantity THEN executed'[r] ELSE job[r].quantity
<1>1. /\ executed[r] \in Nat /\ filled[r] \in Nat /\ missed[r] \in Nat /\ g[r] \in Nat
      /\ values.filled[r] \in Nat /\ job[r].quantity \in Nat
  BY DEF Typed, Amounts, Snapshots, Job, NoJob
<1>2. ExecutedOf(r, g, w, rows) /\ FilledOf(r, g, values, rows)
  BY DEF RowsFilled
<1>3. filled[r] + missed[r] = IF executed[r] < job[r].quantity THEN executed[r] ELSE job[r].quantity
  BY DEF Accounted
<1>4. CASE r \in rows \ Rows
  <2>1. filled'[r] = values.filled[r] /\ missed'[r] = g[r] - values.filled[r]
    BY <1>2, <1>4 DEF FilledOf
  <2>2. executed'[r] = g[r]
    BY <1>1, <1>2, <1>4 DEF ExecutedOf, Touched
  <2>3. g[r] <= job[r].quantity
    BY <1>1, <1>4 DEF HasRow, Rows
  <2> QED BY <1>1, <2>1, <2>2, <2>3
<1>5. CASE r \notin rows \ Rows /\ r \in Touched(g, rows)
  <2>1. HasRow(r) /\ r \in rows /\ r \in Rows
    BY <1>5 DEF Touched, HasRow, Rows
  <2>2. Raised(r, g[r], values) = IF filled[r] + g[r] < job[r].quantity
                                 THEN filled[r] + g[r] ELSE job[r].quantity
    BY <1>1, <2>1, RaisedIs DEF Fits
  <2>3. filled'[r] = Raised(r, g[r], values) /\ missed'[r] = missed[r]
    BY <1>2, <1>5, <2>1 DEF FilledOf
  <2>4. executed'[r] = executed[r] + g[r]
    BY <1>2, <1>5 DEF ExecutedOf
  <2>5. CASE Peg(r)
    BY <1>1, <1>3, <2>1, <2>2, <2>3, <2>4, <2>5
  <2>6. CASE ~Peg(r)
    <3>1. executed[r] + g[r] <= job[r].quantity
      BY <2>1, <2>6
    <3> QED BY <1>1, <1>3, <2>2, <2>3, <2>4, <3>1
  <2> QED BY <2>5, <2>6
<1>6. CASE r \notin rows \ Rows /\ r \notin Touched(g, rows)
  BY <1>2, <1>3, <1>6 DEF ExecutedOf, FilledOf
<1> QED BY <1>4, <1>5, <1>6

LEMMA FillsBooked ==
  ASSUME Typed, Typed', NEW g \in Amounts, NEW w \in Sums, NEW values \in Snapshots,
         NEW rows \in SUBSET Requests,
         RowsFilled(g, w, values, rows), AccountsFilled(g, w, values, rows), Seen(values),
         UNCHANGED <<job, stale>>,
         \A r \in Requests : pc'[r] = "new" <=> pc[r] = "new",
         NEW a \in exists, BooksOf(a),
         \A r \in OrdersOf(a) : filled'[r] + missed'[r] =
           IF executed'[r] < job[r].quantity THEN executed'[r] ELSE job[r].quantity
  PROVE  BooksOf(a)'
<1> DEFINE touched == Touched(g, rows)
           s == Shares(a, g, touched)
           z == Shares(a, w, touched)
<1>1. /\ s \in Int /\ z \in Int
      /\ position'[a] = position[a] + s
      /\ a \in stale \/ cash'[a] = cash[a] - z
  BY FillsMove
<1>2. /\ Ints(g) /\ Ints(w) /\ Ints(executed) /\ Ints(spent) /\ Ints(executed') /\ Ints(spent')
  BY AmountsAreInts, AmountsNow, AmountsNext
<1>3. ASSUME NEW r \in Requests
      PROVE  /\ executed'[r] = IF r \in touched THEN executed[r] + g[r] ELSE executed[r]
             /\ spent'[r] = IF r \in touched THEN spent[r] + w[r] ELSE spent[r]
  BY DEF RowsFilled, ExecutedOf
<1> HIDE DEF touched
<1>4. ASSUME NEW v, Ints(v), NEW x, Ints(x), NEW y, Ints(y),
             \A r \in Requests : x[r] = IF r \in touched THEN v[r] + y[r] ELSE v[r]
      PROVE  NextShares(a, x) = Shares(a, v, Requests) + Shares(a, y, touched)
  <2>1. Adds(NextGain(a, x), Gain(a, v, Requests), Gain(a, y, touched), Requests)
    <3> SUFFICES ASSUME NEW r \in Requests
                 PROVE  NextGain(a, x)[r] = Gain(a, v, Requests)[r] + Gain(a, y, touched)[r]
      BY DEF Adds
    <3>1. /\ NextGain(a, x)[r] = IF pc[r] # "new" /\ job[r].account = a
                                 THEN Signed(job[r].side, x[r]) ELSE 0
          /\ Gain(a, v, Requests)[r] = IF pc[r] # "new" /\ job[r].account = a
                                       THEN Signed(job[r].side, v[r]) ELSE 0
          /\ Gain(a, y, touched)[r] = IF r \in touched /\ pc[r] # "new" /\ job[r].account = a
                                      THEN Signed(job[r].side, y[r]) ELSE 0
      BY DEF NextGain, Gain, OrdersOf
    <3>2. x[r] = (IF r \in touched THEN v[r] + y[r] ELSE v[r]) /\ x[r] \in Int /\ v[r] \in Int /\ y[r] \in Int
      BY <1>4 DEF Ints
    <3> QED BY <3>1, <3>2 DEF Signed
  <2> QED BY <1>4, <2>1, SharesMove
<1>5. NextShares(a, executed') = Shares(a, executed, Requests) + s
  BY <1>2, <1>3, <1>4
<1>6. NextShares(a, spent') = Shares(a, spent, Requests) + z
  BY <1>2, <1>3, <1>4
<1>7. /\ Shares(a, executed, Requests) \in Int /\ Shares(a, spent, Requests) \in Int
      /\ position[a] \in Int /\ cash[a] \in Int /\ InitialCash \in Int
  <2>1. Shares(a, executed, Requests) \in Int /\ Shares(a, spent, Requests) \in Int
    BY <1>2, SharesIs
  <2>2. position[a] \in Int /\ cash[a] \in Int /\ InitialCash \in Int
    BY LimitsAssumption DEF Typed
  <2> QED BY <2>1, <2>2
<1>8. \A r \in Requests : r \in OrdersOf(a)' => r \in OrdersOf(a)
  BY DEF OrdersOf
<1> HIDE DEF s, z
<1>9. position[a] = Shares(a, executed, Requests) /\ (a \in stale \/ cash[a] = InitialCash - Shares(a, spent, Requests))
  BY DEF BooksOf
<1>10. position'[a] = Shares(a, executed, Requests)'
  BY <1>1, <1>5, <1>9, NextSharesAre
<1>11. (a \in stale \/ cash[a] = InitialCash - Shares(a, spent, Requests))'
  BY <1>1, <1>6, <1>7, <1>9, NextSharesAre
<1>12. (\A r \in OrdersOf(a) : Accounted(r))'
  BY <1>8 DEF Accounted, OrdersOf
<1> QED BY <1>10, <1>11, <1>12 DEF BooksOf

\* Order r brings its account what it brought, as far as the account stays, or
\* it had brought nothing and has not.
Carried(r) ==
  \/ /\ (pc'[r] = "new" <=> pc[r] = "new") /\ job'[r] = job[r]
     /\ job[r].account \in exists' => /\ filled'[r] = filled[r] /\ executed'[r] = executed[r]
                                      /\ spent'[r] = spent[r] /\ missed'[r] = missed[r]
  \/ /\ executed[r] = 0 /\ executed'[r] = 0 /\ spent[r] = 0 /\ spent'[r] = 0
     /\ filled'[r] = 0 /\ missed'[r] = 0

LEMMA BookedStays ==
  ASSUME Typed, Typed', Booked, raced => raced', exists' \subseteq exists,
         stale \subseteq stale', UNCHANGED <<cash, position>>,
         \A r \in Requests : Carried(r)
  PROVE  Booked'
<1> SUFFICES ASSUME ~raced', NEW a \in exists' PROVE BooksOf(a)'
  BY DEF Booked
<1>1. BooksOf(a)
  BY DEF Booked
<1>2. Ints(executed) /\ Ints(spent) /\ Ints(executed') /\ Ints(spent')
  BY AmountsNow, AmountsNext
<1>3. ASSUME NEW r \in Requests
      PROVE  /\ NextGain(a, executed')[r] = Gain(a, executed, Requests)[r]
             /\ NextGain(a, spent')[r] = Gain(a, spent, Requests)[r]
  <2>1. Carried(r)
    OBVIOUS
  <2> QED BY <2>1, SignedNothing DEF Carried, NextGain, Gain, OrdersOf
<1>4. NextShares(a, executed') = Shares(a, executed, Requests)
  <2>1. SameOn(NextGain(a, executed'), Gain(a, executed, Requests), Requests)
    BY <1>3 DEF SameOn
  <2> QED BY <1>2, <2>1, SharesSame
<1>5. NextShares(a, spent') = Shares(a, spent, Requests)
  <2>1. SameOn(NextGain(a, spent'), Gain(a, spent, Requests), Requests)
    BY <1>3 DEF SameOn
  <2> QED BY <1>2, <2>1, SharesSame
<1>6. ASSUME NEW r \in OrdersOf(a)' PROVE Accounted(r)'
  <2>1. r \in Requests /\ pc'[r] # "new" /\ job'[r].account = a
    BY DEF OrdersOf
  <2>2. Carried(r)
    BY <2>1
  <2>3. CASE executed'[r] = 0 /\ filled'[r] = 0 /\ missed'[r] = 0
    <3>1. job'[r].quantity \in Nat
      BY <2>1 DEF Typed, Job, NoJob
    <3> QED BY <2>3, <3>1 DEF Accounted
  <2>4. CASE ~(executed'[r] = 0 /\ filled'[r] = 0 /\ missed'[r] = 0)
    <3>1. /\ pc[r] # "new" /\ job[r].account = a /\ job'[r] = job[r]
          /\ filled'[r] = filled[r] /\ executed'[r] = executed[r] /\ missed'[r] = missed[r]
      BY <2>1, <2>2, <2>4 DEF Carried
    <3>2. r \in OrdersOf(a)
      BY <2>1, <3>1 DEF OrdersOf
    <3> QED BY <1>1, <3>1, <3>2 DEF BooksOf, Accounted
  <2> QED BY <2>3, <2>4
<1>7. position'[a] = Shares(a, executed, Requests)'
  BY <1>1, <1>4, NextSharesAre DEF BooksOf
<1>8. (a \in stale \/ cash[a] = InitialCash - Shares(a, spent, Requests))'
  BY <1>1, <1>5, NextSharesAre DEF BooksOf
<1>9. (\A r \in OrdersOf(a) : Accounted(r))'
  BY <1>6
<1> QED BY <1>7, <1>8, <1>9 DEF BooksOf

\* What is added to a row in a commit is within its order's quantity.
LEMMA AddedWithin ==
  ASSUME Grounded, Locked, Budget, NEW r \in Requests, Active(r), ~Peg(r)
  PROVE  /\ executed[r] + feed.got[r] <= job[r].quantity
         /\ lock # NoOne => executed[r] + got[lock][r] <= job[r].quantity
<1>1. Total(r) <= job[r].quantity
  BY DEF Budget
<1>2. /\ executed[r] \in Nat /\ left[r] \in Nat /\ feed.got[r] \in Nat
      /\ Total(r) = executed[r] + Due(r) + left[r]
      /\ lock = NoOne => Due(r) = feed.got[r]
      /\ lock # NoOne => Due(r) = feed.got[r] + got[lock][r] /\ got[lock][r] \in Nat
  BY TotalIs DEF Grounded
<1>3. job[r].quantity \in Nat
  BY DEF Grounded, Typed, Job, NoJob
<1> QED BY <1>1, <1>2, <1>3

LEMMA WroteBooked ==
  ASSUME Grounded, Grounded', Locked, Budget, Behind, Current, Booked, NEW t \in Requests, Wrote(t)
  PROVE  Booked'
<1>0. Typed /\ Typed' /\ KeyInv /\ Engaged
  BY DEF Grounded
<1>1. Ends(t) /\ NewRow(t, Written(t)) /\ raced' = (raced \/ feed.at = "applying")
  BY <1>0, WroteIs
<1>2. /\ RowsFilled(got[t], owed[t], seen[t], Written(t))
      /\ AccountsFilled(got[t], owed[t], seen[t], Written(t))
      /\ got[t] \in Amounts /\ owed[t] \in Sums /\ seen[t] \in Snapshots
  BY <1>0, WroteFills
<1>3. /\ pc[t] = "committing" /\ UNCHANGED <<job, stale, exists>> /\ lock = t /\ lock # NoOne
      /\ \A r \in Requests : pc'[r] = "new" <=> pc[r] = "new"
  BY <1>0, <1>1, OnlyCommitting DEF Ends, KeyInv, Shaped
<1> SUFFICES ASSUME ~raced, NEW a \in exists PROVE BooksOf(a)'
  BY <1>1, <1>3 DEF Booked
<1>4. Seen(seen[t]) /\ BooksOf(a)
  BY <1>3 DEF Current, Booked
<1>5. ASSUME NEW r \in OrdersOf(a)
      PROVE  filled'[r] + missed'[r] =
               IF executed'[r] < job[r].quantity THEN executed'[r] ELSE job[r].quantity
  <2>1. r \in Requests /\ pc[r] # "new" /\ Accounted(r)
    BY <1>4 DEF OrdersOf, BooksOf
  <2>2. HasRow(r) => seen[t].filled[r] = filled[r] /\ Fits(filled[r], r)
    BY <1>4, <2>1 DEF Seen, Behind, Known, Active, BehindOf
  <2>3. r \in Written(t) \ Rows => r = t
    BY <1>1 DEF NewRow
  <2>4. r \in Written(t) \ Rows => executed[r] = 0 /\ seen[t].filled[r] <= got[t][r]
    <3>1. executed[t] = 0
      BY <1>0, <1>3 DEF KeyInv, RowsOwned, Engaged
    <3>2. seen[t].filled[t] <= got[t][t]
      BY <1>0, <1>3 DEF Typed
    <3> QED BY <2>3, <3>1, <3>2
  <2>5. r \in Written(t) =>
          IF Peg(r) THEN missed[r] = 0 /\ (~HasRow(r) => got[t][r] = 0)
          ELSE executed[r] + got[t][r] <= job[r].quantity
    <3>1. Peg(r) => missed[r] = 0 /\ got[r][r] = 0
      BY <1>0, <2>1 DEF Engaged
    <3>2. r \in Written(t) => HasRow(r) \/ r = t
      BY <2>3 DEF HasRow, Rows
    <3>3. r \in Written(t) /\ ~Peg(r) => executed[r] + got[t][r] <= job[r].quantity
      BY <1>3, <2>1, <3>2, AddedWithin DEF Active
    <3> QED BY <3>1, <3>2, <3>3
  <2>6. Written(t) \in SUBSET Requests
    BY <1>1 DEF NewRow
  <2> QED BY <1>0, <1>2, <2>1, <2>2, <2>4, <2>5, <2>6, FillsAccounted
<1>6. Written(t) \in SUBSET Requests
  BY <1>1 DEF NewRow
<1> QED BY <1>0, <1>2, <1>3, <1>4, <1>5, <1>6, FillsBooked

LEMMA FeedCommitBooked ==
  ASSUME Grounded, Grounded', Locked, Budget, Behind, Current, Booked, FeedCommit
  PROVE  Booked'
<1>0. Typed /\ Typed' /\ KeyInv /\ Engaged
  BY DEF Grounded
<1>1. /\ FeedEnds /\ raced' = (raced \/ lock # NoOne)
      /\ RowsFilled(feed.got, feed.owed, feed.seen, Rows)
      /\ AccountsFilled(feed.got, feed.owed, feed.seen, Rows)
      /\ feed.got \in Amounts /\ feed.owed \in Sums /\ feed.seen \in Snapshots
  BY <1>0, FeedCommitIs
<1>2. /\ UNCHANGED <<job, stale, exists, pc>> /\ feed.at = "applying"
      /\ Rows \in SUBSET Requests /\ Rows \ Rows = {}
  BY <1>1 DEF FeedEnds, Rows
<1> SUFFICES ASSUME ~raced, NEW a \in exists PROVE BooksOf(a)'
  BY <1>1, <1>2 DEF Booked
<1>3. Seen(feed.seen) /\ BooksOf(a)
  BY <1>2 DEF Current, Booked
<1>4. ASSUME NEW r \in OrdersOf(a)
      PROVE  filled'[r] + missed'[r] =
               IF executed'[r] < job[r].quantity THEN executed'[r] ELSE job[r].quantity
  <2>1. r \in Requests /\ pc[r] # "new" /\ Accounted(r)
    BY <1>3 DEF OrdersOf, BooksOf
  <2>2. HasRow(r) => feed.seen.filled[r] = filled[r] /\ Fits(filled[r], r)
    BY <1>3, <2>1 DEF Seen, Behind, Known, Active, BehindOf
  <2>3. r \in Rows =>
          IF Peg(r) THEN missed[r] = 0 /\ (~HasRow(r) => feed.got[r] = 0)
          ELSE executed[r] + feed.got[r] <= job[r].quantity
    <3>1. Peg(r) => missed[r] = 0
      BY <1>0, <2>1 DEF Engaged
    <3>2. r \in Rows => HasRow(r)
      BY DEF HasRow, Rows
    <3>3. r \in Rows /\ ~Peg(r) => executed[r] + feed.got[r] <= job[r].quantity
      BY <2>1, <3>2, AddedWithin DEF Active
    <3> QED BY <3>1, <3>2, <3>3
  <2> QED BY <1>0, <1>1, <1>2, <2>1, <2>2, <2>3, FillsAccounted
<1>5. \A r \in Requests : pc'[r] = "new" <=> pc[r] = "new"
  BY <1>2
<1> QED BY <1>0, <1>1, <1>2, <1>3, <1>4, <1>5, FillsBooked

LEMMA StepBooked ==
  ASSUME Grounded, Grounded', Locked, Budget, Behind, Current, Booked, [Next]_vars
  PROVE  Booked'
<1>0. Typed /\ Typed' /\ KeyInv /\ Engaged /\ Targeted
  BY DEF Grounded
<1>1. ASSUME NEW t \in Requests, Aside(t) PROVE Booked'
  <2>1. AsideKeeps
    BY <1>0, <1>1, AsideIs
  <2>2. \A r \in Requests : pc[r] # "new" => pc'[r] # "new" /\ job'[r] = job[r]
    BY <1>0, <1>1, AsideJobs
  <2>3. \A r \in Requests : pc[r] = "new" =>
          executed[r] = 0 /\ spent[r] = 0 /\ filled[r] = 0 /\ missed[r] = 0
    BY <1>0, SubmittedIs DEF KeyInv, RowsOwned, Engaged, Untouched
  <2>4. \A r \in Requests : Carried(r)
    BY <2>1, <2>2, <2>3 DEF Carried, AsideKeeps
  <2> QED BY <1>0, <2>1, <2>4, BookedStays DEF AsideKeeps
<1>2. ASSUME NEW t \in Requests, Trade(t) PROVE Booked'
  <2>1. /\ pc[t] = "locking" /\ pc' = [pc EXCEPT ![t] = "committing"] /\ TradeKeepsMost
        /\ stale' = IF seen[t].cash[job[t].account] = cash[job[t].account] THEN stale
                    ELSE stale \cup {job[t].account}
    BY <1>0, <1>2, TradeIs
  <2>2. \A r \in Requests : pc'[r] = "new" <=> pc[r] = "new"
    BY <1>0, <2>1 DEF KeyInv, Shaped
  <2>3. \A r \in Requests : Carried(r)
    BY <2>1, <2>2 DEF Carried, TradeKeepsMost
  <2>4. stale \subseteq stale'
    BY <2>1
  <2> QED BY <1>0, <2>1, <2>3, <2>4, BookedStays DEF TradeKeepsMost
<1>3. ASSUME NEW t \in Requests, Wrote(t) PROVE Booked'
  BY <1>3, WroteBooked
<1>4. ASSUME NEW t \in Requests, Dropped(t) PROVE Booked'
  <2>1. Ends(t) /\ UNCHANGED <<filled, executed, spent, position, cash, raced, missed>>
    BY <1>0, <1>4, DroppedIs
  <2>2. /\ UNCHANGED <<job, exists, stale>>
        /\ \A r \in Requests : pc'[r] = "new" <=> pc[r] = "new"
    BY <1>0, <2>1 DEF Ends, KeyInv, Shaped
  <2>3. \A r \in Requests : Carried(r)
    BY <2>1, <2>2 DEF Carried
  <2> QED BY <1>0, <2>1, <2>2, <2>3, BookedStays
<1>5. ASSUME NEW t \in Requests, DeleteCommit(t) PROVE Booked'
  <2>1. DeleteOf(t) /\ Gone(job[t].account)
    BY <1>0, <1>5, DeleteIs
  <2>2. /\ UNCHANGED <<job, stale, raced, cash, position, missed>> /\ exists' = exists \ {job[t].account}
        /\ \A r \in Requests : pc'[r] = "new" <=> pc[r] = "new"
    BY <1>0, <2>1 DEF DeleteOf, KeyInv, Shaped
  <2>3. \A r \in Requests : Carried(r)
    BY <2>1, <2>2 DEF Carried, Gone, OrdersOf
  <2> QED BY <1>0, <2>2, <2>3, BookedStays
<1>6. ASSUME UNCHANGED <<exists, cash, position, filled, executed, spent, missed, stale, raced, job>>,
             \A r \in Requests : pc'[r] = "new" <=> pc[r] = "new"
      PROVE  Booked'
  <2>1. \A r \in Requests : Carried(r)
    BY <1>6 DEF Carried
  <2> QED BY <1>0, <1>6, <2>1, BookedStays
<1>7. CASE FeedSubmit
  <2>1. FeedKeepsMost
    BY <1>0, <1>7, FeedSubmitIs
  <2> QED BY <1>6, <2>1 DEF FeedKeepsMost
<1>8. CASE FeedRead
  <2>1. FeedKeepsMost
    BY <1>8, FeedReadIs
  <2> QED BY <1>6, <2>1 DEF FeedKeepsMost
<1>9. CASE FeedCommit
  BY <1>9, FeedCommitBooked
<1>10. CASE FeedFails
  <2>1. FeedEnds /\ UNCHANGED <<filled, executed, spent, position, cash, raced, missed>>
    BY <1>10, FeedFailsIs
  <2> QED BY <1>6, <2>1 DEF FeedEnds
<1>11. CASE Restart
  <2>1. RestartOf
    BY <1>0, <1>11, RestartIs
  <2>2. \A r \in Requests : pc'[r] = "new" <=> pc[r] = "new"
    BY <2>1 DEF RestartOf
  <2> QED BY <1>6, <2>1, <2>2 DEF RestartOf
<1>12. CASE UNCHANGED vars
  <2>1. UNCHANGED <<exists, cash, position, filled, executed, spent, missed, stale, raced, job, pc>>
    BY <1>12 DEF vars, core, database, ledger, sessions, history, trail
  <2> QED BY <1>6, <2>1
<1> QED BY <1>1, <1>2, <1>3, <1>4, <1>5, <1>7, <1>8, <1>9, <1>10, <1>11, <1>12, StepIs

LEMMA InitBooked == Init => Booked
<1> SUFFICES ASSUME Init, NEW a \in exists PROVE BooksOf(a)
  BY DEF Booked
<1>1. Typed
  BY InitGrounded DEF Grounded
<1>2. /\ executed = Nothing /\ spent = Nothing /\ filled = Nothing /\ missed = Nothing
      /\ exists = Accounts /\ cash = [b \in Accounts |-> InitialCash]
      /\ position = [b \in Accounts |-> 0]
  BY DEF Init
<1> HIDE DEF Init
<1>3. \A r \in Requests : Gain(a, executed, Requests)[r] = 0 /\ Gain(a, spent, Requests)[r] = 0
  BY <1>2, NothingIs, SignedNothing DEF Gain
<1>4. Shares(a, executed, Requests) = 0
  BY <1>1, <1>3, AmountsNow, SharesIs, SumOfZeros, RequestsAssumption
<1>5. Shares(a, spent, Requests) = 0
  BY <1>1, <1>3, AmountsNow, SharesIs, SumOfZeros, RequestsAssumption
<1>6. ASSUME NEW r \in OrdersOf(a) PROVE Accounted(r)
  <2>1. r \in Requests /\ job[r].quantity \in Nat
    BY <1>1 DEF OrdersOf, Typed, Job, NoJob
  <2> QED BY <1>2, <2>1, NothingIs DEF Accounted
<1>7. position[a] = 0 /\ cash[a] = InitialCash /\ InitialCash \in Int
  BY <1>2, LimitsAssumption
<1> QED BY <1>4, <1>5, <1>6, <1>7 DEF BooksOf

-----------------------------------------------------------------------------
(* Cash covers what open orders may cost at their prices.                    *)

LEMMA Distribute ==
  ASSUME NEW x \in Int, NEW y \in Int, NEW p \in Int
  PROVE  (x - y) * p = x * p - y * p
OBVIOUS

LEMMA ProductIsNat ==
  ASSUME NEW x \in Nat, NEW p \in Nat
  PROVE  x * p \in Nat
OBVIOUS

LEMMA ProductGrows ==
  ASSUME NEW x \in Int, NEW y \in Int, NEW p \in Nat, x <= y
  PROVE  x * p <= y * p /\ x * p \in Int /\ y * p \in Int
<1>1. y - x \in Nat
  OBVIOUS
<1>2. (y - x) * p \in Nat
  BY <1>1, ProductIsNat
<1>3. (y - x) * p = y * p - x * p
  BY Distribute
<1>4. x * p \in Int /\ y * p \in Int
  OBVIOUS
<1> QED BY <1>2, <1>3, <1>4

\* What an order that costs something is.
LEMMA CostsIs ==
  ASSUME Grounded, Locked, Budget, NEW r \in Requests, Costs(r)
  PROVE  /\ Active(r) /\ ~Peg(r) /\ Priceable(r) /\ pc[r] # "new"
         /\ job[r].quantity - executed[r] \in Nat
<1>1. Active(r) /\ Priceable(r)
  BY DEF Costs, Active, HasRow, Open
<1>2. pc[r] # "new"
  BY <1>1 DEF Active, Grounded, KeyInv, RowsOwned
<1>3. job[r] \in Job
  BY <1>2 DEF Grounded, Typed
<1>4. ~Peg(r)
  BY <1>1, <1>3 DEF Priceable, Peg, Job, Priced
<1>5. Total(r) <= job[r].quantity
  BY <1>1, <1>4 DEF Budget
<1>6. /\ Total(r) = executed[r] + Due(r) + left[r]
      /\ executed[r] \in Nat /\ Due(r) \in Nat /\ left[r] \in Nat
  BY TotalIs DEF Grounded
<1>7. job[r].quantity \in Nat
  BY <1>3 DEF Job
<1> QED BY <1>1, <1>2, <1>4, <1>5, <1>6, <1>7

LEMMA CostIs ==
  ASSUME Grounded, Locked, Budget, NEW a
  PROVE  /\ \A r \in Requests : Cost(a)[r] \in Nat
         /\ SumFunctionOnSet(Cost(a), Requests) \in Int
<1>1. ASSUME NEW r \in Requests PROVE Cost(a)[r] \in Nat
  <2>1. CASE r \in OrdersOf(a) /\ Costs(r)
    <3>1. job[r].quantity - executed[r] \in Nat /\ job[r].price \in Nat
      BY <2>1, CostsIs DEF Grounded, Typed, Job, NoJob
    <3>2. (job[r].quantity - executed[r]) * job[r].price \in Nat
      BY <3>1, ProductIsNat
    <3> QED BY <2>1, <3>2 DEF Cost
  <2>2. CASE ~(r \in OrdersOf(a) /\ Costs(r))
    BY <2>2 DEF Cost
  <2> QED BY <2>1, <2>2
<1>2. SumFunctionOnSet(Cost(a), Requests) \in Int
  BY <1>1, SumType, RequestsAssumption
<1> QED BY <1>1, <1>2

\* What order r may cost account a after a step.
NextCosts(a, r) == pc'[r] # "new" /\ job'[r].account = a /\ Costs(r)'

LEMMA CostNext ==
  ASSUME Typed', NEW a
  PROVE  \A r \in Requests :
           /\ Cost(a)'[r] = IF NextCosts(a, r) THEN (job'[r].quantity - executed'[r]) * job'[r].price ELSE 0
           /\ Cost(a)'[r] \in Int
<1> SUFFICES ASSUME NEW r \in Requests
             PROVE  /\ Cost(a)'[r] = IF NextCosts(a, r) THEN (job'[r].quantity - executed'[r]) * job'[r].price ELSE 0
                    /\ Cost(a)'[r] \in Int
  OBVIOUS
<1>1. Cost(a)'[r] = IF NextCosts(a, r) THEN (job'[r].quantity - executed'[r]) * job'[r].price ELSE 0
  BY DEF Cost, OrdersOf, NextCosts
<1>2. executed'[r] \in Int /\ job'[r].quantity \in Int /\ job'[r].price \in Int
  BY DEF Typed, Amounts, Job, NoJob
<1>3. (job'[r].quantity - executed'[r]) * job'[r].price \in Int
  BY <1>2
<1> QED BY <1>1, <1>3

\* Steps that pay nothing, and after which nothing costs more.
LEMMA CoveredStays ==
  ASSUME Grounded, Typed', Locked, Budget, Covered, raced => raced', exists' \subseteq exists,
         stale \subseteq stale', UNCHANGED <<cash, excess, reopened>>,
         \A r \in Requests : pc[r] # "new" => job'[r] = job[r],
         \A r \in Requests : Costs(r)' /\ job'[r].account \in exists' =>
           Costs(r) /\ executed'[r] = executed[r]
  PROVE  Covered'
<1> SUFFICES ASSUME ~raced', NEW a \in exists', ~Exempt(a)'
             PROVE  cash'[a] + excess'[a] >= SumFunctionOnSet(Cost(a)', Requests)
  BY DEF Covered
<1>1. \A r \in reopened : r \in Requests /\ pc[r] # "new" /\ job'[r] = job[r]
  BY DEF Grounded, Engaged
<1>2. ~Exempt(a)
  BY <1>1 DEF Exempt, Priceable
<1>3. cash[a] + excess[a] >= SumFunctionOnSet(Cost(a), Requests)
  BY <1>2 DEF Covered
<1>4. /\ \A r \in Requests : Cost(a)[r] \in Nat
      /\ SumFunctionOnSet(Cost(a), Requests) \in Int
  BY CostIs
<1>5. NotAbove(Cost(a)', Cost(a), Requests)
  <2> SUFFICES ASSUME NEW r \in Requests PROVE Cost(a)'[r] <= Cost(a)[r]
    BY DEF NotAbove
  <2>1. CASE NextCosts(a, r)
    <3>1. Costs(r) /\ executed'[r] = executed[r]
      BY <2>1 DEF NextCosts
    <3>2. pc[r] # "new" /\ job'[r] = job[r]
      BY <3>1, CostsIs
    <3>3. r \in OrdersOf(a)
      BY <2>1, <3>2 DEF NextCosts, OrdersOf
    <3>4. Cost(a)[r] = (job[r].quantity - executed[r]) * job[r].price
      BY <3>1, <3>3 DEF Cost
    <3>5. Cost(a)'[r] = Cost(a)[r]
      BY <2>1, <3>1, <3>2, <3>4, CostNext
    <3>6. Cost(a)[r] \in Nat
      BY <1>4
    <3> QED BY <3>5, <3>6
  <2>2. CASE ~NextCosts(a, r)
    <3>1. Cost(a)'[r] = 0 /\ Cost(a)[r] \in Nat
      BY <1>4, <2>2, CostNext
    <3> QED BY <3>1
  <2> QED BY <2>1, <2>2
<1>6. \A r \in Requests : Cost(a)'[r] \in Int
  BY CostNext
<1>7. /\ SumFunctionOnSet(Cost(a)', Requests) \in Int
      /\ SumFunctionOnSet(Cost(a)', Requests) <= SumFunctionOnSet(Cost(a), Requests)
  BY <1>4, <1>5, <1>6, SumNotMore, SumType, RequestsAssumption
<1>8. cash[a] + excess[a] \in Int
  BY DEF Grounded, Typed
<1> QED BY <1>3, <1>4, <1>7, <1>8

\* The check of a priced buy.
LEMMA PricedIsCovered ==
  ASSUME NEW t \in Requests, Trade(t), Priceable(t)
  PROVE  Pending(job[t].account) + job[t].price * job[t].quantity <= seen[t].cash[job[t].account]
<1>1. PICK bid, ask \in Quotes : RiskAccepts(t, bid, ask)
  BY DEF Trade, Accepts
<1>2. Policy(t) = job[t].price /\ job[t].price # 0
  BY DEF Policy, Priceable
<1>3. Reference(t, bid, ask) = job[t].price
  BY <1>2 DEF Reference
<1> QED BY <1>1, <1>2, <1>3 DEF RiskAccepts, Priceable

\* What pending orders of account a are taken to cost, by order.
PendingBy(a) ==
  [r \in Requests |-> IF r \in OpenOrders(a) /\ job[r].side = "buy" THEN Left(r) * job[r].price ELSE 0]

LEMMA PendingIs ==
  ASSUME Typed, NEW a
  PROVE  /\ \A r \in Requests : PendingBy(a)[r] \in Int
         /\ Pending(a) = SumFunctionOnSet(PendingBy(a), Requests)
         /\ Pending(a) \in Int
<1> DEFINE w == [r \in Requests |-> Left(r) * job[r].price]
           T == {r \in OpenOrders(a) : job[r].side = "buy"}
<1>1. ASSUME NEW r \in Requests PROVE w[r] \in Int
  <2>1. Left(r) \in Int /\ job[r].price \in Int
    BY DEF Left, Typed, Amounts, Job, NoJob
  <2>2. Left(r) * job[r].price \in Int
    BY <2>1
  <2> QED BY <2>2
<1>2. T \in SUBSET Requests /\ IsFiniteSet(Requests)
  BY RequestsAssumption DEF OpenOrders, OrdersOf
<1>3. MaskOf(PendingBy(a), w, T, Requests)
  BY DEF MaskOf, PendingBy
<1>4. \A r \in Requests : PendingBy(a)[r] \in Int
  BY <1>1 DEF PendingBy
<1>5. Pending(a) = SumFunctionOnSet(w, T)
  BY DEF Pending
<1> HIDE DEF w, T
<1>6. \A x \in T : w[x] \in Int
  BY <1>1, <1>2
<1>7. SumFunctionOnSet(w, T) = SumFunctionOnSet(PendingBy(a), Requests)
  BY <1>2, <1>3, <1>6, SumMasked
<1>8. SumFunctionOnSet(PendingBy(a), Requests) \in Int
  BY <1>2, <1>4, SumType
<1> QED BY <1>4, <1>5, <1>7, <1>8

\* What the trade of a priced buy adds to what its account's orders may cost.
Extra(t) == [r \in Requests |-> IF r = t THEN job[t].price * job[t].quantity ELSE 0]

LEMMA ExtraIs ==
  ASSUME Typed, NEW t \in Requests
  PROVE  /\ \A r \in Requests : Extra(t)[r] \in Int
         /\ SumFunctionOnSet(Extra(t), Requests) = job[t].price * job[t].quantity
<1> DEFINE z == [r \in Requests |-> 0]
           n == job[t].price * job[t].quantity
<1>1. job[t].price \in Int /\ job[t].quantity \in Int
  BY DEF Typed, Job, NoJob
<1>2. n \in Int
  BY <1>1
<1>3. \A r \in Requests : z[r] \in Int /\ z[r] = 0
  OBVIOUS
<1>4. ChangedAt(Extra(t), z, Requests, t) /\ Extra(t)[t] = n
  BY DEF ChangedAt, Extra
<1> HIDE DEF z, n
<1>5. SumFunctionOnSet(z, Requests) = 0
  BY <1>3, SumOfZeros, RequestsAssumption
<1>6. SumFunctionOnSet(Extra(t), Requests) = SumFunctionOnSet(z, Requests) - z[t] + Extra(t)[t]
  BY <1>2, <1>3, <1>4, SumChange, RequestsAssumption
<1>7. SumFunctionOnSet(Extra(t), Requests) = n
  BY <1>2, <1>3, <1>4, <1>5, <1>6
<1>8. \A r \in Requests : Extra(t)[r] \in Int
  BY <1>2 DEF Extra, n
<1> QED BY <1>7, <1>8 DEF n

LEMMA TradeCovered ==
  ASSUME Grounded, Typed', Locked, Budget, Behind, Covered, NEW t \in Requests, Trade(t)
  PROVE  Covered'
<1>0. Typed /\ KeyInv /\ Engaged
  BY DEF Grounded
<1>1. /\ pc[t] = "locking" /\ lock = NoOne /\ pc' = [pc EXCEPT ![t] = "committing"] /\ TradeKeepsMost
      /\ stale' = IF seen[t].cash[job[t].account] = cash[job[t].account] THEN stale
                  ELSE stale \cup {job[t].account}
  BY <1>0, TradeIs
<1>2. /\ UNCHANGED <<exists, cash, excess, executed, status, job, raced, reopened>>
      /\ stale \subseteq stale'
  BY <1>1 DEF TradeKeepsMost
<1>3. /\ pc'[t] = "committing" /\ \A r \in Requests \ {t} : pc'[r] = pc[r]
      /\ \A r \in Requests : pc[r] # "committing"
      /\ \A r \in Requests : pc'[r] = "new" <=> pc[r] = "new"
  BY <1>0, <1>1, NotCommitting DEF KeyInv, Shaped
<1>4. \A r \in Requests \ {t} : Costs(r)' => Costs(r)
  BY <1>2, <1>3 DEF Costs, Priceable
<1>5. CASE ~Priceable(t)
  <2>1. \A r \in Requests : Costs(r)' => Costs(r)
    BY <1>2, <1>4, <1>5 DEF Costs, Priceable
  <2> QED BY <1>2, <2>1, CoveredStays
<1>6. CASE Priceable(t)
  <2> SUFFICES ASSUME ~raced', NEW a \in exists', ~Exempt(a)'
               PROVE  cash'[a] + excess'[a] >= SumFunctionOnSet(Cost(a)', Requests)
    BY DEF Covered
  <2>1. ~Exempt(a)
    BY <1>2 DEF Exempt, Priceable
  <2>2. cash[a] + excess[a] >= SumFunctionOnSet(Cost(a), Requests)
    BY <1>2, <2>1 DEF Covered
  <2>3. /\ \A r \in Requests : Cost(a)[r] \in Nat
        /\ SumFunctionOnSet(Cost(a), Requests) \in Int
    BY CostIs
  <2>4. \A r \in Requests : Cost(a)'[r] \in Int
    BY CostNext
  <2>5. cash[a] \in Int /\ excess[a] \in Nat
    BY <1>0, <1>2 DEF Typed
  <2>6. CASE a # job[t].account
    <3>1. SameOn(Cost(a)', Cost(a), Requests)
      <4> SUFFICES ASSUME NEW r \in Requests PROVE Cost(a)'[r] = Cost(a)[r]
        BY DEF SameOn
      <4>1. Costs(r) => Costs(r)'
        BY <1>2, <1>3 DEF Costs, Priceable
      <4>2. r # t => (NextCosts(a, r) <=> r \in OrdersOf(a) /\ Costs(r))
        BY <1>2, <1>3, <1>4, <4>1 DEF NextCosts, OrdersOf
      <4>3. r = t => ~NextCosts(a, r) /\ r \notin OrdersOf(a)
        BY <1>2, <2>6 DEF NextCosts, OrdersOf
      <4>4. Cost(a)'[r] = IF NextCosts(a, r) THEN (job[r].quantity - executed[r]) * job[r].price ELSE 0
        BY <1>2, CostNext
      <4> QED BY <4>2, <4>3, <4>4 DEF Cost
    <3>2. SumFunctionOnSet(Cost(a)', Requests) = SumFunctionOnSet(Cost(a), Requests)
      BY <2>3, <3>1, SumSame, RequestsAssumption
    <3> QED BY <1>2, <2>2, <3>2
  <2>7. CASE a = job[t].account
    <3> DEFINE n == job[t].price * job[t].quantity
               u == [r \in Requests |-> PendingBy(a)[r] + Extra(t)[r]]
    <3>1. seen[t].cash[a] = cash[a]
      BY <1>1, <2>7 DEF Exempt
    <3>2. Pending(a) + n <= cash[a]
      BY <1>6, <2>7, <3>1, PricedIsCovered
    <3>3. /\ \A r \in Requests : PendingBy(a)[r] \in Int
          /\ Pending(a) = SumFunctionOnSet(PendingBy(a), Requests) /\ Pending(a) \in Int
      BY <1>0, PendingIs
    <3>4. /\ \A r \in Requests : Extra(t)[r] \in Int
          /\ SumFunctionOnSet(Extra(t), Requests) = n
      BY <1>0, ExtraIs
    <3>5. Adds(u, PendingBy(a), Extra(t), Requests) /\ \A r \in Requests : u[r] \in Int
      BY <3>3, <3>4 DEF Adds
    <3>6. NotAbove(Cost(a)', u, Requests)
      <4> SUFFICES ASSUME NEW r \in Requests PROVE Cost(a)'[r] <= u[r]
        BY DEF NotAbove
      <4>1. u[r] = PendingBy(a)[r] + Extra(t)[r]
        OBVIOUS
      <4>2. /\ executed[r] \in Nat /\ filled[r] \in Nat
            /\ job[r].quantity \in Nat /\ job[r].price \in Nat
        BY <1>0 DEF Typed, Amounts, Job, NoJob
      <4>3. Cost(a)'[r] = IF NextCosts(a, r) THEN (job[r].quantity - executed[r]) * job[r].price ELSE 0
        BY <1>2, CostNext
      <4>4. CASE r = t
        <5>1. executed[t] = 0 /\ ~HasRow(t)
          BY <1>0, <1>1 DEF KeyInv, RowsOwned, Engaged
        <5>2. PendingBy(a)[t] = 0
          BY <5>1 DEF PendingBy, OpenOrders, Open, HasRow
        <5>3. Extra(t)[t] = job[t].price * job[t].quantity
          BY DEF Extra
        <5>4. (job[t].quantity - executed[t]) * job[t].price = job[t].price * job[t].quantity
          BY <4>2, <4>4, <5>1
        <5>5. job[t].price * job[t].quantity \in Nat
          BY <4>2, <4>4, ProductIsNat
        <5> QED BY <4>1, <4>3, <4>4, <5>2, <5>3, <5>4, <5>5
      <4>5. CASE r # t
        <5>1. Extra(t)[r] = 0
          BY <4>5 DEF Extra
        <5>2. u[r] = PendingBy(a)[r]
          BY <3>3, <4>1, <5>1
        <5>3. CASE NextCosts(a, r)
          <6>1. Costs(r) /\ r \in OrdersOf(a)
            BY <1>2, <1>3, <1>4, <4>5, <5>3 DEF NextCosts, OrdersOf
          <6>2. r \in OpenOrders(a) /\ job[r].side = "buy"
            BY <1>3, <6>1 DEF Costs, OpenOrders, Priceable
          <6>3. PendingBy(a)[r] = (job[r].quantity - filled[r]) * job[r].price
            BY <6>2 DEF PendingBy, Left
          <6>4. filled[r] <= executed[r]
            BY <6>1, CostsIs DEF Behind, BehindOf, Known, Fits
          <6>5. job[r].quantity - executed[r] <= job[r].quantity - filled[r]
            BY <4>2, <6>4
          <6>6. (job[r].quantity - executed[r]) * job[r].price <= (job[r].quantity - filled[r]) * job[r].price
            BY <4>2, <6>5, ProductGrows
          <6> QED BY <4>3, <5>2, <5>3, <6>3, <6>6
        <5>4. CASE ~NextCosts(a, r)
          <6>1. PendingBy(a)[r] >= 0
            <7>1. CASE r \in OpenOrders(a) /\ job[r].side = "buy"
              <8>1. Active(r)
                BY <7>1 DEF OpenOrders, Open, Active, HasRow
              <8>2. filled[r] <= job[r].quantity
                BY <8>1 DEF Behind, BehindOf, Known, Fits
              <8>3. Left(r) \in Nat
                BY <4>2, <8>2 DEF Left
              <8>4. Left(r) * job[r].price \in Nat
                BY <4>2, <8>3, ProductIsNat
              <8>5. PendingBy(a)[r] = Left(r) * job[r].price
                BY <7>1 DEF PendingBy
              <8> QED BY <8>4, <8>5
            <7>2. CASE ~(r \in OpenOrders(a) /\ job[r].side = "buy")
              BY <7>2 DEF PendingBy
            <7> QED BY <7>1, <7>2
          <6> QED BY <4>3, <5>2, <5>4, <6>1
        <5> QED BY <5>3, <5>4
      <4> QED BY <4>4, <4>5
    <3> HIDE DEF u, n
    <3>7. SumFunctionOnSet(u, Requests) = Pending(a) + n
      BY <3>3, <3>4, <3>5, SumAdds, RequestsAssumption
    <3>8. SumFunctionOnSet(Cost(a)', Requests) <= SumFunctionOnSet(u, Requests)
      BY <2>4, <3>5, <3>6, SumNotMore, RequestsAssumption
    <3>9. /\ SumFunctionOnSet(Cost(a)', Requests) \in Int
          /\ SumFunctionOnSet(u, Requests) \in Int
      BY <2>4, <3>5, SumType, RequestsAssumption
    <3> QED BY <1>2, <2>5, <3>2, <3>7, <3>8, <3>9
  <2> QED BY <2>6, <2>7
<1> QED BY <1>5, <1>6

\* What fills of account a cost, less what they cost beyond the prices of their
\* orders, comes out of what the orders could cost.
FillsWithin(a, r, g, w, touched) ==
  Cost(a)'[r] + Gain(a, w, touched)[r] <= Cost(a)[r] + Excesses(a, g, w, touched)[r]

\* What a row or a new row is to fills of g.
Fillable(a, r, g, rows) ==
  /\ pc'[r] = "new" <=> pc[r] = "new"
  /\ pc'[r] = "committing" => pc[r] = "committing"
  /\ r \in rows => Active(r)
  /\ r \in rows /\ ~Peg(r) => executed[r] + g[r] <= job[r].quantity
  /\ Priceable(r) /\ r \in OrdersOf(a) /\ r \in Touched(g, rows) => status[r] \notin Closed

LEMMA CostsBefore ==
  ASSUME Grounded, NEW g, NEW w, NEW values, NEW rows, RowsFilled(g, w, values, rows), job' = job,
         NEW a, NEW r \in Requests, Fillable(a, r, g, rows)
  PROVE  /\ Priceable(r) /\ r \in OrdersOf(a) /\ r \in Touched(g, rows) => Costs(r)
         /\ NextCosts(a, r) => r \in OrdersOf(a) /\ Priceable(r) /\ (r \notin Touched(g, rows) => Costs(r))
<1>1. status[r] \in Statuses
  BY DEF Grounded, KeyInv, Shaped
<1>2. Priceable(r) /\ r \in OrdersOf(a) /\ r \in Touched(g, rows) => Costs(r)
  BY <1>1 DEF Fillable, Touched, Costs, Active, HasRow, Statuses
<1>3. NextCosts(a, r) => r \in OrdersOf(a) /\ Priceable(r)
  BY DEF NextCosts, Costs, Priceable, OrdersOf, Fillable
<1>4. ASSUME NextCosts(a, r), r \notin Touched(g, rows) PROVE Costs(r)
  <2>1. LabelOf(r, g, values, rows)
    BY DEF RowsFilled
  <2>2. CASE r \in rows \ Rows
    <3>1. pc[r] = "committing"
      BY <2>2 DEF Fillable, Active, HasRow, Rows
    <3> QED BY <1>3, <1>4, <3>1 DEF Costs
  <2>3. CASE r \notin rows \ Rows
    <3>1. status'[r] = status[r]
      BY <1>4, <2>1, <2>3 DEF LabelOf
    <3> QED BY <1>3, <1>4, <3>1 DEF NextCosts, Costs, Fillable
  <2> QED BY <2>2, <2>3
<1> QED BY <1>2, <1>3, <1>4

LEMMA FillWithin ==
  ASSUME Grounded, Typed', Locked, Budget, NEW g \in Amounts, NEW w \in Sums, NEW values, NEW rows,
         RowsFilled(g, w, values, rows), job' = job,
         NEW a, NEW r \in Requests, Fillable(a, r, g, rows)
  PROVE  FillsWithin(a, r, g, w, Touched(g, rows))
<1> DEFINE touched == Touched(g, rows)
           p == job[r].price
           q == job[r].quantity
           e == executed[r]
           n == g[r]
           b == Beyond(r, g[r], w[r])
<1>0. Typed
  BY DEF Grounded
<1>1. p \in Nat /\ q \in Nat /\ e \in Nat /\ n \in Nat /\ w[r] \in Int
  BY <1>0 DEF Typed, Amounts, Sums, Job, NoJob
<1>2. /\ b \in Nat /\ n * p \in Nat
      /\ job[r].side = "buy" => b >= w[r] - n * p
      /\ job[r].side # "buy" => b >= -w[r]
  BY <1>0, <1>1, BeyondIs
<1>3. /\ Cost(a)'[r] = IF NextCosts(a, r) THEN (q - executed'[r]) * p ELSE 0
      /\ Cost(a)'[r] \in Int
  BY CostNext
<1>4. Cost(a)[r] = (IF r \in OrdersOf(a) /\ Costs(r) THEN (q - e) * p ELSE 0) /\ Cost(a)[r] \in Nat
  BY CostIs DEF Cost
<1>5. executed'[r] = IF r \in touched THEN e + n ELSE e
  BY DEF RowsFilled, ExecutedOf
<1>6. /\ Gain(a, w, touched)[r] = IF r \in touched /\ r \in OrdersOf(a) THEN Signed(job[r].side, w[r]) ELSE 0
      /\ Excesses(a, g, w, touched)[r] = IF r \in touched /\ r \in OrdersOf(a) THEN b ELSE 0
  BY DEF Gain, Excesses
<1>7. /\ Priceable(r) /\ r \in OrdersOf(a) /\ r \in touched => Costs(r)
      /\ NextCosts(a, r) => r \in OrdersOf(a) /\ Priceable(r) /\ (r \notin touched => Costs(r))
  BY CostsBefore
<1>8. r \in touched /\ Priceable(r) => n + e <= q
  <2>1. Priceable(r) => ~Peg(r)
    BY <1>0 DEF Priceable, Peg, Typed, Job, NoJob, Priced
  <2>2. r \in touched /\ ~Peg(r) => e + n <= q
    BY DEF Fillable, Touched
  <2> QED BY <1>1, <2>1, <2>2
<1>9. /\ Priceable(r) => job[r].side = "buy"
      /\ job[r].side = "buy" /\ ~Priceable(r) => p = 0
  BY <1>1 DEF Priceable
<1>10. Signed(job[r].side, w[r]) = IF job[r].side = "buy" THEN w[r] ELSE -w[r]
  BY DEF Signed
<1> SUFFICES Cost(a)'[r] + Gain(a, w, touched)[r] <= Cost(a)[r] + Excesses(a, g, w, touched)[r]
  BY DEF FillsWithin
<1> HIDE DEF touched, p, q, e, n, b
<1>11. CASE r \in touched /\ r \in OrdersOf(a) /\ Priceable(r)
  <2>1. Gain(a, w, touched)[r] = w[r] /\ Excesses(a, g, w, touched)[r] = b
    BY <1>6, <1>9, <1>10, <1>11
  <2>2. Cost(a)[r] = (q - e) * p /\ (q - e) * p \in Nat
    BY <1>4, <1>7, <1>11
  <2>3. n * p <= (q - e) * p
    <3>1. n <= q - e /\ q - e \in Int
      BY <1>1, <1>8, <1>11
    <3> QED BY <1>1, <3>1, ProductGrows
  <2>4. (q - (e + n)) * p = (q - e) * p - n * p
    <3>1. q - (e + n) = (q - e) - n /\ q - e \in Int
      BY <1>1
    <3> QED BY <1>1, <3>1, Distribute
  <2>5. Cost(a)'[r] <= (q - e) * p - n * p
    <3>1. CASE NextCosts(a, r)
      <4>1. Cost(a)'[r] = (q - e) * p - n * p
        BY <1>3, <1>5, <1>11, <2>4, <3>1
      <4> QED BY <1>3, <4>1
    <3>2. CASE ~NextCosts(a, r)
      <4>1. Cost(a)'[r] = 0
        BY <1>3, <3>2
      <4> QED BY <1>2, <2>2, <2>3, <4>1
    <3> QED BY <3>1, <3>2
  <2>6. b >= w[r] - n * p
    BY <1>2, <1>9, <1>11
  <2> QED BY <1>1, <1>2, <1>3, <2>1, <2>2, <2>5, <2>6
<1>12. CASE r \in touched /\ r \in OrdersOf(a) /\ ~Priceable(r)
  <2>1. Cost(a)'[r] = 0 /\ Cost(a)[r] = 0
    BY <1>3, <1>4, <1>7, <1>12 DEF Costs
  <2>2. CASE job[r].side = "buy"
    <3>1. Gain(a, w, touched)[r] = w[r] /\ Excesses(a, g, w, touched)[r] = b
      BY <1>6, <1>10, <1>12, <2>2
    <3>2. n * p = 0
      <4>1. p = 0
        BY <1>9, <1>12, <2>2
      <4> QED BY <1>1, <4>1
    <3>3. b >= w[r]
      BY <1>1, <1>2, <2>2, <3>2
    <3> QED BY <1>1, <1>2, <2>1, <3>1, <3>3
  <2>3. CASE job[r].side # "buy"
    <3>1. Gain(a, w, touched)[r] = -w[r] /\ Excesses(a, g, w, touched)[r] = b
      BY <1>6, <1>10, <1>12, <2>3
    <3> QED BY <1>1, <1>2, <2>1, <2>3, <3>1
  <2> QED BY <2>2, <2>3
<1>13. CASE ~(r \in touched /\ r \in OrdersOf(a))
  <2>1. Gain(a, w, touched)[r] = 0 /\ Excesses(a, g, w, touched)[r] = 0
    BY <1>6, <1>13
  <2>2. Cost(a)'[r] <= Cost(a)[r]
    <3>1. CASE NextCosts(a, r)
      <4>1. r \in OrdersOf(a) /\ r \notin touched /\ Costs(r)
        BY <1>7, <1>13, <3>1
      <4>2. Cost(a)'[r] = Cost(a)[r]
        BY <1>3, <1>4, <1>5, <3>1, <4>1
      <4> QED BY <1>4, <4>2
    <3>2. CASE ~NextCosts(a, r)
      BY <1>3, <1>4, <3>2
    <3> QED BY <3>1, <3>2
  <2> QED BY <1>3, <1>4, <2>1, <2>2
<1> QED BY <1>11, <1>12, <1>13

LEMMA FillsCovered ==
  ASSUME Grounded, Typed', Locked, Budget, Covered, ~raced,
         NEW g \in Amounts, NEW w \in Sums, NEW values \in Snapshots, NEW rows \in SUBSET Requests,
         RowsFilled(g, w, values, rows), AccountsFilled(g, w, values, rows), Seen(values),
         reopened' = reopened \cup {r \in Touched(g, rows) : status[r] \in Closed},
         UNCHANGED <<job, stale, exists>>,
         \A r \in Requests : /\ pc'[r] = "new" <=> pc[r] = "new"
                             /\ pc'[r] = "committing" => pc[r] = "committing"
                             /\ r \in rows => Active(r)
                             /\ r \in rows /\ ~Peg(r) => executed[r] + g[r] <= job[r].quantity
  PROVE  Covered'
<1> DEFINE touched == Touched(g, rows)
<1> SUFFICES ASSUME NEW a \in exists, ~Exempt(a)'
             PROVE  cash'[a] + excess'[a] >= SumFunctionOnSet(Cost(a)', Requests)
  BY DEF Covered
<1>0. Typed
  BY DEF Grounded
<1>1. ~Exempt(a) /\ a \notin stale
  BY DEF Exempt, Priceable
<1>2. cash[a] + excess[a] >= SumFunctionOnSet(Cost(a), Requests)
  BY <1>1 DEF Covered
<1>3. ASSUME NEW r \in Requests PROVE Fillable(a, r, g, rows)
  <2>1. Priceable(r) /\ r \in OrdersOf(a) /\ r \in touched => status[r] \notin Closed
    <3>1. r \in touched /\ status[r] \in Closed => r \in reopened'
      OBVIOUS
    <3>2. r \in OrdersOf(a) => job[r].account = a
      BY DEF OrdersOf
    <3> QED BY <3>1, <3>2 DEF Exempt, Priceable
  <2> QED BY <2>1 DEF Fillable
<1>4. \A r \in Requests : FillsWithin(a, r, g, w, touched)
  BY <1>3, FillWithin
<1>5. /\ Shares(a, w, touched) \in Int
      /\ cash'[a] = cash[a] - Shares(a, w, touched)
  BY <1>0, <1>1, FillsMove
<1>6. /\ a \in Accounts /\ cash[a] \in Int /\ excess[a] \in Nat
      /\ excess'[a] = excess[a] + Overpaid(a, g, w, touched)
  BY <1>0 DEF Typed, AccountsFilled
<1>7. /\ \A r \in Requests : Excesses(a, g, w, touched)[r] \in Nat
      /\ Overpaid(a, g, w, touched) = SumFunctionOnSet(Excesses(a, g, w, touched), Requests)
      /\ Overpaid(a, g, w, touched) \in Nat
  BY <1>0, OverpaidIs
<1>8. /\ \A r \in Requests : Gain(a, w, touched)[r] \in Int
      /\ Shares(a, w, touched) = SumFunctionOnSet(Gain(a, w, touched), Requests)
  BY AmountsAreInts, SharesIs
<1>9. /\ \A r \in Requests : Cost(a)[r] \in Nat
      /\ SumFunctionOnSet(Cost(a), Requests) \in Int
  BY CostIs
<1>10. \A r \in Requests : Cost(a)'[r] \in Int
  BY CostNext
<1> HIDE DEF touched
<1> DEFINE u == [r \in Requests |-> Cost(a)'[r] + Gain(a, w, touched)[r]]
           v == [r \in Requests |-> Cost(a)[r] + Excesses(a, g, w, touched)[r]]
<1>11. /\ \A r \in Requests : u[r] \in Int /\ v[r] \in Int
       /\ Adds(u, Cost(a)', Gain(a, w, touched), Requests)
       /\ Adds(v, Cost(a), Excesses(a, g, w, touched), Requests)
  BY <1>7, <1>8, <1>9, <1>10 DEF Adds
<1>12. NotAbove(u, v, Requests)
  BY <1>4 DEF NotAbove, FillsWithin
<1> HIDE DEF u, v
<1>13. SumFunctionOnSet(u, Requests) = SumFunctionOnSet(Cost(a)', Requests) + Shares(a, w, touched)
  BY <1>8, <1>10, <1>11, SumAdds, RequestsAssumption
<1>14. SumFunctionOnSet(v, Requests) = SumFunctionOnSet(Cost(a), Requests) + Overpaid(a, g, w, touched)
  <2>1. (\A r \in Requests : Cost(a)[r] \in Int) /\ \A r \in Requests : Excesses(a, g, w, touched)[r] \in Int
    BY <1>7, <1>9
  <2> QED BY <1>7, <1>11, <2>1, SumAdds, RequestsAssumption
<1>15. SumFunctionOnSet(u, Requests) <= SumFunctionOnSet(v, Requests)
  BY <1>11, <1>12, SumNotMore, RequestsAssumption
<1>16. SumFunctionOnSet(Cost(a)', Requests) \in Int
  BY <1>10, SumType, RequestsAssumption
<1> QED BY <1>2, <1>5, <1>6, <1>7, <1>9, <1>13, <1>14, <1>15, <1>16

LEMMA WroteCovered ==
  ASSUME Grounded, Typed', Locked, Budget, Current, Covered, NEW t \in Requests, Wrote(t)
  PROVE  Covered'
<1>0. Typed /\ KeyInv
  BY DEF Grounded
<1>1. Ends(t) /\ NewRow(t, Written(t)) /\ raced' = (raced \/ feed.at = "applying")
  BY <1>0, WroteIs
<1>2. /\ RowsFilled(got[t], owed[t], seen[t], Written(t))
      /\ AccountsFilled(got[t], owed[t], seen[t], Written(t))
      /\ reopened' = reopened \cup {r \in Touched(got[t], Written(t)) : status[r] \in Closed}
      /\ got[t] \in Amounts /\ owed[t] \in Sums /\ seen[t] \in Snapshots
  BY <1>0, WroteFills
<1>3. /\ pc[t] = "committing" /\ UNCHANGED <<job, stale, exists>> /\ lock = t /\ lock # NoOne
      /\ \A r \in Requests : pc'[r] = "new" <=> pc[r] = "new"
      /\ \A r \in Requests : pc'[r] = "committing" => pc[r] = "committing"
  BY <1>0, <1>1, OnlyCommitting DEF Ends, KeyInv, Shaped
<1>4. Written(t) \in SUBSET Requests /\ \A r \in Written(t) : Active(r)
  BY <1>1, <1>3 DEF NewRow, Active, HasRow, Rows
<1>5. \A r \in Written(t) : ~Peg(r) => executed[r] + got[t][r] <= job[r].quantity
  BY <1>3, <1>4, AddedWithin
<1>6. CASE raced'
  BY <1>6 DEF Covered
<1>7. CASE ~raced'
  <2>1. ~raced /\ Seen(seen[t])
    BY <1>1, <1>3, <1>7 DEF Current
  <2> QED BY <1>2, <1>3, <1>4, <1>5, <2>1, FillsCovered
<1> QED BY <1>6, <1>7

LEMMA FeedCommitCovered ==
  ASSUME Grounded, Typed', Locked, Budget, Current, Covered, FeedCommit
  PROVE  Covered'
<1>0. Typed /\ KeyInv
  BY DEF Grounded
<1>1. /\ FeedEnds /\ raced' = (raced \/ lock # NoOne)
      /\ RowsFilled(feed.got, feed.owed, feed.seen, Rows)
      /\ AccountsFilled(feed.got, feed.owed, feed.seen, Rows)
      /\ reopened' = reopened \cup {r \in Touched(feed.got, Rows) : status[r] \in Closed}
      /\ feed.got \in Amounts /\ feed.owed \in Sums /\ feed.seen \in Snapshots
  BY <1>0, FeedCommitIs
<1>2. UNCHANGED <<job, stale, exists, pc>> /\ feed.at = "applying"
  BY <1>1 DEF FeedEnds
<1>3. Rows \in SUBSET Requests /\ \A r \in Rows : Active(r)
  BY DEF Active, HasRow, Rows
<1>4. \A r \in Rows : ~Peg(r) => executed[r] + feed.got[r] <= job[r].quantity
  BY <1>3, AddedWithin
<1>5. CASE raced'
  BY <1>5 DEF Covered
<1>6. CASE ~raced'
  <2>1. ~raced /\ Seen(feed.seen)
    BY <1>1, <1>2, <1>6 DEF Current
  <2> QED BY <1>1, <1>2, <1>3, <1>4, <2>1, FillsCovered
<1> QED BY <1>5, <1>6

LEMMA StepCovered ==
  ASSUME Grounded, Grounded', Locked, Budget, Behind, Current, Covered, [Next]_vars
  PROVE  Covered'
<1>0. Typed /\ Typed' /\ KeyInv /\ Engaged /\ Targeted
  BY DEF Grounded
<1>1. ASSUME NEW t \in Requests, Aside(t) PROVE Covered'
  <2>1. AsideKeeps /\ Closes(t)
    BY <1>0, <1>1, AsideIs
  <2>2. /\ \A r \in Requests : pc[r] # "new" => pc'[r] # "new" /\ job'[r] = job[r]
        /\ \A r \in Requests : pc'[r] = "committing" <=> pc[r] = "committing"
    BY <1>0, <1>1, AsideJobs
  <2>3. ASSUME NEW r \in Requests, Costs(r)' PROVE Costs(r) /\ executed'[r] = executed[r]
    <3>1. status'[r] \in Open => status[r] \in Open
      BY <2>1 DEF Closes, Open, Called
    <3>2. status[r] \in Open \/ pc[r] = "committing"
      BY <2>2, <2>3, <3>1 DEF Costs
    <3>3. pc[r] # "new"
      BY <1>0, <3>2 DEF KeyInv, RowsOwned, HasRow, Open
    <3>4. job'[r] = job[r]
      BY <2>2, <3>3
    <3> QED BY <2>1, <2>3, <3>2, <3>4 DEF Costs, Priceable, AsideKeeps
  <2> QED BY <1>0, <2>1, <2>2, <2>3, CoveredStays DEF AsideKeeps
<1>2. ASSUME NEW t \in Requests, Trade(t) PROVE Covered'
  BY <1>0, <1>2, TradeCovered
<1>3. ASSUME NEW t \in Requests, Wrote(t) PROVE Covered'
  BY <1>0, <1>3, WroteCovered
<1>4. ASSUME NEW t \in Requests, Dropped(t) PROVE Covered'
  <2>1. Ends(t) /\ UNCHANGED <<status, executed, cash, raced, reopened, excess>>
    BY <1>0, <1>4, DroppedIs
  <2>2. UNCHANGED <<job, exists, stale>> /\ \A r \in Requests : pc'[r] = "committing" => pc[r] = "committing"
    BY <1>0, <2>1, OnlyCommitting DEF Ends, KeyInv, Shaped
  <2>3. \A r \in Requests : Costs(r)' => Costs(r) /\ executed'[r] = executed[r]
    BY <2>1, <2>2 DEF Costs, Priceable
  <2> QED BY <1>0, <2>1, <2>2, <2>3, CoveredStays
<1>5. ASSUME NEW t \in Requests, DeleteCommit(t) PROVE Covered'
  <2>1. DeleteOf(t) /\ Gone(job[t].account)
    BY <1>0, <1>5, DeleteIs
  <2>2. /\ UNCHANGED <<job, stale, raced, cash, excess, reopened>> /\ exists' \subseteq exists
        /\ \A r \in Requests : pc'[r] = "committing" => pc[r] = "committing"
    BY <1>0, <2>1 DEF DeleteOf, KeyInv, Shaped
  <2>3. ASSUME NEW r \in Requests, Costs(r)', job'[r].account \in exists'
        PROVE  Costs(r) /\ executed'[r] = executed[r]
    <3>1. r \notin OrdersOf(job[t].account)
      BY <2>1, <2>2, <2>3 DEF DeleteOf, OrdersOf
    <3>2. status'[r] = status[r] /\ executed'[r] = executed[r]
      BY <2>1, <3>1 DEF Gone
    <3> QED BY <2>2, <2>3, <3>2 DEF Costs, Priceable
  <2> QED BY <1>0, <2>2, <2>3, CoveredStays
<1>6. ASSUME UNCHANGED <<exists, cash, executed, status, stale, raced, reopened, excess, job>>,
             \A r \in Requests : pc'[r] = "committing" => pc[r] = "committing"
      PROVE  Covered'
  <2>1. \A r \in Requests : Costs(r)' => Costs(r) /\ executed'[r] = executed[r]
    BY <1>6 DEF Costs, Priceable
  <2> QED BY <1>0, <1>6, <2>1, CoveredStays
<1>7. CASE FeedSubmit
  <2>1. FeedKeepsMost
    BY <1>0, <1>7, FeedSubmitIs
  <2> QED BY <1>6, <2>1 DEF FeedKeepsMost
<1>8. CASE FeedRead
  <2>1. FeedKeepsMost
    BY <1>8, FeedReadIs
  <2> QED BY <1>6, <2>1 DEF FeedKeepsMost
<1>9. CASE FeedCommit
  BY <1>0, <1>9, FeedCommitCovered
<1>10. CASE FeedFails
  <2>1. FeedEnds /\ UNCHANGED <<status, executed, cash, raced, reopened, excess>>
    BY <1>10, FeedFailsIs
  <2> QED BY <1>6, <2>1 DEF FeedEnds
<1>11. CASE Restart
  <2>1. RestartOf
    BY <1>0, <1>11, RestartIs
  <2>2. \A r \in Requests : pc'[r] # "committing"
    BY <2>1 DEF RestartOf
  <2> QED BY <1>6, <2>1, <2>2 DEF RestartOf
<1>12. CASE UNCHANGED vars
  <2>1. UNCHANGED <<exists, cash, executed, status, stale, raced, reopened, excess, job, pc>>
    BY <1>12 DEF vars, core, database, ledger, sessions, history, trail
  <2> QED BY <1>6, <2>1
<1> QED BY <1>1, <1>2, <1>3, <1>4, <1>5, <1>7, <1>8, <1>9, <1>10, <1>11, <1>12, StepIs

LEMMA InitCovered == Init => Covered
<1> SUFFICES ASSUME Init, NEW a \in exists
             PROVE  cash[a] + excess[a] >= SumFunctionOnSet(Cost(a), Requests)
  BY DEF Covered
<1>1. /\ status = [r \in Requests |-> "none"] /\ pc = [r \in Requests |-> "new"] /\ exists = Accounts
      /\ cash = [b \in Accounts |-> InitialCash] /\ excess = [b \in Accounts |-> 0]
  BY DEF Init
<1> HIDE DEF Init
<1>2. \A r \in Requests : Cost(a)[r] = 0
  BY <1>1 DEF Cost, OrdersOf
<1>3. SumFunctionOnSet(Cost(a), Requests) = 0
  BY <1>2, SumOfZeros, RequestsAssumption
<1>4. cash[a] = InitialCash /\ excess[a] = 0 /\ InitialCash \in Nat
  BY <1>1, LimitsAssumption
<1> QED BY <1>3, <1>4

-----------------------------------------------------------------------------
(* The theorems.                                                             *)

OrderInv == /\ Grounded /\ Locked
            /\ Budget /\ Behind /\ Current /\ StatusFits /\ Wholes /\ Booked /\ Covered

LEMMA OrderInvAlways == Spec => []OrderInv
<1>1. Init => OrderInv
  BY InitGrounded, InitLocked, InitBudget, InitBehind, InitCurrent, InitStatus, InitWholes, InitBooked,
     InitCovered DEF OrderInv
<1>2. OrderInv /\ [Next]_vars => OrderInv'
  <2> SUFFICES ASSUME OrderInv, [Next]_vars PROVE OrderInv'
    OBVIOUS
  <2>1. Grounded /\ Locked /\ Budget /\ Behind /\ Current /\ StatusFits /\ Wholes /\ Booked /\ Covered
    BY DEF OrderInv
  <2>2. Grounded'
    BY <2>1, StepGrounded
  <2>3. Locked'
    BY <2>1, StepLocked
  <2>4. Budget'
    BY <2>1, <2>2, <2>3, StepBudget
  <2>5. Behind' /\ Current' /\ StatusFits'
    BY <2>1, <2>2, StepBehind, StepCurrent, StepStatus
  <2>6. Wholes'
    BY <2>1, StepWholes
  <2>7. Booked' /\ Covered'
    BY <2>1, <2>2, StepBooked, StepCovered
  <2> QED BY <2>2, <2>3, <2>4, <2>5, <2>6, <2>7 DEF OrderInv
<1> QED BY <1>1, <1>2, PTL DEF Spec

\* Rows, requests, the engine and the lock are what they are declared to be:
\* engine_lock is held from a trade to its commit and at no other time.
THEOREM OrdersTyped == Spec => []TypeOK
<1>1. OrderInv => TypeOK
  <2> SUFFICES ASSUME OrderInv PROVE TypeOK
    OBVIOUS
  <2>1. KeyInv /\ Typed /\ Engaged /\ Locked
    BY DEF OrderInv, Grounded
  <2>2. pegged \subseteq Requests
    BY <2>1 DEF Engaged, KeyInv, Shaped
  <2>3. /\ pc \in [Requests -> {"new", "placing", "locking", "committing", "cancel",
                                "cancelling", "closing", "delete", "deleting", "done"}]
        /\ status \in [Requests -> {"none"} \cup Open \cup Closed]
    BY <2>1 DEF KeyInv, Shaped, Labels, Statuses
  <2>4. \A t \in Requests : (pc[t] = "committing") = (lock = t)
    BY <2>1 DEF KeyInv, LockHeld
  <2>5. feed.at \in {"idle", "filled", "applying"}
    BY <2>1 DEF Typed, Feeds
  <2> QED BY <2>1, <2>2, <2>3, <2>4, <2>5 DEF TypeOK, Typed, Locked, Amounts, Sums
<1> QED BY <1>1, OrderInvAlways, PTL

\* Positions, cash and filled quantities are what the executions come to, through
\* concurrent requests, failed commits and restarts and with orders of any type,
\* as far as LedgerExact claims it: but for cash read before the lock, and fills
\* applied side by side.
THEOREM LedgerIsExact == Spec => []LedgerExact
<1>1. OrderInv => LedgerExact
  <2> SUFFICES ASSUME OrderInv, ~raced, NEW a \in exists
               PROVE  /\ position[a] = Shares(a, executed, Requests)
                      /\ a \in stale \/ cash[a] = InitialCash - Shares(a, spent, Requests)
                      /\ \A r \in OrdersOf(a) :
                           /\ filled[r] <= job[r].quantity
                           /\ filled[r] + missed[r] =
                                IF executed[r] < job[r].quantity THEN executed[r] ELSE job[r].quantity
    BY DEF LedgerExact
  <2>1. Grounded /\ Behind /\ BooksOf(a)
    BY DEF OrderInv, Booked
  <2>2. ASSUME NEW r \in OrdersOf(a) PROVE filled[r] <= job[r].quantity
    <3>1. r \in Requests /\ pc[r] # "new"
      BY DEF OrdersOf
    <3>2. job[r].quantity \in Nat
      BY <2>1, <3>1 DEF Grounded, Typed, Job
    <3>3. CASE HasRow(r)
      BY <2>1, <3>1, <3>3 DEF Behind, BehindOf, Known, Active, Fits
    <3>4. CASE ~HasRow(r)
      <4>1. filled[r] = 0
        BY <2>1, <3>1, <3>4 DEF Grounded, Engaged
      <4> QED BY <3>2, <4>1
    <3> QED BY <3>3, <3>4
  <2>3. \A r \in OrdersOf(a) : Accounted(r)
    BY <2>1 DEF BooksOf
  <2> QED BY <2>1, <2>2, <2>3 DEF BooksOf, Accounted
<1> QED BY <1>1, OrderInvAlways, PTL

\* Pegs apart, a closed row has nothing in the engine; and an open row of a limit
\* or iceberg order that is good till cancelled has there what the row has left,
\* less what it traded at rest in its own call, as far as StatusAgrees claims it.
THEOREM StatusesAgree == Spec => []StatusAgrees
<1>1. OrderInv => StatusAgrees
  <2> SUFFICES ASSUME OrderInv, NEW r \in Rows
               PROVE  /\ status[r] \in Closed /\ job[r].type # "pegged" => left[r] = 0
                      /\ (/\ status[r] \in Open /\ Rests(r)
                          /\ ~undone /\ ~raced /\ r \notin reopened
                          /\ feed.got[r] = 0 /\ \A t \in Requests : got[t][r] = 0
                          /\ \A t \in Requests : CASE pc[t] = "closing" -> r \notin targets[t]
                                                   [] pc[t] = "deleting" -> job[t].account # job[r].account
                                                   [] OTHER -> TRUE)
                         => left[r] = Left(r) - missed[r]
    BY DEF StatusAgrees
  <2>1. /\ Grounded /\ Locked /\ Budget /\ StatusFits /\ Wholes /\ Booked
        /\ r \in Requests /\ HasRow(r)
    BY DEF OrderInv, Rows, HasRow
  <2>2. /\ job[r].quantity \in Nat /\ filled[r] \in Nat /\ missed[r] \in Nat
        /\ executed[r] \in Nat /\ left[r] \in Nat /\ Due(r) \in Nat
        /\ Total(r) = executed[r] + Due(r) + left[r]
    <3>1. /\ job[r].quantity \in Nat /\ filled[r] \in Nat /\ missed[r] \in Nat
          /\ executed[r] \in Nat /\ left[r] \in Nat
      BY <2>1 DEF Grounded, Typed, Amounts, Job, NoJob
    <3>2. Due(r) \in Nat /\ Total(r) = executed[r] + Due(r) + left[r]
      BY <2>1, TotalIs DEF Grounded
    <3> QED BY <3>1, <3>2
  <2>3. ASSUME status[r] \in Closed, job[r].type # "pegged" PROVE left[r] = 0
    <3>1. ~Peg(r) /\ StatusOf(r)
      BY <2>1, <2>3 DEF Peg, StatusFits
    <3>2. CASE status[r] = "filled"
      <4>1. executed[r] >= job[r].quantity
        BY <3>1, <3>2 DEF StatusOf
      <4>2. Total(r) <= job[r].quantity
        BY <2>1, <3>1 DEF Budget, Active
      <4> QED BY <2>2, <4>1, <4>2
    <3>3. CASE status[r] # "filled"
      BY <2>3, <3>1, <3>3 DEF StatusOf, Closed, Called
    <3> QED BY <3>2, <3>3
  <2>4. ASSUME status[r] \in Open, Rests(r),
               ~undone, ~raced, r \notin reopened,
               feed.got[r] = 0, \A t \in Requests : got[t][r] = 0,
               \A t \in Requests : CASE pc[t] = "closing" -> r \notin targets[t]
                                     [] pc[t] = "deleting" -> job[t].account # job[r].account
                                     [] OTHER -> TRUE
        PROVE  left[r] = Left(r) - missed[r]
    <3>1. Standing(r)
      BY <2>4 DEF Standing
    <3>2. Kept(r)
      BY <2>1, <2>4, <3>1 DEF Kept, Open, Called
    <3>3. Total(r) = job[r].quantity
      BY <2>1, <2>4, <3>2 DEF Wholes, Whole
    <3>4. Due(r) = 0
      BY <2>1, <2>4 DEF Due, Locked
    <3>5. job[r].account \in exists /\ r \in OrdersOf(job[r].account)
      BY <2>1 DEF Grounded, KeyInv, RowsOwned, OrdersOf
    <3>6. Accounted(r)
      BY <2>1, <2>4, <3>5 DEF Booked, BooksOf
    <3>7. executed[r] + left[r] = job[r].quantity
      BY <2>2, <3>3, <3>4
    <3>8. filled[r] + missed[r] = executed[r]
      BY <2>2, <3>6, <3>7 DEF Accounted
    <3> QED BY <2>2, <3>7, <3>8 DEF Left
  <2> QED BY <2>3, <2>4
<1> QED BY <1>1, OrderInvAlways, PTL

\* An account is overdrawn by no more than its fills cost beyond the prices of
\* their orders, as far as Solvent claims it: cash and that excess cover at all
\* times what its open orders may still cost at their prices.
THEOREM AccountsSolvent == Spec => []Solvent
<1>1. OrderInv => Solvent
  <2> SUFFICES ASSUME OrderInv, ~raced, NEW a \in exists, ~Exempt(a) PROVE cash[a] + excess[a] >= 0
    BY DEF Solvent, Exempt, Priceable
  <2>1. /\ Grounded /\ Locked /\ Budget
        /\ cash[a] + excess[a] >= SumFunctionOnSet(Cost(a), Requests)
    BY DEF OrderInv, Covered
  <2>2. /\ \A r \in Requests : Cost(a)[r] \in Nat
        /\ SumFunctionOnSet(Cost(a), Requests) \in Int
    BY <2>1, CostIs
  <2>3. SumFunctionOnSet(Cost(a), Requests) >= 0
    BY <2>2, SumNotBelow, RequestsAssumption
  <2>4. cash[a] + excess[a] \in Int
    BY <2>1 DEF Grounded, Typed
  <2> QED BY <2>1, <2>2, <2>3, <2>4
<1> QED BY <1>1, OrderInvAlways, PTL
=============================================================================
