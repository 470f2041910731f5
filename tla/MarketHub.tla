------------------------------ MODULE MarketHub ------------------------------
(***************************************************************************)
(* The phone's MarketDataHub, against the back end of MarketFeed.          *)
(*                                                                         *)
(* The hub is an actor: between two awaits a task runs alone, and at each  *)
(* await any other may run.  A task is a chain of calls: connect, which    *)
(* goes on into openSocket; the reader it starts; the timer the reader     *)
(* leaves behind; reconnectNow; and openSocket again.  at[t] is the await  *)
(* task t is at.  The fields socket, reader and reconnectTask are handles, *)
(* and a task goes on when the handle to it is gone: a reconnect that is   *)
(* past its sleep asks for the book, and opens a socket, after disconnect  *)
(* and beside the socket of a later connect.                               *)
(*                                                                         *)
(* No socket of the hub lasts: auth and subscribe are sent as binary       *)
(* messages (MarketDataHub.swift:87, 89), receive_json looks for text      *)
(* (main.py:497), and the KeyError ends the connection (main.py:550).  So  *)
(* the second send or the read fails with no fault of the network, no      *)
(* frame comes down, and the book a phone shows is that of the GETs it     *)
(* makes when it reconnects.                                               *)
(***************************************************************************)
EXTENDS MarketFeed

CONSTANTS
  Consumers,    (* the screens that show the book                           *)
  MaxConnects   (* bound: calls of connect                                  *)

ASSUME HubAssumption == MaxConnects \in Nat

Tasks == 1 .. MaxConnects
Nil == 0

VARIABLES
  consumers,    (* the hub's consumers                                      *)
  socket,       (* socket # nil                                             *)
  reader,       (* the task of the field reader, or Nil                     *)
  timer,        (* the task of the field reconnectTask, or Nil              *)
  at,           (* where each task is                                       *)
  got,          (* the version of the book a task's GET has brought, or Nil *)
  shown,        (* the version of latest, or Nil                            *)
  connects      (* bound: calls of connect so far and those that never come *)

hub == <<consumers, socket, reader, timer, at, got, shown, connects>>
vars == <<feedVars, hub>>

\* ended (or not begun); opening: refreshes the session; sending: auth and
\* subscribe; starting: the reader has yet to run; reading: receives;
\* waiting: sleeps; due: has slept, and waits for the actor; fetching: GET
\* book; answered: has the answer, and waits for the store and the actor.
Await == {"ended", "opening", "sending", "starting", "reading",
          "waiting", "due", "fetching", "answered"}

TypeOK ==
  /\ FeedTypeOK
  /\ consumers \subseteq Consumers
  /\ socket \in BOOLEAN
  /\ reader \in Tasks \cup {Nil} /\ timer \in Tasks \cup {Nil}
  /\ at \in [Tasks -> Await]
  /\ got \in [Tasks -> Nat] /\ shown \in Nat
  /\ connects \in 0 .. MaxConnects
  /\ timer # Nil => at[timer] \in {"waiting", "due"}

Init ==
  /\ FeedInit
  /\ consumers = {} /\ socket = FALSE /\ reader = Nil /\ timer = Nil
  /\ at = [t \in Tasks |-> "ended"] /\ got = [t \in Tasks |-> Nil] /\ shown = Nil
  /\ connects \in 0 .. MaxConnects

\* stopped: connect and disconnect set it and wait for nothing before they
\* are done.
Stopped == consumers = {}

\* The tasks after stopSocket: a reader that has not begun never will.  (One
\* that reads fails in any case.)
SocketStopped ==
  [t \in Tasks |-> IF t = reader /\ at[t] = "starting" THEN "ended" ELSE at[t]]

StopSocket == socket' = FALSE /\ reader' = Nil

\* scheduleReconnect by task t, the tasks being as in places.
ScheduleReconnect(t, places) ==
  IF ~Stopped /\ timer = Nil
  THEN at' = [places EXCEPT ![t] = "waiting"] /\ timer' = t
  ELSE at' = [places EXCEPT ![t] = "ended"] /\ UNCHANGED timer

-----------------------------------------------------------------------------
(* What the screens call.                                                  *)

\* reconnectTask?.cancel(), which ends a sleep and nothing later; stopSocket.
Quietened ==
  [t \in Tasks |-> IF t = timer /\ at[t] = "waiting" THEN "ended" ELSE SocketStopped[t]]

Connect(c) ==
  /\ connects < MaxConnects
  /\ connects' = connects + 1
  /\ consumers' = consumers \cup {c}
  /\ IF c \notin consumers \/ ~socket
     THEN /\ at' = [Quietened EXCEPT ![connects'] = "opening"]
          /\ timer' = Nil
          /\ StopSocket
     ELSE UNCHANGED <<socket, reader, timer, at>>
  /\ UNCHANGED <<got, shown>>

Disconnect(c) ==
  /\ consumers' = consumers \ {c}
  /\ IF consumers' = {}
     THEN at' = Quietened /\ timer' = Nil /\ StopSocket
     ELSE UNCHANGED <<socket, reader, timer, at>>
  /\ UNCHANGED <<got, shown, connects>>

-----------------------------------------------------------------------------
(* The tasks.                                                              *)

Move(t, from, to) == at[t] = from /\ at' = [at EXCEPT ![t] = to]

\* openSocket after refreshSession, with a token: whatever happened since, and
\* over a socket another task has opened.
OpenSocket(t) ==
  /\ Move(t, "opening", "sending")
  /\ socket' = TRUE
  /\ UNCHANGED <<consumers, reader, timer, got, shown, connects>>

Sent(t) ==
  /\ Move(t, "sending", "starting")
  /\ reader' = t
  /\ UNCHANGED <<consumers, socket, timer, got, shown, connects>>

\* Faulty: the failure is taken for the last one.
SendFailsForGood(t) ==
  /\ at[t] = "sending"
  /\ StopSocket
  /\ at' = [SocketStopped EXCEPT ![t] = "ended"]
  /\ UNCHANGED <<consumers, timer, got, shown, connects>>

\* The gateway may have closed the socket, or another task stopped it.
SendFails(t) ==
  /\ at[t] = "sending"
  /\ StopSocket
  /\ ScheduleReconnect(t, SocketStopped)
  /\ UNCHANGED <<consumers, got, shown, connects>>

ReadLoop(t) ==
  /\ Move(t, "starting", IF Stopped THEN "ended" ELSE "reading")
  /\ UNCHANGED <<consumers, socket, reader, timer, got, shown, connects>>

\* The catch of readLoop stops the socket there is, be it another task's.
ReadFails(t) ==
  /\ at[t] = "reading"
  /\ IF Stopped
     THEN at' = [at EXCEPT ![t] = "ended"] /\ UNCHANGED <<socket, reader, timer>>
     ELSE StopSocket /\ ScheduleReconnect(t, SocketStopped)
  /\ UNCHANGED <<consumers, got, shown, connects>>

Wake(t) ==
  /\ Move(t, "waiting", "due")
  /\ UNCHANGED <<consumers, socket, reader, timer, got, shown, connects>>

\* Faulty: the field still holds the task that has slept.
ReconnectNowKeepingTask(t) ==
  /\ Move(t, "due", IF Stopped THEN "ended" ELSE "fetching")
  /\ UNCHANGED <<consumers, socket, reader, timer, got, shown, connects>>

\* Faulty: the socket is opened without a look at the book.
ReconnectNowWithoutBook(t) ==
  /\ Move(t, "due", IF Stopped THEN "ended" ELSE "opening")
  /\ timer' = Nil
  /\ UNCHANGED <<consumers, socket, reader, got, shown, connects>>

\* The field may by now hold a later task.
ReconnectNow(t) ==
  /\ Move(t, "due", IF Stopped THEN "ended" ELSE "fetching")
  /\ timer' = Nil
  /\ UNCHANGED <<consumers, socket, reader, got, shown, connects>>

\* GET book, a snapshot under the lock.
Answer(t) ==
  /\ Move(t, "fetching", "answered")
  /\ ~locked
  /\ got' = [got EXCEPT ![t] = version]
  /\ UNCHANGED <<consumers, socket, reader, timer, shown, connects>>

\* The store takes every snapshot; then openSocket, which looks at stopped.
Consume(t) ==
  /\ Move(t, "answered", IF Stopped THEN "ended" ELSE "opening")
  /\ shown' = IF got[t] = Nil THEN shown ELSE got[t]
  /\ got' = [got EXCEPT ![t] = Nil]
  /\ UNCHANGED <<consumers, socket, reader, timer, connects>>

\* No token, when the session has ended.
NoToken(t) ==
  /\ Fault
  /\ at[t] = "opening"
  /\ ScheduleReconnect(t, at)
  /\ UNCHANGED <<consumers, socket, reader, got, shown, connects>>

FetchFails(t) ==
  /\ Fault
  /\ Move(t, "fetching", "answered")
  /\ UNCHANGED <<consumers, socket, reader, timer, got, shown, connects>>

\* A restart of the back end, in which requests are lost.
RestartAll ==
  /\ Restart
  /\ \E lost \in SUBSET {t \in Tasks : at[t] = "fetching"} :
       at' = [t \in Tasks |-> IF t \in lost THEN "answered" ELSE at[t]]
  /\ UNCHANGED <<consumers, socket, reader, timer, got, shown, connects>>

-----------------------------------------------------------------------------

Calls == \E c \in Consumers : Connect(c) \/ Disconnect(c)

Task(t) == \/ OpenSocket(t) \/ Sent(t) \/ SendFails(t)
           \/ ReadLoop(t) \/ ReadFails(t)
           \/ Wake(t) \/ ReconnectNow(t) \/ Answer(t) \/ Consume(t)

HubFaults == \E t \in Tasks : NoToken(t) \/ FetchFails(t)

Next ==
  \/ FeedStep /\ UNCHANGED hub
  \/ RestartAll
  \/ (Calls \/ \E t \in Tasks : Task(t)) /\ UNCHANGED feedVars
  \/ HubFaults /\ UNCHANGED <<backend, frame, gateway, wire, client>>

\* Every task of the hub goes on: sockets fail, timers run out, requests are
\* answered.
Fairness == FeedFairness /\ \A t \in Tasks : WF_hub(Task(t))

Spec == Init /\ [][Next]_vars /\ Fairness

-----------------------------------------------------------------------------
(* Properties.                                                             *)

\* While a screen shows the book some task of the hub is on its way to the
\* next snapshot, whatever other tasks have stopped, cancelled or left to a
\* timer of another (scheduleReconnect, MarketDataHub.swift:150).
Alive == consumers # {} => \E t \in Tasks : at[t] # "ended"

\* When the book is at rest, a phone with the book on its screen comes to show
\* it and keeps it, through sockets that never last, answers that come late to
\* a hub that was disconnected meanwhile, and two chains of reconnects at once
\* (reconnectNow, MarketDataHub.swift:161).
Settles == <>[](consumers # {}) => <>[](shown = version)
=============================================================================
