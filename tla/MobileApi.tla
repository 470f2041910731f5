------------------------------ MODULE MobileApi ------------------------------
(***************************************************************************)
(* The public simulator API, dashboard/server/mobile_api.py: one actor     *)
(* owns the book of a symbol and runs the commands of a bounded queue one  *)
(* by one; HTTP calls put commands in and wait for their answers; a        *)
(* publisher hands whole-book frames to web sockets, each behind a queue   *)
(* of one frame, and slow clients miss frames instead of holding others up.*)
(*                                                                         *)
(* Everything runs on one asyncio loop, so a task runs alone from one      *)
(* await to the next: an action is what a task does between two awaits.    *)
(* The book after n commands is known by n, the actor's sequence, so a     *)
(* frame is the number it carries.  Counters that only reports read        *)
(* (accepted, rejected, latencies, trades, metrics) are left out, and so   *)
(* are the heartbeats of an idle socket.                                   *)
(***************************************************************************)
EXTENDS Naturals, Sequences

CONSTANTS
  Calls,        (* the HTTP calls, each made at most once                   *)
  Orders,       (* Orders[c][i]: is the symbol of order i of call c known?  *)
  Capacity,     (* QUEUE_CAPACITY                                           *)
  Sockets,      (* clients of /ws/v1/market                                 *)
  MaxConnects   (* bound: how often a client connects                       *)

ASSUME OrdersAssumption == Orders \in [Calls -> Seq(BOOLEAN) \ {<<>>}]
ASSUME CapacityAssumption == Capacity \in Nat \ {0}
ASSUME MaxConnectsAssumption == MaxConnects \in Nat

VARIABLES
  queue,        (* queue: commands <<c, i>>, order i of call c              *)
  sequence,     (* sequence: commands run, and the version of the book      *)
  phase,        (* where the handler of a call is                           *)
  future,       (* the answer to the command a call waits for               *)
  results,      (* the answers a call has collected, in order               *)
  stream,       (* where the market_stream task of a client is              *)
  frames,       (* its queue: at most one frame                             *)
  sent,         (* the frame it is sending                                  *)
  last_seq,     (* its last_seq                                             *)
  view,         (* the frame its client saw last                            *)
  connects,     (* bound: connections made                                  *)
  admitted      (* history: the commands ever queued, in order              *)

actor == <<queue, sequence, admitted>>
calls == <<phase, future, results>>
sockets == <<stream, frames, sent, last_seq, view, connects>>
vars == <<actor, calls, sockets>>

Command == Calls \X Nat

\* An answer: refused (unknown symbol, 503 ENGINE_BUSY), or run as the seq-th
\* command.  Pending is a future that is not done.
Unknown == [status |-> "unknown", seq |-> 0]
Busy == [status |-> "busy", seq |-> 0]
Pending == [status |-> "pending", seq |-> 0]
Accepted(n) == [status |-> "accepted", seq |-> n]
Answer == [status : {"unknown", "busy", "accepted", "pending"}, seq : Nat]

TypeOK ==
  /\ queue \in Seq(Command)
  /\ sequence \in Nat
  /\ admitted \in Seq(Command)
  /\ phase \in [Calls -> {"new", "waiting", "done", "gone"}]
  /\ future \in [Calls -> Answer]
  /\ results \in [Calls -> Seq(Answer)]
  /\ stream \in [Sockets -> {"off", "greeting", "listening", "sending"}]
  /\ frames \in [Sockets -> Seq(Nat)] /\ \A s \in Sockets : Len(frames[s]) <= 1
  /\ sent \in [Sockets -> Nat]
  /\ last_seq \in [Sockets -> Nat]
  /\ view \in [Sockets -> Nat]
  /\ connects \in [Sockets -> 0 .. MaxConnects]

Init ==
  /\ queue = <<>>
  /\ sequence = 0
  /\ admitted = <<>>
  /\ phase = [c \in Calls |-> "new"]
  /\ future = [c \in Calls |-> Pending]
  /\ results = [c \in Calls |-> <<>>]
  /\ stream = [s \in Sockets |-> "off"]
  /\ frames = [s \in Sockets |-> <<>>]
  /\ sent = [s \in Sockets |-> 0]
  /\ last_seq = [s \in Sockets |-> 0]
  /\ view = [s \in Sockets |-> 0]
  /\ connects = [s \in Sockets |-> 0]

-----------------------------------------------------------------------------
(* HTTP calls: submit_order is a batch of one.                             *)

Full == Len(queue) >= Capacity

\* Faulty: orders that are refused get no answer.
RefusalsLeftOut(c, i, j) == <<>>

\* The orders of call c from i to j, none of which reaches the queue.
Refusals(c, i, j) ==
  [k \in 1 .. (j + 1 - i) |-> IF Orders[c][i + k - 1] THEN Busy ELSE Unknown]

\* Order j is the first one from i on that its actor admits.
IsNext(c, i, j) ==
  /\ ~Full
  /\ j \in i .. Len(Orders[c])
  /\ Orders[c][j]
  /\ \A k \in i .. (j - 1) : ~Orders[c][k]

\* Call c queues order j and waits for its answer.
Admit(c, answers, j) ==
  /\ IsNext(c, Len(answers) + 1, j)
  /\ queue' = Append(queue, <<c, j>>)
  /\ admitted' = Append(admitted, <<c, j>>)
  /\ phase' = [phase EXCEPT ![c] = "waiting"]
  /\ future' = [future EXCEPT ![c] = Pending]
  /\ results' = [results EXCEPT
                   ![c] = answers \o Refusals(c, Len(answers) + 1, j - 1)]
  /\ UNCHANGED sequence

\* Nothing more of call c can be queued: it returns.
Return(c, answers) ==
  /\ \A j \in 1 .. Len(Orders[c]) : ~IsNext(c, Len(answers) + 1, j)
  /\ phase' = [phase EXCEPT ![c] = "done"]
  /\ future' = [future EXCEPT ![c] = Pending]
  /\ results' =
       [results EXCEPT
          ![c] = answers \o Refusals(c, Len(answers) + 1, Len(Orders[c]))]
  /\ UNCHANGED actor

\* What a handler does up to its next await, with the answers it has.
Proceed(c, answers) ==
  /\ \/ \E j \in 1 .. Len(Orders[c]) : Admit(c, answers, j)
     \/ Return(c, answers)
  /\ UNCHANGED sockets

\* A call arrives.
Receive(c) ==
  /\ phase[c] = "new"
  /\ Proceed(c, <<>>)

\* The answer call c waits for is there.
Resume(c) ==
  /\ phase[c] = "waiting"
  /\ future[c] # Pending
  /\ Proceed(c, Append(results[c], future[c]))

\* The client of a waiting call goes away: its task and future are cancelled,
\* its command stays in the queue.
Abandon(c) ==
  /\ phase[c] = "waiting"
  /\ phase' = [phase EXCEPT ![c] = "gone"]
  /\ future' = [future EXCEPT ![c] = Pending]
  /\ UNCHANGED <<actor, results, sockets>>

\* Faulty: the newest command runs first.
WorkNewest ==
  /\ queue # <<>>
  /\ LET c == queue[Len(queue)][1]
     IN  future' = IF phase[c] = "waiting"
                   THEN [future EXCEPT ![c] = Accepted(sequence + 1)]
                   ELSE future
  /\ queue' = SubSeq(queue, 1, Len(queue) - 1)
  /\ sequence' = sequence + 1
  /\ UNCHANGED <<admitted, phase, results, sockets>>

\* Faulty: the future is not set.
WorkSilently ==
  /\ queue # <<>>
  /\ queue' = Tail(queue)
  /\ sequence' = sequence + 1
  /\ UNCHANGED <<admitted, phase, future, results, sockets>>

\* The worker runs the oldest command; nobody is told if its call is gone.
Work ==
  /\ queue # <<>>
  /\ LET c == Head(queue)[1]
     IN  future' = IF phase[c] = "waiting"
                   THEN [future EXCEPT ![c] = Accepted(sequence + 1)]
                   ELSE future
  /\ queue' = Tail(queue)
  /\ sequence' = sequence + 1
  /\ UNCHANGED <<admitted, phase, results, sockets>>

-----------------------------------------------------------------------------
(* Market sockets.                                                         *)

\* A client connects: it subscribes and is sent the book as it is now.
Connect(s) ==
  /\ stream[s] = "off"
  /\ connects[s] < MaxConnects
  /\ connects' = [connects EXCEPT ![s] = @ + 1]
  /\ stream' = [stream EXCEPT ![s] = "greeting"]
  /\ sent' = [sent EXCEPT ![s] = sequence]
  /\ UNCHANGED <<actor, calls, frames, last_seq, view>>

\* Faulty: the newest version is taken for the one that was sent.
DeliverAsNewest(s) ==
  /\ stream[s] \in {"greeting", "sending"}
  /\ view' = [view EXCEPT ![s] = sent[s]]
  /\ last_seq' = [last_seq EXCEPT ![s] = sequence]
  /\ stream' = [stream EXCEPT ![s] = "listening"]
  /\ sent' = [sent EXCEPT ![s] = 0]
  /\ UNCHANGED <<actor, calls, frames, connects>>

\* A send completes; the first frame of a connection leaves last_seq at 0.
Deliver(s) ==
  /\ stream[s] \in {"greeting", "sending"}
  /\ view' = [view EXCEPT ![s] = sent[s]]
  /\ last_seq' = IF stream[s] = "sending"
                 THEN [last_seq EXCEPT ![s] = sent[s]]
                 ELSE last_seq
  /\ stream' = [stream EXCEPT ![s] = "listening"]
  /\ sent' = [sent EXCEPT ![s] = 0]
  /\ UNCHANGED <<actor, calls, frames, connects>>

\* Faulty: the queue outlives its connection.
DropWithoutUnsubscribe(s) ==
  /\ stream[s] \in {"greeting", "sending"}
  /\ stream' = [stream EXCEPT ![s] = "off"]
  /\ sent' = [sent EXCEPT ![s] = 0]
  /\ last_seq' = [last_seq EXCEPT ![s] = 0]
  /\ view' = [view EXCEPT ![s] = 0]
  /\ UNCHANGED <<actor, calls, frames, connects>>

\* A send fails because the client has gone: the task unsubscribes and ends.
Drop(s) ==
  /\ stream[s] \in {"greeting", "sending"}
  /\ stream' = [stream EXCEPT ![s] = "off"]
  /\ frames' = [frames EXCEPT ![s] = <<>>]
  /\ sent' = [sent EXCEPT ![s] = 0]
  /\ last_seq' = [last_seq EXCEPT ![s] = 0]
  /\ view' = [view EXCEPT ![s] = 0]
  /\ UNCHANGED <<actor, calls, connects>>

\* The task takes its frame and sends it unless the client has a newer one.
Take(s) ==
  /\ stream[s] = "listening"
  /\ frames[s] # <<>>
  /\ frames' = [frames EXCEPT ![s] = Tail(@)]
  /\ IF Head(frames[s]) > last_seq[s]
     THEN /\ stream' = [stream EXCEPT ![s] = "sending"]
          /\ sent' = [sent EXCEPT ![s] = Head(frames[s])]
     ELSE UNCHANGED <<stream, sent>>
  /\ UNCHANGED <<actor, calls, last_seq, view, connects>>

\* Faulty: frames pile up behind a slow client.
PublishBehind ==
  /\ frames' = [s \in Sockets |-> IF stream[s] = "off" THEN <<>>
                                  ELSE Append(frames[s], sequence)]
  /\ UNCHANGED <<actor, calls, stream, sent, last_seq, view, connects>>

\* Every subscriber gets the present book in the place of an older frame.
Publish ==
  /\ frames' = [s \in Sockets |-> IF stream[s] = "off" THEN <<>>
                                  ELSE <<sequence>>]
  /\ UNCHANGED <<actor, calls, stream, sent, last_seq, view, connects>>

Next ==
  \/ \E c \in Calls : Receive(c) \/ Resume(c) \/ Abandon(c)
  \/ Work
  \/ \E s \in Sockets : Connect(s) \/ Deliver(s) \/ Drop(s) \/ Take(s)
  \/ Publish

\* The loop keeps running its ready tasks, the publisher's sleep ends, and a
\* send ends one way or the other, however slow the client.
Fairness ==
  /\ WF_vars(Work)
  /\ WF_vars(Publish)
  /\ \A c \in Calls : WF_vars(Resume(c))
  /\ \A s \in Sockets : WF_vars(Deliver(s) \/ Drop(s)) /\ WF_vars(Take(s))

Spec == Init /\ [][Next]_vars /\ Fairness

-----------------------------------------------------------------------------
(* Properties.                                                             *)

\* The commands still queued are the ones admitted last, in order, and never
\* more than the queue holds: the worker takes them first in, first out, also
\* those whose caller has gone, and none twice.
FirstInFirstOut ==
  /\ sequence + Len(queue) = Len(admitted)
  /\ \A k \in 1 .. Len(queue) : queue[k] = admitted[sequence + k]
  /\ Len(queue) <= Capacity

\* An answer goes to the order it belongs to: order i of a call was told it
\* ran as number n only if it was the n-th command.  The orders of a batch run
\* in the order of the request ("Preserve request order"), and a finished call
\* has one answer for each (submit, _run, submit_batch).
AnswersMatch ==
  \A c \in Calls :
    /\ \A i \in 1 .. Len(results[c]) :
         results[c][i].status = "accepted" =>
           /\ results[c][i].seq \in 1 .. sequence
           /\ admitted[results[c][i].seq] = <<c, i>>
           /\ \A j \in 1 .. (i - 1) : results[c][j].seq < results[c][i].seq
    /\ phase[c] = "done" => Len(results[c]) = Len(Orders[c])

\* A client never sees the book go back while it stays connected, although
\* last_seq forgets the greeting and frames wait in two places.
NeverBackwards ==
  [][\A s \in Sockets : view'[s] >= view[s] \/ stream'[s] = "off"]_vars

\* Every call that waits is answered unless its client leaves.
Answered == \A c \in Calls : phase[c] = "waiting" ~> phase[c] \in {"done", "gone"}

\* Conflation never loses the last word: whatever version of the book is
\* reached, a connected client comes to see one at least as new
\* (market_publisher, market_stream).
Refreshed(n) ==
  \A s \in Sockets :
    (sequence >= n /\ stream[s] # "off") ~> (view[s] >= n \/ stream[s] = "off")
=============================================================================
