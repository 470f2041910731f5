----------------------------- MODULE MarketFeed -----------------------------
(***************************************************************************)
(* The book on its way from the back end to a client: the sequence number  *)
(* and the frames of backend/main.py (publisher, gateway) and the Redis    *)
(* channel between them.                                                   *)
(*                                                                         *)
(* The back end has one event loop and request threads.  A frame reads     *)
(* the sequence number first and the book under engine_lock later, so a    *)
(* thread can change both in between; while the loop waits for the lock it *)
(* runs nothing else, which is what frame # NoFrame says.  A book is       *)
(* known by a version that grows with every change and every restart: it   *)
(* is what the properties compare and no code reads it.  Reading and       *)
(* adding to sequence[symbol] is one step: the interpreter the project     *)
(* asks for (3.11 or later) does not switch threads inside it.             *)
(*                                                                         *)
(* The client is one that sends text frames, as backend/README.md:30 and   *)
(* openapi.yaml:166 tell it to, and is let in.  The repository's own       *)
(* phone sends binary ones, which end its connection: see MarketHub.       *)
(***************************************************************************)
EXTENDS Integers, Sequences

CONSTANTS
  MaxSequence,  (* bound: the publisher stops at this sequence number       *)
  MaxChanges,   (* bound: changes of the book                               *)
  MaxAsks,      (* bound: messages of the client                            *)
  MaxFaults     (* bound: lost connections, lost messages, restarts         *)

ASSUME BoundsAssumption == {MaxSequence, MaxChanges, MaxAsks, MaxFaults} \subseteq Nat

VARIABLES
  sequence,     (* sequence[symbol]                                         *)
  version,      (* history: the version of the book                         *)
  changes,      (* bound: changes of the book so far                        *)
  locked,       (* a request thread is between its change and its release   *)
  feeding,      (* fills of a feed order still to be applied (_feed_changed)*)
  frame,        (* the frame the event loop is making, or NoFrame           *)
  channel,      (* what the gateway's pubsub holds for it                   *)
  subscribed,   (* the symbol is in the gateway's subscriptions             *)
  joining,      (* the gateway has subscribed and owes the snapshot         *)
  filter,       (* its seq[symbol]                                          *)
  up,           (* messages on their way to the gateway                     *)
  down,         (* frames on their way to the client                        *)
  asked,        (* bound: messages so far and those that never come         *)
  seen,         (* history: the version of the last frame the client took   *)
  faults        (* bound: faults so far and those that never come           *)

backend == <<sequence, version, changes, locked, feeding>>
gateway == <<channel, subscribed, joining, filter>>
wire == <<up, down>>
client == <<asked, seen>>
feedVars == <<backend, frame, gateway, wire, client, faults>>

NoFrame == [maker |-> "none", seq |-> 0]

\* A frame of the book: its number, its contents, and whether it is a
\* snapshot or a delta (also a whole book).
Frame == [seq : Nat, version : Nat, kind : {"snapshot", "delta"}]
Message == {"subscribe", "resync", "unsubscribe"}

FeedTypeOK ==
  /\ sequence \in Nat /\ version \in Nat /\ changes \in Nat
  /\ locked \in BOOLEAN /\ feeding \in BOOLEAN
  /\ frame \in [maker : {"none", "publisher", "gateway"}, seq : Nat]
  /\ channel \in Seq(Frame)
  /\ subscribed \in BOOLEAN /\ joining \in BOOLEAN /\ filter \in Nat
  /\ up \in Seq(Message)
  /\ down \in Seq(Frame)
  /\ asked \in Nat /\ seen \in Nat /\ faults \in Nat

FeedInit ==
  /\ sequence = 0 /\ version = 1 /\ changes = 0
  /\ locked = FALSE /\ feeding = FALSE
  /\ frame = NoFrame
  /\ channel = <<>> /\ subscribed = FALSE /\ joining = FALSE /\ filter = 0
  /\ up = <<>> /\ down = <<>>
  /\ asked \in 0 .. MaxAsks /\ seen = 0
  /\ faults \in 0 .. MaxFaults

-----------------------------------------------------------------------------
(* The back end changes the book.                                          *)

\* The loop is not blocked in the middle of a frame.
LoopFree == frame = NoFrame

Change ==
  /\ ~locked
  /\ changes < MaxChanges
  /\ changes' = changes + 1
  /\ version' = version + 1

\* place_order under engine_lock: the book first, the number at the end.
Place ==
  /\ Change
  /\ locked' = TRUE
  /\ UNCHANGED <<sequence, feeding, frame, gateway, wire, client, faults>>

Placed ==
  /\ locked
  /\ locked' = FALSE
  /\ sequence' = sequence + 1
  /\ UNCHANGED <<version, changes, feeding, frame, gateway, wire, client, faults>>

\* cancel_order and delete_account move no number.
Cancel ==
  /\ Change
  /\ UNCHANGED <<sequence, locked, feeding, frame, gateway, wire, client, faults>>

\* An order of the TCP feed, on the loop; its number moves when its fills
\* have been applied.
Feed ==
  /\ LoopFree
  /\ ~feeding
  /\ Change
  /\ feeding' = TRUE
  /\ UNCHANGED <<sequence, locked, frame, gateway, wire, client, faults>>

FeedChanged ==
  /\ LoopFree
  /\ feeding
  /\ feeding' = FALSE
  /\ sequence' = sequence + 1
  /\ UNCHANGED <<version, changes, locked, frame, gateway, wire, client, faults>>

-----------------------------------------------------------------------------
(* Frames: _book_frame waits for the lock, with the number already read.   *)

Publish ==
  /\ LoopFree
  /\ sequence < MaxSequence
  /\ sequence' = sequence + 1
  /\ frame' = [maker |-> "publisher", seq |-> sequence']
  /\ UNCHANGED <<version, changes, locked, feeding, gateway, wire, client, faults>>

Made(kind) == [seq |-> frame.seq, version |-> version, kind |-> kind]

Published ==
  /\ frame.maker = "publisher"
  /\ ~locked
  /\ channel' = IF subscribed THEN Append(channel, Made("delta")) ELSE channel
  /\ frame' = NoFrame
  /\ UNCHANGED <<backend, subscribed, joining, filter, wire, client, faults>>

\* The gateway reads a message: a subscription to Redis comes before the
\* snapshot, so no frame falls between the two.
GatewaySubscribe ==
  /\ LoopFree /\ ~joining
  /\ up # <<>> /\ Head(up) = "subscribe"
  /\ up' = Tail(up)
  /\ subscribed' = TRUE /\ joining' = TRUE
  /\ UNCHANGED <<backend, frame, channel, filter, down, client, faults>>

GatewaySnapshot ==
  /\ LoopFree /\ joining
  /\ joining' = FALSE
  /\ frame' = [maker |-> "gateway", seq |-> sequence]
  /\ UNCHANGED <<backend, channel, subscribed, filter, wire, client, faults>>

\* A snapshot for a client that has subscribed; others get no answer.
GatewayResync ==
  /\ LoopFree /\ ~joining
  /\ up # <<>> /\ Head(up) = "resync"
  /\ up' = Tail(up)
  /\ frame' = IF subscribed THEN [maker |-> "gateway", seq |-> sequence] ELSE frame
  /\ UNCHANGED <<backend, gateway, down, client, faults>>

\* seq[symbol] and what the pubsub has received already stay.
GatewayUnsubscribe ==
  /\ LoopFree /\ ~joining
  /\ up # <<>> /\ Head(up) = "unsubscribe"
  /\ up' = Tail(up)
  /\ subscribed' = FALSE
  /\ UNCHANGED <<backend, frame, channel, joining, filter, down, client, faults>>

GatewayAnswers ==
  /\ frame.maker = "gateway"
  /\ ~locked
  /\ filter' = frame.seq
  /\ down' = Append(down, Made("snapshot"))
  /\ frame' = NoFrame
  /\ UNCHANGED <<backend, channel, subscribed, joining, up, client, faults>>

\* Faulty: what the snapshot holds already is sent again.
GatewayForwardAll ==
  /\ LoopFree /\ ~joining
  /\ channel # <<>>
  /\ channel' = Tail(channel)
  /\ IF subscribed
     THEN /\ filter' = Head(channel).seq
          /\ down' = Append(down, Head(channel))
     ELSE UNCHANGED <<filter, down>>
  /\ UNCHANGED <<backend, frame, subscribed, joining, up, client, faults>>

\* Faulty: only the next number is sent on, as the phone's store has it.
GatewayForwardNext ==
  /\ LoopFree /\ ~joining
  /\ channel # <<>>
  /\ channel' = Tail(channel)
  /\ IF subscribed /\ Head(channel).seq = filter + 1
     THEN /\ filter' = Head(channel).seq
          /\ down' = Append(down, Head(channel))
     ELSE UNCHANGED <<filter, down>>
  /\ UNCHANGED <<backend, frame, subscribed, joining, up, client, faults>>

\* The gateway takes an event of the channel; only newer ones go on, to a
\* client that is still subscribed.
GatewayForward ==
  /\ LoopFree /\ ~joining
  /\ channel # <<>>
  /\ channel' = Tail(channel)
  /\ IF subscribed /\ Head(channel).seq > filter
     THEN /\ filter' = Head(channel).seq
          /\ down' = Append(down, Head(channel))
     ELSE UNCHANGED <<filter, down>>
  /\ UNCHANGED <<backend, frame, subscribed, joining, up, client, faults>>

-----------------------------------------------------------------------------
(* The client, which may send any message at any time.                     *)

Ask ==
  /\ asked < MaxAsks
  /\ asked' = asked + 1
  /\ \E m \in Message : up' = Append(up, m)
  /\ UNCHANGED <<backend, frame, gateway, down, seen, faults>>

Take ==
  /\ down # <<>>
  /\ down' = Tail(down)
  /\ seen' = Head(down).version
  /\ UNCHANGED <<backend, frame, gateway, up, asked, faults>>

-----------------------------------------------------------------------------
(* Faults.                                                                 *)

Fault ==
  /\ faults < MaxFaults
  /\ faults' = faults + 1

\* The connection is gone with everything on it, and its gateway task ends
\* (a frame it was making goes nowhere).  The client's next connection has a
\* gateway task of its own.
Hangup ==
  /\ up' = <<>> /\ down' = <<>> /\ channel' = <<>>
  /\ subscribed' = FALSE /\ joining' = FALSE /\ filter' = 0

Break ==
  /\ Fault
  /\ Hangup
  /\ frame' = IF frame.maker = "gateway" THEN NoFrame ELSE frame
  /\ UNCHANGED <<backend, client>>

\* Redis drops messages of a subscription it has to set up again.
Lose ==
  /\ Fault
  /\ channel # <<>>
  /\ channel' = <<>>
  /\ UNCHANGED <<backend, frame, subscribed, joining, filter, wire, client>>

\* The back end restarts: a newly seeded book, numbers from 0 again.
Restart ==
  /\ Fault
  /\ Hangup
  /\ sequence' = 0 /\ version' = version + 1
  /\ locked' = FALSE /\ feeding' = FALSE
  /\ frame' = NoFrame
  /\ UNCHANGED <<changes, client>>

-----------------------------------------------------------------------------

Threads == Place \/ Placed \/ Cancel
Loop == \/ Feed \/ FeedChanged
        \/ Publish \/ Published
        \/ GatewaySubscribe \/ GatewaySnapshot \/ GatewayResync \/ GatewayUnsubscribe
        \/ GatewayAnswers \/ GatewayForward
Client == Ask \/ Take

\* All steps but the restart, which other connections notice too.
FeedStep == Threads \/ Loop \/ Client \/ Break \/ Lose

\* A thread in its critical section goes on; the loop runs every ready task;
\* the client reads its socket.
FeedFairness ==
  /\ WF_feedVars(Placed)
  /\ WF_feedVars(FeedChanged)
  /\ WF_feedVars(Publish) /\ WF_feedVars(Published)
  /\ WF_feedVars(GatewaySubscribe \/ GatewayResync \/ GatewayUnsubscribe)
  /\ WF_feedVars(GatewaySnapshot) /\ WF_feedVars(GatewayAnswers)
  /\ WF_feedVars(GatewayForward)
  /\ WF_feedVars(Take)

-----------------------------------------------------------------------------
(* Properties.                                                             *)

\* The books of an earlier and of a later frame.
NotOlder(f, g) == f.version <= g.version

\* Frames reach the client in order: a delta is newer, by number, than all
\* frames sent before it, and no frame shows an older book than one before
\* it, whether the client has it (over an earlier connection even), or it
\* waits in the socket, in the channel, or is still to be made
\* (market_gateway, main.py:493: the filter and the snapshots).
SentInOrder ==
  /\ \A i, j \in 1 .. Len(down) :
       i < j => /\ NotOlder(down[i], down[j])
                /\ down[j].kind = "delta" => down[i].seq < down[j].seq
  /\ \A i \in 1 .. Len(down), j \in 1 .. Len(channel) :
       channel[j].seq > filter =>
         /\ NotOlder(down[i], channel[j])
         /\ down[i].seq < channel[j].seq
  /\ \A i \in 1 .. Len(down) : seen <= down[i].version
  /\ \A j \in 1 .. Len(channel) : channel[j].seq > filter => seen <= channel[j].version

\* When the book is at rest, a client that stays subscribed over a lasting
\* connection comes to see it after one more beat of the publisher, although
\* orders took, and may still take, numbers of which no frame is sent
\* (_market_publisher, main.py:561; the filter, main.py:542).
Fresh ==
  (/\ changes = MaxChanges /\ faults = MaxFaults
   /\ asked = MaxAsks /\ up = <<>> /\ subscribed
   /\ sequence + (IF locked THEN 1 ELSE 0) + (IF feeding THEN 1 ELSE 0) < MaxSequence)
    ~> seen = version
=============================================================================
