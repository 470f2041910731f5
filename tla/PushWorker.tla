----------------------------- MODULE PushWorker -----------------------------
(***************************************************************************)
(* The alerts of backend/push_worker.py: a stream in Redis, its consumer   *)
(* group, and one worker that reads, sends and acknowledges.               *)
(*                                                                         *)
(* What Redis does is modelled from its commands: XREADGROUP with an id    *)
(* answers with the entries this consumer has been given and has not       *)
(* acknowledged, for each stream that was asked for, even if there are     *)
(* none; with ">" it gives out entries no consumer has had, and answers    *)
(* with no stream at all if there are none.  The limit of 20 entries to a  *)
(* reply and the trimming of the stream are left out.                      *)
(***************************************************************************)
EXTENDS Naturals, Sequences, SequencesExt

CONSTANTS
  Entries,      (* alerts the back end adds, each once                      *)
  Attempts,     (* how often a send is tried: 3                             *)
  MaxCrashes    (* bound: restarts of the worker                            *)

VARIABLES
  stream,       (* the entries, oldest first                                *)
  given,        (* how many of them the group has been given                *)
  pending,      (* given and not acknowledged                               *)
  pc,           (* where the worker is                                      *)
  records,      (* the rest of its batch                                    *)
  attempt,      (* attempt                                                  *)
  sent,         (* history: entries that reached Apple                      *)
  crashes       (* bound                                                    *)

redis == <<stream, given, pending>>
worker == <<pc, records, attempt>>
vars == <<redis, worker, sent, crashes>>

\* The group begins at the first entry of the stream.
Init ==
  /\ stream = <<>> /\ given = 0 /\ pending = <<>>
  /\ pc = "down" /\ records = <<>> /\ attempt = 0
  /\ sent = {} /\ crashes = 0

\* The back end adds an alert for a fill (XADD).
Add(e) ==
  /\ e \notin ToSet(stream)
  /\ stream' = Append(stream, e)
  /\ UNCHANGED <<given, pending, worker, sent, crashes>>

Start ==
  /\ pc = "down"
  /\ pc' = "own"
  /\ UNCHANGED <<redis, records, attempt, sent, crashes>>

\* A reply: one batch for each stream it names.
OwnReply == <<pending>>
NewReply == IF given < Len(stream) THEN <<SubSeq(stream, given + 1, Len(stream))>> ELSE <<>>

\* The worker's own entries; new ones are read if there is no batch.
ReadOwn ==
  /\ pc = "own"
  /\ LET batches == OwnReply
     IN  IF batches = <<>>
         THEN pc' = "new" /\ UNCHANGED records
         ELSE pc' = "records" /\ records' = FlattenSeq(batches)
  /\ UNCHANGED <<redis, attempt, sent, crashes>>

ReadNew ==
  /\ pc = "new"
  /\ LET batches == NewReply
     IN  /\ given' = Len(stream)
         /\ pending' = pending \o FlattenSeq(batches)
         /\ records' = FlattenSeq(batches)
  /\ pc' = "records"
  /\ UNCHANGED <<stream, attempt, sent, crashes>>

\* A send that works, or the last that fails, ends the attempts.
Send ==
  /\ pc = "records" /\ records # <<>>
  /\ \/ /\ sent' = sent \cup {Head(records)}
        /\ pc' = "ack" /\ attempt' = 0
     \/ /\ attempt + 1 < Attempts
        /\ attempt' = attempt + 1
        /\ UNCHANGED <<sent, pc>>
     \/ /\ attempt + 1 = Attempts
        /\ pc' = "ack" /\ attempt' = 0
        /\ UNCHANGED sent
  /\ UNCHANGED <<redis, records, crashes>>

\* Every entry has a token, so it is acknowledged however the sends went.
Ack ==
  /\ pc = "ack"
  /\ pending' = SelectSeq(pending, LAMBDA e : e # Head(records))
  /\ records' = Tail(records)
  /\ pc' = "records"
  /\ UNCHANGED <<stream, given, attempt, sent, crashes>>

NextBatch ==
  /\ pc = "records" /\ records = <<>>
  /\ pc' = "own"
  /\ UNCHANGED <<redis, records, attempt, sent, crashes>>

Crash ==
  /\ pc # "down" /\ crashes < MaxCrashes
  /\ crashes' = crashes + 1
  /\ pc' = "down" /\ records' = <<>> /\ attempt' = 0
  /\ UNCHANGED <<redis, sent>>

Work == Start \/ ReadOwn \/ ReadNew \/ Send \/ Ack \/ NextBatch

Next == (\E e \in Entries : Add(e)) \/ Work \/ Crash

\* The worker is started again and keeps running.
Spec == Init /\ [][Next]_vars /\ WF_vars(Work)

-----------------------------------------------------------------------------
(* Properties.                                                             *)

\* Every alert in the stream is sent or given up after the attempts, through
\* restarts ("Durable Redis Stream consumer that delivers simulated-fill APNs
\* alerts").
Delivered ==
  \A e \in Entries :
    e \in ToSet(stream) ~> e \in ToSet(SubSeq(stream, 1, given)) \ ToSet(pending)
=============================================================================
